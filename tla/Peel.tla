-------------------------------- MODULE Peel --------------------------------
(***************************************************************************)
(* How the opencode-unwrap plugin finds the command inside a command       *)
(* (targets/opencode-unwrap.js: peel.ts and rules.ts).                     *)
(*                                                                         *)
(* A command is a sequence of words.  A word has the pieces its value      *)
(* splits into, one unless it was quoted, and whether its raw text differs *)
(* from its value (quoted).  What the regular expressions and the string   *)
(* methods tell of a piece is given by the constants; spacing is left out. *)
(***************************************************************************)
EXTENDS Naturals, SequencesExt, FiniteSets

CONSTANTS
  Assignments,  \* pieces of the form NAME=value
  Redirects,    \* redirections joined to their targets
  Operators,    \* redirections with the target in the next word
  Options,      \* pieces that start with a dash, "-" alone excepted
  Stems,        \* [the options joined to a value by "=" -> the option]
  Paths,        \* [pieces with a directory -> the name of the program]
  SystemPaths   \* the ones in /bin or /usr/bin

ASSUME PiecesAssumption ==
  /\ DOMAIN Stems \subseteq Options /\ "--" \in Options
  /\ SystemPaths \subseteq DOMAIN Paths
  /\ SystemPaths \cap (Assignments \cup Redirects \cup Operators) = {}
  /\ \A path \in DOMAIN Paths : Paths[path] \in STRING \ DOMAIN Paths

-----------------------------------------------------------------------------
(* Wrappers: the options that take a value, the options that only look a   *)
(* name up, whether assignments may come first, and how many arguments     *)
(* come before the command.                                                *)

Taking(values) == [values |-> values, lookups |-> {}, assignments |-> FALSE, positionals |-> 0]

Wrappers == [
  builtin   |-> Taking({}),
  command   |-> [Taking({}) EXCEPT !.lookups = {"-v", "-V"}],
  doas      |-> Taking({"-a", "-C", "-u"}),
  env       |-> [Taking({"-a", "-C", "-P", "-S", "-u", "--argv0", "--chdir", "--split-string",
                         "--unset"}) EXCEPT !.assignments = TRUE],
  exec      |-> Taking({"-a"}),
  nice      |-> Taking({"-n", "--adjustment"}),
  nocorrect |-> Taking({}),
  noglob    |-> Taking({}),
  nohup     |-> Taking({}),
  stdbuf    |-> Taking({"-e", "-i", "-o", "--error", "--input", "--output"}),
  sudo      |-> [Taking({"-C", "-D", "-g", "-h", "-p", "-R", "-r", "-T", "-t", "-U", "-u",
                         "--chdir", "--chroot", "--close-from", "--command-timeout", "--group",
                         "--host", "--other-user", "--prompt", "--role", "--type", "--user"})
                 EXCEPT !.assignments = TRUE],
  time      |-> Taking({"-f", "-o", "--format", "--output"}),
  timeout   |-> [Taking({"-k", "--kill-after", "-s", "--signal"}) EXCEPT !.positionals = 1],
  xargs     |-> Taking({"-a", "-d", "-E", "-I", "-J", "-L", "-n", "-P", "-R", "-S", "-s",
                        "--arg-file", "--delimiter", "--max-args", "--max-chars", "--max-lines",
                        "--max-procs", "--process-slot-var"})]

\* The wrappers that change nothing a rule decides, with the options that do not.
TransparentWrappers == [
  nice      |-> {"-n", "--adjustment"},
  nohup     |-> {},
  noglob    |-> {},
  nocorrect |-> {},
  time      |-> {"-p"},
  timeout   |-> {"-k", "--kill-after", "-s", "--signal", "--foreground", "--preserve-status",
                 "-v", "--verbose"}]

\* No wrapper's name reads as an assignment or a redirection.
ASSUME NamesAssumption ==
  DOMAIN Wrappers \cap (Assignments \cup Redirects \cup Operators) = {}

-----------------------------------------------------------------------------
(* Words.                                                                  *)

\* As the shell may be given them: spaces separate words that are not quoted.
ShellWords == [pieces : Seq(STRING), quoted : BOOLEAN]

WellFormed(c) ==
  /\ c \in Seq(ShellWords)
  /\ \A i \in DOMAIN c : Len(c[i].pieces) > 0 /\ (~c[i].quoted => Len(c[i].pieces) = 1)

Word(piece) == [pieces |-> <<piece>>, quoted |-> FALSE]
Words(pieces) == [i \in DOMAIN pieces |-> Word(pieces[i])]

\* value === text
Says(w, text) == w.pieces = <<text>>
OneOf(w, texts) == \E text \in texts : Says(w, text)

IsOption(w) == w.pieces[1] \in Options
IsAssignment(w) == w.pieces[1] \in Assignments

From(c, k) == IF k \in DOMAIN c THEN {SubSeq(c, k, Len(c))} ELSE {}

\* basename: what follows the last directory of the value.
Basename(pieces) ==
  LET directories == {k \in DOMAIN pieces : pieces[k] \in DOMAIN Paths}
  IN IF directories = {} THEN pieces
     ELSE LET last == CHOOSE k \in directories : \A j \in directories : j <= k
          IN <<Paths[pieces[last]]>> \o SubSeq(pieces, last + 1, Len(pieces))

\* [word -> arguments still to come -> the index of the wrapped command, or 0].
Scan(c, w, start) ==
  LET scan[k \in 1..Len(c) + 2] == [left \in 0..start |->
        IF k > Len(c) THEN 0
        ELSE IF Says(c[k], "--") THEN IF k < Len(c) THEN k + 1 ELSE 0
        ELSE IF OneOf(c[k], w.lookups) THEN 0
        ELSE IF IsOption(c[k]) THEN scan[k + (IF OneOf(c[k], w.values) THEN 2 ELSE 1)][left]
        ELSE IF w.assignments /\ IsAssignment(c[k]) THEN scan[k + 1][left]
        ELSE IF left > 0 THEN scan[k + 1][left - 1]
        ELSE k]
  IN scan

WrappedFrom(c, w, start) == Scan(c, w, start)[2][start]

\* Wrong on purpose: an argument of the wrapper is taken for the command.
Wrapped_Eager(c, w) == WrappedFrom(c, w, 0)

Wrapped(c, w) == WrappedFrom(c, w, w.positionals)

\* WRAPPERS[program].  The code looks it up in a plain object, so it also finds
\* the members every object has (toString, valueOf, ...): no programs, left out.
Programs(c) == {p \in DOMAIN Wrappers : Basename(c[1].pieces) = <<p>>}

\* What env -S runs: its value split into words, and the rest.
Payload(c) ==
  LET splits == {k \in 2..Len(c) : OneOf(c[k], {"-S", "--split-string"})}
  IN IF splits = {} THEN {}
     ELSE LET first == CHOOSE k \in splits : \A j \in splits : k <= j
          IN IF first = Len(c) THEN {}
             ELSE {Words(c[first + 1].pieces) \o SubSeq(c, first + 2, Len(c))}

\* The spellings one step closer to the command: past a redirection (not quoted
\* in any part: that REDIRECT also finds `>"out"` is left out), past an
\* assignment, without the directory or the quotes of the program, or inside a
\* wrapper.
PeelOnce(c) ==
  IF c = <<>> THEN {}
  ELSE LET head == c[1]
           start == head.pieces[1]
           program == Basename(head.pieces)
       IN IF ~head.quoted /\ start \in Redirects \cup Operators
          THEN From(c, IF start \in Redirects THEN 2 ELSE 3)
          ELSE IF IsAssignment(head) THEN From(c, 2)
          ELSE (IF head.quoted \/ program # head.pieces THEN {Words(program) \o Tail(c)} ELSE {})
               \cup (IF program = <<"env">> THEN Payload(c) ELSE {})
               \cup UNION {From(c, Wrapped(c, Wrappers[p])) : p \in Programs(c)}

\* An option that changes nothing, as it is or joined to its value.
IsHarmless(w, p) ==
  \E o \in TransparentWrappers[p] :
    Says(w, o) \/ (w.pieces[1] \in DOMAIN Stems /\ Stems[w.pieces[1]] = o)

\* The command that stands for c when c only wraps it transparently: its head
\* is spelled plainly and its options are of the harmless ones.  At most one.
Transparent(c) ==
  IF c = <<>> \/ (c # <<>> /\ c[1].quoted) THEN {}
  ELSE LET spelled == c[1].pieces[1]
       IN UNION {LET k == Wrapped(c, Wrappers[p])
                 IN IF \A j \in 2..k - 1 :
                         (IsOption(c[j]) \/ Says(c[j], "-")) /\ ~Says(c[j], "--") => IsHarmless(c[j], p)
                    THEN From(c, k) ELSE {} :
                 p \in {q \in Programs(c) \cap DOMAIN TransparentWrappers :
                          spelled \in DOMAIN Paths => spelled \in SystemPaths}}

-----------------------------------------------------------------------------
(* All the spellings of a command.  A step drops a piece, or else the      *)
(* quotes and the directory of a head: at most two steps for each piece.   *)

Places(c) == UNION {{i} \X DOMAIN c[i].pieces : i \in DOMAIN c}

MaxPeels(c) == 2 * Cardinality(Places(c))

\* [n -> the commands at most n steps from c]
Reach(Step(_), c) ==
  LET reach[n \in 0..MaxPeels(c)] ==
        IF n = 0 THEN {c}
        ELSE LET found == reach[n - 1] IN found \cup UNION {Step(d) : d \in found}
  IN reach

Closure(Step(_), c) == Reach(Step, c)[MaxPeels(c)]

Spellings(c) == Closure(PeelOnce, c) \ {c}

-----------------------------------------------------------------------------
(* Rules: a resource is a sequence of words, and whether any may follow;   *)
(* the catch-all "*" has no words.  The last rule that matches decides.    *)

CatchAll == [words |-> <<>>, more |-> TRUE]

Match(c, resource) ==
  IsPrefix(resource.words, c) /\ (resource.more \/ c = resource.words)

Matching(rules, c) ==
  LET hits == {i \in DOMAIN rules : Match(c, rules[i].resource)}
  IN {rules[i] : i \in {j \in hits : \A k \in hits : k <= j}}

Evaluate(rules, c) ==
  IF Matching(rules, c) = {} THEN "ask" ELSE (CHOOSE r \in Matching(rules, c) : TRUE).effect

\* The rule for c that is not the catch-all, if that is the one that decides.
Specific(rules, c) == {r \in Matching(rules, c) : r.resource # CatchAll}

\* Wrong on purpose: any spelling a rule allows will do.
Passes_Anywhere(rules, c) ==
  \E d \in Closure(Transparent, c) : \E r \in Specific(rules, d) : r.effect = "allow"

\* Allowed as typed, or as the first command a rule other than the catch-all
\* decides, from the typed one inwards.
Passes(rules, c) ==
  \/ Evaluate(rules, c) = "allow"
  \/ \E d \in Closure(Transparent, c) :
       /\ \E r \in Specific(rules, d) : r.effect = "allow"
       /\ \A e \in Closure(Transparent, c) : Len(e) > Len(d) => Specific(rules, e) = {}
=============================================================================
