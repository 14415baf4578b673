------------------------------- MODULE Unwrap -------------------------------
(***************************************************************************)
(* The review of a shell call by the opencode-unwrap plugin                *)
(* (targets/opencode-unwrap.js: review and the evaluate hook).             *)
(*                                                                         *)
(* OpenCode judges the commands of a call as they are typed.  The plugin   *)
(* then peels them, asks OpenCode for the session and its agent, and       *)
(* decides again; meanwhile the user may switch agents or grant a command  *)
(* for the rest of the session.                                            *)
(*                                                                         *)
(* A call carries, for the properties, how each of its commands was built: *)
(* `layers`, from what is typed to the command inside, each telling        *)
(* whether it wraps the next one transparently.                            *)
(***************************************************************************)
EXTENDS Peel

CONSTANTS
  Agents,     \* [agents -> rules]
  Unnamed,    \* no agent
  Lines,      \* what the model may type: sequences of built commands
  Grants,     \* rules the user may add to the session
  MaxGrants   \* bound on these

ASSUME UnwrapAssumption ==
  /\ Unnamed \notin DOMAIN Agents
  /\ MaxGrants \in Nat

-----------------------------------------------------------------------------
(***************************************************************************)
(* How a command is built around another, as the documentation of the      *)
(* wrappers tells it, without searching for the command inside.            *)
(***************************************************************************)

Redirecting(w) == ~w.quoted /\ w.pieces[1] \in Redirects \cup Operators

\* The words of its own between the wrapper w and the command at k of c are
\* `own`: options, some with a value in the next word, assignments, and as many
\* arguments as it takes; `last` is the last of all.
Introduces(c, k, w, last, own) ==
  LET assigns(j) == w.assignments /\ IsAssignment(c[j])
      takes(j) == IsOption(c[j]) /\ OneOf(c[j], w.values)
  IN /\ last \in {k - 2, k - 1} /\ own \subseteq 2..last
     /\ \A j \in 2..last : j \in own \/ (j - 1 \in own /\ takes(j - 1))
     /\ \A j \in own : /\ ~Says(c[j], "--") /\ ~OneOf(c[j], w.lookups)
                       /\ takes(j) => j + 1 \in (2..last) \ own
     /\ Cardinality({j \in own : ~IsOption(c[j]) /\ ~assigns(j)}) = w.positionals
     /\ IF last = k - 2 THEN Says(c[k - 1], "--")
        ELSE ~Says(c[k], "--") /\ ~OneOf(c[k], w.lookups) /\ ~IsOption(c[k]) /\ ~assigns(k)

\* c is d behind something, which it wraps transparently if `open`.
Wraps(c, d, open) ==
  LET head == c[1]
      leads == Redirecting(head) \/ IsAssignment(head)
      foreign == head.quoted \/ head.pieces[1] \in DOMAIN Paths \ SystemPaths
  IN \/ /\ leads /\ ~open
        /\ d \in From(c, IF Redirecting(head) /\ head.pieces[1] \notin Redirects THEN 3 ELSE 2)
     \/ /\ ~leads
        /\ \E p \in Programs(c), k \in 2..Len(c), last \in 1..Len(c) :
             /\ d \in From(c, k)
             /\ \E own \in SUBSET (2..last) :
                  /\ Introduces(c, k, Wrappers[p], last, own)
                  /\ open <=> /\ ~foreign /\ p \in DOMAIN TransparentWrappers
                              /\ \A j \in own : IsOption(c[j]) => IsHarmless(c[j], p)
     \/ /\ ~leads /\ ~open
        /\ head.quoted \/ Basename(head.pieces) # head.pieces
        /\ Programs(c) \cap DOMAIN TransparentWrappers # {} => foreign
        /\ d = Words(Basename(head.pieces)) \o Tail(c)
     \/ ~leads /\ ~open /\ Basename(head.pieces) = <<"env">> /\ d \in Payload(c)

ASSUME LinesAssumption ==
  \A line \in Lines : \A i \in DOMAIN line :
    LET layers == line[i].layers
    IN /\ layers \in Seq([words : Seq(ShellWords), open : BOOLEAN]) \ {<<>>}
       /\ \A k \in DOMAIN layers :
            LET c == layers[k].words
            IN /\ WellFormed(c) /\ c # <<>>
               /\ IF k < Len(layers) THEN Wraps(c, layers[k + 1].words, layers[k].open)
                  ELSE ~c[1].quoted /\ Programs(c) = {}

VARIABLES
  agent,    \* the agent of the session, or Unnamed
  grants,   \* the permissions of the session, a sequence of rules
  call      \* the shell call under review

vars == <<agent, grants, call>>

Effects == {"allow", "ask", "deny"}

\* agent: what the event names.  judged: OpenCode's effect, under rules; read:
\* what the first request returned.
Idle == [at |-> "idle", line |-> <<>>, agent |-> Unnamed, effect |-> "ask", judged |-> "ask",
         rules |-> <<>>, read |-> [agent |-> Unnamed, grants |-> <<>>], loaded |-> FALSE]

Typed(command) == command.layers[1].words
Resources(line) == {Typed(line[i]) : i \in DOMAIN line}

RulesOf(name, added) == (IF name \in DOMAIN Agents THEN Agents[name] ELSE <<>>) \o added

-----------------------------------------------------------------------------
(* OpenCode judges the call and runs the hook.  A call by an agent names   *)
(* it, or leaves it to the session.                                        *)

Judge(rules, resources) ==
  LET effects == {Evaluate(rules, c) : c \in resources}
  IN IF "deny" \in effects THEN "deny" ELSE IF "ask" \in effects THEN "ask" ELSE "allow"

Call(line, named) ==
  /\ call.at = "idle"
  /\ LET rules == RulesOf(IF named = Unnamed THEN agent ELSE named, grants)
         effect == Judge(rules, Resources(line))
     IN call' = [Idle EXCEPT !.at = "hook", !.line = line, !.agent = named,
                             !.effect = effect, !.judged = effect, !.rules = rules]
  /\ UNCHANGED <<agent, grants>>

Peeled(line) == UNION {Spellings(c) : c \in Resources(line)}

\* A denied call, and one with nothing to peel, are left as they are.
LeaveAlone ==
  /\ call.at = "hook"
  /\ call.effect = "deny" \/ Peeled(call.line) = {}
  /\ call' = [call EXCEPT !.at = "done"]
  /\ UNCHANGED <<agent, grants>>

\* ctx.session.get
ReadSession ==
  /\ call.at = "hook"
  /\ call.effect # "deny" /\ Peeled(call.line) # {}
  /\ call' = [call EXCEPT !.at = "session", !.read = [agent |-> agent, grants |-> grants]]
  /\ UNCHANGED <<agent, grants>>

Asker == IF call.agent = Unnamed THEN call.read.agent ELSE call.agent

Review(rules, line, effect) ==
  IF \E c \in Peeled(line) : Evaluate(rules, c) = "deny" THEN "deny"
  ELSE IF effect = "ask" /\ \A c \in Resources(line) : Passes(rules, c) THEN "allow"
  ELSE effect

\* ctx.agent.get, and the decision.
Decide ==
  /\ call.at = "session" /\ Asker # Unnamed
  /\ LET rules == RulesOf(Asker, call.read.grants)
     IN call' = [call EXCEPT !.at = "done", !.rules = rules, !.loaded = TRUE,
                             !.effect = Review(rules, call.line, call.effect)]
  /\ UNCHANGED <<agent, grants>>

\* Wrong on purpose: a failure leaves OpenCode's answer.
Fail_Open ==
  /\ call.at \in {"hook", "session"}
  /\ call.effect # "deny" /\ Peeled(call.line) # {}
  /\ call' = [call EXCEPT !.at = "done"]
  /\ UNCHANGED <<agent, grants>>

\* A request fails, or the session names no agent.
Fail ==
  /\ call.at \in {"hook", "session"}
  /\ call.effect # "deny" /\ Peeled(call.line) # {}
  /\ call' = [call EXCEPT !.at = "done", !.effect = "deny"]
  /\ UNCHANGED <<agent, grants>>

\* OpenCode acts on the effect.
Answer == call.at = "done" /\ call' = Idle /\ UNCHANGED <<agent, grants>>

\* The user, at any time.
Switch(name) == name # agent /\ agent' = name /\ UNCHANGED <<grants, call>>

Grant(rule) ==
  /\ Len(grants) < MaxGrants
  /\ grants' = Append(grants, rule)
  /\ UNCHANGED <<agent, call>>

Init == agent \in DOMAIN Agents \cup {Unnamed} /\ grants = <<>> /\ call = Idle

Next ==
  \/ \E line \in Lines, named \in DOMAIN Agents \cup {Unnamed} : Call(line, named)
  \/ LeaveAlone \/ ReadSession \/ Decide \/ Fail \/ Answer
  \/ \E name \in DOMAIN Agents : Switch(name)
  \/ \E rule \in Grants : Grant(rule)

Spec == Init /\ [][Next]_vars

-----------------------------------------------------------------------------
(***************************************************************************)
(* A deny reaches inside: a call that is not denied has no command, behind *)
(* any chain of the wrappers the plugin declares, that the rules deny      *)
(* (docs/targets/opencode.md: "denies a command when the agent's and       *)
(* session's rules deny it with its assignments, program path, or wrappers *)
(* peeled").                                                               *)
(***************************************************************************)
DenyReachesInside ==
  call.at = "done" /\ call.effect # "deny" =>
    \A i \in DOMAIN call.line : \A k \in 2..Len(call.line[i].layers) :
      Evaluate(call.rules, call.line[i].layers[k].words) # "deny"

(***************************************************************************)
(* An ask becomes an allow only where every command of the call is allowed *)
(* as typed, or wraps transparently, and without a rule of its own at any  *)
(* layer, a command that a rule other than the catch-all allows (the same  *)
(* page: "The one allow it carries is through transparent wrappers ... for *)
(* a command that fell to the catch-all").                                 *)
(***************************************************************************)
AllowIsCarried ==
  call.at = "done" /\ call.judged = "ask" /\ call.effect = "allow" =>
    \A i \in DOMAIN call.line :
      LET layers == call.line[i].layers
      IN \/ Evaluate(call.rules, Typed(call.line[i])) = "allow"
         \/ \E k \in DOMAIN layers :
              /\ \E r \in Specific(call.rules, layers[k].words) : r.effect = "allow"
              /\ \A j \in 1..k - 1 :
                   layers[j].open /\ Specific(call.rules, layers[j].words) = {}

(***************************************************************************)
(* No wrapped command runs, or is put to the user, unless the plugin could *)
(* read the rules for what is inside.                                      *)
(***************************************************************************)
NothingRunsUnread ==
  call.at = "done" /\ ~call.loaded /\ (\E i \in DOMAIN call.line : Len(call.line[i].layers) > 1)
    => call.effect = "deny"
=============================================================================
