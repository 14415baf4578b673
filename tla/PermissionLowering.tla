------------------------- MODULE PermissionLowering -------------------------
(***************************************************************************)
(* The command policy from its fragments to the four tools: what is loaded *)
(* (sources.py), what each compiler writes for it (targets/permissions.py, *)
(* claude.py, opencode.py, cursor.py, codex.py), and what the tool that    *)
(* reads it then decides for a command.                                    *)
(*                                                                         *)
(* A pattern is a text whose stars stand for any text.  How each tool      *)
(* matches and which of several rules wins is external, modelled as the    *)
(* compilers rely on it.  The opencode-unwrap plugin is reduced to what    *)
(* the compiler leaves to it: a deny behind the prefixes it peels.         *)
(*                                                                         *)
(* Left out: secret names and paths, tool classes, workspace directories,  *)
(* MCP rules, redirects, and the diagnostics.                              *)
(***************************************************************************)
EXTENDS CommandRules

CONSTANTS
  Rules,           \* the rules people write
  Fragments,       \* the files they write them in
  MaxRules,        \* bound on the rules written at one time
  Combined,        \* bound: only these rules meet in threes or across fragments
  Commands,        \* the commands whose decision is compared
  Interpreters,    \* programs that run their argument (INTERPRETER_COMMANDS)
  ClaudePeeled,    \* the wrapper prefixes Claude strips before ask and deny rules
  UnwrapPeeled     \* the wrapper prefixes the unwrap plugin strips before deny rules

ASSUME BoundAssumption == MaxRules \in Nat

Programs == DOMAIN Options

(* A declared vocabulary is not empty.                                     *)
Vocabularies == Fragments \X {p \in Programs : Options[p] \cup Assignments[p] # {}}

Buckets == {"allow", "ask", "deny"}

Entries == [from : Fragments, bucket : Buckets, rule : Rules]

VARIABLES
  entries,    \* the rules in all fragments
  declared,   \* <<fragment, program>>: where a vocabulary is declared
  unmatched,  \* the decision for a command no rule matches
  status      \* "edited" since the last run, or how loading went

vars == <<entries, declared, unmatched, status>>

(***************************************************************************)
(* Glob patterns (targets/permissions.py).  A wrapper prefix is the        *)
(* wrapper right before the command, or with a hole for its arguments.     *)
(***************************************************************************)
Glob(pattern, text) ==
  LET m[p \in (0..Len(pattern)) \X (0..Len(text))] ==
        LET i == p[1]  j == p[2]
        IN IF i = 0 THEN j = 0
           ELSE IF pattern[i] = Star THEN m[<<i - 1, j>>] \/ (j > 0 /\ m[<<i, j - 1>>])
           ELSE j > 0 /\ pattern[i] = text[j] /\ m[<<i - 1, j - 1>>]
  IN m[<<Len(pattern), Len(text)>>]

HasStar(pattern) == \E i \in DOMAIN pattern : pattern[i] = Star

EndsWithHole(pattern) ==
  Len(pattern) >= 2 /\ pattern[Len(pattern)] = Star /\ pattern[Len(pattern) - 1] = Space

WrapperPrefixes == Wrappers \X {"direct", "arguments"}

PrefixText(p) == p[1] \o (IF p[2] = "direct" THEN <<Space>> ELSE <<Space, Star, Space>>)

GlobHeads(r, options, prefix) ==
  {prefix \o Join(HeadOf(r))} \cup
  (IF r.subcommand = <<>> THEN {}
   ELSE {prefix \o r.command \o <<Space>> \o o \o <<Star, Space>> \o Join(r.subcommand) :
           o \in options})

GlobVariants_NoBare(r, options, prefix, optionalTrailing) ==  \* mutant: no bare form of a stem with a hole
  LET heads == GlobHeads(r, options, prefix)
      stems == IF r.tail = {} THEN heads
               ELSE {h \o gap \o Join(s) : h \in heads, s \in r.tail,
                                           gap \in {<<Space>>, <<Space, Star, Space>>}}
  IN IF r.exact THEN heads
     ELSE IF r.text # {} THEN {s \o <<Star>> \o t \o <<Star>> : s \in stems, t \in r.text}
     ELSE {s \o <<Space, Star>> : s \in stems}

GlobVariants(r, options, prefix, optionalTrailing) ==
  LET heads == GlobHeads(r, options, prefix)
      stems == IF r.tail = {} THEN heads
               ELSE {h \o gap \o Join(s) : h \in heads, s \in r.tail,
                                           gap \in {<<Space>>, <<Space, Star, Space>>}}
      spaced == {t \in r.text : Last(t) = Space}
  IN IF r.exact THEN heads
     ELSE IF r.text # {}
     THEN {s \o <<Star>> \o t \o <<Star>> : s \in stems, t \in r.text}
            \cup {s \o <<Star>> \o Front(t) : s \in stems, t \in spaced}
     ELSE {s \o <<Space, Star>> : s \in stems}
            \cup (IF optionalTrailing THEN {} ELSE {s \in stems : HasStar(s)})

(* The two tools that read globs.  peels: what the tool strips itself.     *)
Claude == [optionalTrailing |-> FALSE, peeled |-> ClaudePeeled, peelsAsk |-> TRUE]
OpenCode == [optionalTrailing |-> TRUE, peeled |-> UnwrapPeeled, peelsAsk |-> FALSE]

Peels(tool, bucket) ==
  tool.peeled # {} /\ (bucket = "deny" \/ (bucket = "ask" /\ tool.peelsAsk))

OptionsOf(r) == VocabularyOf(r.command, declared, Options)
AssignmentsOf(r) == VocabularyOf(r.command, declared, Assignments)

CopyPrefixes_DenyOnly(tool, e) ==  \* mutant: only denies get wrapped copies
  {<<>>}
  \cup (IF Peels(tool, e.bucket) THEN {} ELSE {a \o <<Space>> : a \in AssignmentsOf(e.rule)})
  \cup (IF e.bucket # "deny" THEN {} ELSE {PrefixText(p) : p \in WrapperPrefixes \ tool.peeled})

CopyPrefixes(tool, e) ==
  {<<>>}
  \cup (IF Peels(tool, e.bucket) THEN {} ELSE {a \o <<Space>> : a \in AssignmentsOf(e.rule)})
  \cup (IF e.bucket = "allow" THEN {}
        ELSE {PrefixText(p) : p \in IF Peels(tool, e.bucket)
                                      THEN WrapperPrefixes \ tool.peeled ELSE WrapperPrefixes})

PatternsOf(tool, e) ==
  UNION {GlobVariants(e.rule, OptionsOf(e.rule), prefix, tool.optionalTrailing) :
           prefix \in CopyPrefixes(tool, e)}

IsWide(pattern) == \E i \in 1..(Len(pattern) - 1) :
                     pattern[i] = Star /\ pattern[i + 1] \notin {Space, Star}

Uncovered_Swapped(patterns) ==  \* mutant: drops the covering pattern
  {p \in patterns : ~\E q \in patterns : /\ IsWide(p) /\ q # p
                                         /\ Glob(p, q) /\ ~Glob(q, p)}

Uncovered(patterns) ==
  {p \in patterns : ~\E q \in patterns : /\ IsWide(q) /\ q # p
                                         /\ Glob(q, p) /\ ~Glob(p, q)}

BucketPatterns(tool, bucket) ==
  IF bucket = "allow" /\ unmatched = "allow" THEN {}
  ELSE Uncovered(UNION {PatternsOf(tool, e) : e \in {f \in entries : f.bucket = bucket}})

Emitted(tool) == [allow |-> BucketPatterns(tool, "allow"), ask |-> BucketPatterns(tool, "ask"),
                  deny |-> BucketPatterns(tool, "deny")]

(***************************************************************************)
(* What the glob tools decide.  A final " *" also matches nothing: always  *)
(* on OpenCode, on Claude where it is the pattern's only hole.             *)
(***************************************************************************)
Suits(tool, pattern, c) ==
  \/ Glob(pattern, Join(c))
  \/ /\ EndsWithHole(pattern)
     /\ tool.optionalTrailing \/ ~HasStar(Front(pattern))
     /\ Glob(SubSeq(pattern, 1, Len(pattern) - 2), Join(c))

(* Whether a tool that peels sheds what stands from i up to k: a leading    *)
(* assignment, whoever declares it, or a wrapper.  Which of the words       *)
(* behind a wrapper are its arguments is left open.                        *)
Sheds(peeled, c, i, k) ==
  \/ peeled # {} /\ k = i + 1 /\ c[i] \in UNION {Assignments[p] : p \in Programs}
  \/ <<c[i], IF k = i + 1 THEN "direct" ELSE "arguments">> \in peeled

(* What a tool sees once it has shed any number of them (spellings).       *)
SeenFrom(peeled, c) ==
  {j \in DOMAIN c : \E steps \in SUBSET (1..j) :
     /\ {1, j} \subseteq steps
     /\ \A k \in steps \ {1} : \E i \in steps : i < k /\ Sheds(peeled, c, i, k)}

Strip(peeled, c) == {From(c, j) : j \in SeenFrom(peeled, c)}

StripTable == [peeled \in {ClaudePeeled, UnwrapPeeled} |-> [c \in Commands |-> Strip(peeled, c)]]

Peelings(tool, c) == StripTable[tool.peeled][c]

(* The patterns any policy over Rules can emit, and what each one matches. *)
AllPatterns ==
  UNION {GlobVariants(r, Options[r.command], prefix, FALSE) :
           r \in Rules,
           prefix \in {<<>>} \cup {PrefixText(p) : p \in WrapperPrefixes}
                        \cup {a \o <<Space>> : a \in UNION {Assignments[p] : p \in Programs}}}

Spelled == UNION {{From(c, i) : i \in DOMAIN c} : c \in Commands}

Suited == [optionalTrailing \in BOOLEAN |-> [p \in AllPatterns |->
             {c \in Spelled : Suits([optionalTrailing |-> optionalTrailing], p, c)}]]

Hit(tool, patterns, c) == \E p \in patterns : c \in Suited[tool.optionalTrailing][p]

(* Claude: deny over ask over allow, peeling only for the first two.       *)
ClaudeDecision(c, patterns) ==
  LET guarded(bucket) == \E s \in Peelings(Claude, c) : Hit(Claude, patterns[bucket], s)
  IN IF guarded("deny") THEN "deny"
     ELSE IF guarded("ask") THEN "ask"
     ELSE IF unmatched = "allow" \/ Hit(Claude, patterns["allow"], c) THEN "allow"
     ELSE "ask"

(* OpenCode: one list, the last match wins.                                *)
ShellRules_AsksLast(patterns) ==  \* mutant: asks after denies
  <<[effect |-> unmatched, catchAll |-> TRUE, patterns |-> {}],
    [effect |-> "allow", catchAll |-> FALSE, patterns |-> patterns.allow],
    [effect |-> "deny", catchAll |-> FALSE, patterns |-> patterns.deny],
    [effect |-> "ask", catchAll |-> FALSE, patterns |-> patterns.ask]>>

ShellRules(patterns) ==
  <<[effect |-> unmatched, catchAll |-> TRUE, patterns |-> {}],
    [effect |-> "allow", catchAll |-> FALSE, patterns |-> patterns.allow],
    [effect |-> "ask", catchAll |-> FALSE, patterns |-> patterns.ask],
    [effect |-> "deny", catchAll |-> FALSE, patterns |-> patterns.deny]>>

LastMatch(list, c) ==
  LET n == CHOOSE i \in DOMAIN list :
             /\ list[i].catchAll \/ Hit(OpenCode, list[i].patterns, c)
             /\ \A j \in (i + 1)..Len(list) : ~(list[j].catchAll \/ Hit(OpenCode, list[j].patterns, c))
  IN list[n].effect

OpenCodeDecision(c, list) ==
  IF \E s \in Peelings(OpenCode, c) : LastMatch(list, s) = "deny" THEN "deny" ELSE LastMatch(list, c)

(***************************************************************************)
(* Cursor: an allowlist only.  An entry is a plain prefix in words, or the *)
(* program and a glob for its arguments.                                   *)
(***************************************************************************)
ArgumentHeads(r, options) ==
  {r.subcommand} \cup
  (IF r.subcommand = <<>> THEN {}
   ELSE {<<o>> \o hole \o r.subcommand : o \in options, hole \in {<<>>, <<<<Star>>>>}})

CursorEntries(r, options) ==
  LET prefixes == IF r.tail = {} THEN ArgumentHeads(r, options)
                  ELSE {h \o hole \o s : h \in ArgumentHeads(r, options), s \in r.tail,
                                         hole \in {<<>>, <<<<Star>>>>}}
      holed == {p \in prefixes : <<Star>> \in ToSet(p)}
      entry(plain, words) == [plain |-> plain, program |-> r.command, words |-> words]
  IN IF r.text # {} THEN {}
     ELSE IF r.exact THEN {entry(FALSE, p) : p \in prefixes}
     ELSE {entry(TRUE, p) : p \in prefixes \ holed}
            \cup {entry(FALSE, p) : p \in holed}
            \cup {entry(FALSE, Append(p, <<Star>>)) : p \in holed}

CursorRuns(entry, c) ==
  /\ c[1] = entry.program
  /\ IF entry.plain THEN IsPrefix(entry.words, Tail(c))
                    ELSE Glob(Join(entry.words), Join(Tail(c)))

PrefixOverlaps(guard, allowed, options) ==
  LET size == Len(allowed.subcommand)
  IN /\ guard.command = allowed.command /\ ~allowed.exact
     /\ \/ IsPrefix(allowed.subcommand, guard.subcommand)
        \/ /\ size > 0 /\ guard.subcommand # <<>>
           /\ guard.subcommand[1] \in options
           /\ IsSuffix(allowed.subcommand, guard.subcommand)

RidesOptions(guard, allowed, options) ==
  LET size == Len(allowed.subcommand) - Len(guard.subcommand)
  IN /\ ~allowed.exact /\ size > 0
     /\ From(allowed.subcommand, size + 1) = guard.subcommand
     /\ \A i \in 1..size : allowed.subcommand[i] \in options

Collides_NarrowingOnly(guard, allowed) == Narrows(guard, allowed)  \* mutant: overlaps stay listed

Collides(guard, allowed) ==
  \/ Narrows(guard, allowed)
  \/ PrefixOverlaps(guard, allowed, OptionsOf(guard))
  \/ RidesOptions(guard, allowed, OptionsOf(guard))

Guards == {e \in entries : e.bucket # "allow"}

Allowlist ==
  {r \in {e.rule : e \in entries \ Guards} :
     r.command \notin Interpreters /\ \A g \in Guards : ~Collides(g.rule, r)}

CursorAutoRuns(c) ==
  \E r \in Allowlist : \E entry \in CursorEntries(r, OptionsOf(r)) : CursorRuns(entry, c)

(***************************************************************************)
(* Codex: prefix rules over words, each position a set of alternatives.    *)
(* Rules that differ only in their last word become one.                   *)
(***************************************************************************)
Projected == {e \in Guards : e.rule.text = {} /\ ~e.rule.exact}

Spellings(r) == IF r.tail = {} THEN {HeadOf(r)} ELSE {HeadOf(r) \o s : s \in r.tail}

Leads == {<<>>} \cup (IF Wrappers = {} THEN {} ELSE {<<Wrappers>>})

MergeKey_NoReason(e, lead, words) ==  \* mutant: merges across reasons
  [decision |-> e.bucket, reason |-> NoReason,
   stem |-> lead \o [i \in 1..(Len(words) - 1) |-> {words[i]}]]

MergeKey(e, lead, words) ==
  [decision |-> e.bucket, reason |-> e.rule.reason,
   stem |-> lead \o [i \in 1..(Len(words) - 1) |-> {words[i]}]]

CodexRules ==
  LET unmerged == UNION {{[key |-> MergeKey(e, lead, words), last |-> Last(words)] :
                            lead \in Leads, words \in Spellings(e.rule)} : e \in Projected}
  IN {[decision |-> u.key.decision, reason |-> u.key.reason,
       pattern |-> Append(u.key.stem, {v.last : v \in {v \in unmerged : v.key = u.key}})] :
        u \in unmerged}

CodexMatches(rule, c) ==
  Len(rule.pattern) <= Len(c) /\ \A i \in DOMAIN rule.pattern : c[i] \in rule.pattern[i]

(***************************************************************************)
(* People edit the fragments; a run loads them.                            *)
(***************************************************************************)
Init ==
  /\ entries = {} /\ declared = {}
  /\ unmatched \in {"ask", "allow"}
  /\ status = "edited"

\* Bound: other rules meet in pairs, within one fragment.
Bounded(es, ds) ==
  \/ \A e \in es : e.rule \in Combined
  \/ /\ Cardinality(es) <= 2
     /\ Cardinality({e.from : e \in es} \cup {d[1] : d \in ds}) = 1

AddRule(e) ==
  /\ e \notin entries /\ Cardinality(entries) < MaxRules
  /\ Bounded(entries \cup {e}, declared)
  /\ entries' = entries \cup {e}
  /\ status' = "edited"
  /\ UNCHANGED <<declared, unmatched>>

DropRule(e) ==
  /\ e \in entries
  /\ entries' = entries \ {e}
  /\ status' = "edited"
  /\ UNCHANGED <<declared, unmatched>>

DeclareVocabulary(d) ==
  /\ d \notin declared
  /\ Bounded(entries, declared \cup {d})
  /\ declared' = declared \cup {d}
  /\ status' = "edited"
  /\ UNCHANGED <<entries, unmatched>>

DropVocabulary(d) ==
  /\ d \in declared
  /\ declared' = declared \ {d}
  /\ status' = "edited"
  /\ UNCHANGED <<entries, unmatched>>

Load_PerFragment ==  \* mutant: fragments are validated before merging
  /\ status = "edited"
  /\ status' = IF \A f \in Fragments : Valid({e \in entries : e.from = f}, {d \in declared : d[1] = f})
                THEN "loaded" ELSE "rejected"
  /\ UNCHANGED <<entries, declared, unmatched>>

Load ==
  /\ status = "edited"
  /\ status' = IF Valid(entries, declared) THEN "loaded" ELSE "rejected"
  /\ UNCHANGED <<entries, declared, unmatched>>

Next ==
  \/ \E e \in Entries : AddRule(e) \/ DropRule(e)
  \/ \E d \in Vocabularies : DeclareVocabulary(d) \/ DropVocabulary(d)
  \/ Load

Spec == Init /\ [][Next]_vars

-----------------------------------------------------------------------------
(* What the policy says: the strictest bucket with a matching rule.        *)
Reached ==
  [rule \in Rules |-> [bucket \in Buckets |-> [known \in BOOLEAN |-> [pinned \in BOOLEAN |->
     {c \in Commands : Matches([bucket |-> bucket, rule |-> rule], c,
                              IF known THEN Options[rule.command] ELSE {},
                              IF known THEN Assignments[rule.command] ELSE {}, pinned)}]]]]

Known(program) == program \in {d[2] : d \in declared}

EntryMatches(e, c) == c \in Reached[e.rule][e.bucket][Known(e.rule.command)][TRUE]

Matching(c) == {e \in entries : EntryMatches(e, c)}

(* Guards that match what a tool sees behind what it sheds itself, whoever  *)
(* declares that.                                                          *)
ReachedBehind ==
  [peeled \in {ClaudePeeled, UnwrapPeeled} |-> [rule \in Rules |->
     [known \in BOOLEAN |-> [pinned \in BOOLEAN |->
        {c \in Commands : \E s \in StripTable[peeled][c] :
           Matches([bucket |-> "deny", rule |-> rule], s,
                   IF known THEN Options[rule.command] ELSE {}, {}, pinned)}]]]]

InForce(tool, e, c, pinned) ==
  \/ c \in Reached[e.rule][e.bucket][Known(e.rule.command)][pinned]
  \/ /\ Peels(tool, e.bucket)
     /\ c \in ReachedBehind[tool.peeled][e.rule][Known(e.rule.command)][pinned]

PolicyDecision(tool, c) ==
  LET buckets == {e.bucket : e \in {e \in entries : InForce(tool, e, c, TRUE)}}
  IN IF "deny" \in buckets THEN "deny"
     ELSE IF "ask" \in buckets THEN "ask"
     ELSE IF "allow" \in buckets THEN "allow"
     ELSE unmatched

Loaded == status = "loaded"

(* A glob for a text rule has no boundary between its head and its text:   *)
(* it also reaches commands that only begin as the head does.              *)
Fused(tool, c) == \E e \in entries : InForce(tool, e, c, FALSE) /\ ~InForce(tool, e, c, TRUE)

Agrees(tool, decision, c) == decision = PolicyDecision(tool, c) \/ Fused(tool, c)

(* Type invariant, with what loading stands for: a policy is loaded        *)
(* exactly if the fragments, merged as they are now, pass validation.      *)
TypeOK ==
  /\ entries \subseteq Entries /\ Cardinality(entries) <= MaxRules
  /\ declared \subseteq Vocabularies
  /\ unmatched \in {"ask", "allow"}
  /\ status \in {"edited", "loaded", "rejected"}
  /\ status # "edited" => (Loaded <=> Valid(entries, declared))

(* _validate_rules rejects a policy over a pair of rules only for a rule   *)
(* that decides nothing: whatever it matches, the other one matches at     *)
(* least as strictly (narrows is sound, also with options and wrappers).   *)
RejectionsAreReal ==
  status = "rejected" =>
    \/ \E e \in entries : IllFormed(e)
    \/ SharedVocabulary(declared) \/ UnusedVocabulary(entries, declared)
    \/ \E e, f \in entries :
         /\ e # f /\ Strictness[e.bucket] <= Strictness[f.bucket]
         /\ \A c \in Commands : EntryMatches(e, c) => EntryMatches(f, c)

(* In a policy that loads, a prefix or exact rule whose options are not    *)
(* declared decides some command that no other such rule decides as        *)
(* strictly: "contradictory containment" does not pass _validate_rules.    *)
LoadedRulesDecide ==
  Loaded =>
    LET plain == {e \in entries : e.rule.tail = {} /\ e.rule.text = {} /\ OptionsOf(e.rule) = {}}
    IN \A e, f \in plain :
         e # f /\ Strictness[e.bucket] <= Strictness[f.bucket] =>
           \E c \in Commands : EntryMatches(e, c) /\ ~EntryMatches(f, c)

(* OpenCode decides every command as the policy does: last match over the  *)
(* list _permissions writes, with covered patterns dropped and deny copies *)
(* left to the plugin.                                                     *)
OpenCodeKeepsPolicy ==
  Loaded => LET list == ShellRules(Emitted(OpenCode))
            IN \A c \in Commands : Agrees(OpenCode, OpenCodeDecision(c, list), c)

(* Claude decides every command as the policy does, with its own matching  *)
(* of final holes and its own peeling of wrappers and assignments.         *)
ClaudeKeepsPolicy ==
  Loaded => LET patterns == Emitted(Claude)
            IN \A c \in Commands : Agrees(Claude, ClaudeDecision(c, patterns), c)

(* The merged Codex rules guard exactly the literal spellings of the asks  *)
(* and denies that project, each with the decision and the justification   *)
(* of a rule that matches the command (_command_rules).                    *)
CodexKeepsGuards ==
  Loaded =>
    \A c \in Commands :
      {<<r.decision, r.reason>> : r \in {r \in CodexRules : CodexMatches(r, c)}} =
      {<<e.bucket, e.rule.reason>> : e \in {e \in Projected :
         \E s \in Spellings(e.rule) :
           IsPrefix(s, c) \/ (c[1] \in Wrappers /\ IsPrefix(s, Tail(c)))}}

SubcommandStands(r, c, n) ==
  IF r.exact THEN r.subcommand = From(c, n + 1) ELSE IsPrefix(r.subcommand, From(c, n + 1))

(* Two heads take the words of a command alike: from one place on, or to   *)
(* one word, where only options are more in the one than in the other.     *)
ReadAlike(r, g, c) ==
  \E n, m \in DOMAIN c :
    /\ SubcommandStands(r, c, n) /\ SubcommandStands(g, c, m)
    /\ \/ n = m
       \/ /\ ~r.exact /\ n + Len(r.subcommand) = m + Len(g.subcommand)
          /\ \A i \in ((n + 1)..m) \cup ((m + 1)..n) : c[i] \in OptionsOf(r)

BehindOption(r, c) == Len(c) > 1 /\ \E o \in OptionsOf(r) : IsPrefix(o, c[2])

(* Cursor runs a command unasked although one of these guards matches it:  *)
(* behind an option, where the allow it runs by and the guard read the     *)
(* command alike (each may take words of the other for arguments).         *)
Slips(guards) ==
  \E r \in Allowlist : \E c \in Commands :
    /\ \E entry \in CursorEntries(r, OptionsOf(r)) : CursorRuns(entry, c)
    /\ \E g \in guards : EntryMatches(g, c) /\ (BehindOption(r, c) => ReadAlike(r, g.rule, c))

Conditional(e) == e.rule.tail # {} \/ e.rule.text # {}

(* What Cursor runs unasked an allow of the policy matches, and no guard   *)
(* does, as far as the guard is an unconditional head and, behind an       *)
(* option, allow and guard read the command alike (Slips: where one takes  *)
(* a word of the other for the option's argument, nothing is withheld):    *)
(* _terminal_allowlist withholds every such allow.                         *)
CursorWithholds ==
  Loaded =>
    /\ ~Slips({e \in Guards : ~Conditional(e)})
    /\ \A c \in Commands : CursorAutoRuns(c) => \E e \in Matching(c) : e.bucket = "allow"

(* docs/targets/cursor.md: every allow an ask or deny prefix-overlaps      *)
(* leaves the allowlist and the guarded command prompts, here for guards   *)
(* with a tail or a text.                                                  *)
CursorWithholdsForTails ==
  Loaded => ~Slips({e \in Guards : Conditional(e)})
=============================================================================
