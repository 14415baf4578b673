---------------------------- MODULE CommandRules ----------------------------
(***************************************************************************)
(* Command permission rules (sources.py): what one rule matches, when one  *)
(* rule narrows another, and which merged rule sets load.                  *)
(*                                                                         *)
(* A word is a non-empty sequence of characters and a command a non-empty  *)
(* sequence of words; typed, its words are separated by one space.  A rule *)
(* pins a program and leading subcommands, and may ask for one of several  *)
(* word sequences after that head (tail), for one of several texts (text), *)
(* or for nothing after it (exact).                                        *)
(*                                                                         *)
(* Left out: the character classes of tokens, brace expansion, and the     *)
(* extra spellings of home paths and of subcommands with a slash.          *)
(***************************************************************************)
EXTENDS Integers, SequencesExt

CONSTANTS
  Wrappers,     \* declared wrapper programs (policy.yaml), as words
  Options,      \* leading options of a program, where declared: [Programs -> SUBSET Words]
  Assignments,  \* literal NAME=value words in front of it, where declared
  NoReason      \* a rule without a reason

Space == " "
Star == "*"

Join(ws) == IF ws = <<>> THEN <<>>
            ELSE Tail(FlattenSeq([i \in DOMAIN ws |-> <<Space>> \o ws[i]]))

From(s, i) == SubSeq(s, i, Len(s))

Occurs(t, s) == \E i \in 1..(Len(s) - Len(t) + 1) : SubSeq(s, i, i + Len(t) - 1) = t

(***************************************************************************)
(* Rules.                                                                  *)
(***************************************************************************)
Strictness == [allow |-> 0, ask |-> 1, deny |-> 2]

HeadOf(r) == <<r.command>> \o r.subcommand

Predicates(r) == <<r.command, r.subcommand, r.tail, r.text, r.exact>>

Within_Subset(inner, outer) == inner \subseteq outer  \* mutant: no alternatives narrow any

Within(inner, outer) == outer = {} \/ (inner # {} /\ inner \subseteq outer)

Narrows(r, other) ==
  /\ r.command = other.command
  /\ IF other.exact THEN r.exact /\ r.subcommand = other.subcommand
                    ELSE IsPrefix(other.subcommand, r.subcommand)
  /\ Within(r.tail, other.tail)
  /\ Within(r.text, other.text)

(***************************************************************************)
(* What a rule matches, told in words.  Position n is that of the last     *)
(* word of the head: directly in place, or behind one declared option and  *)
(* whatever follows it.  Pinned, the head is whole words, as the schema    *)
(* describes it; unpinned, the last of them may begin a longer word.       *)
(***************************************************************************)
HeadEndsAt(r, c, options, n) ==
  LET h == HeadOf(r)
      size == Len(r.subcommand)
      directly == n = Len(h) /\ SubSeq(c, 1, n - 1) = SubSeq(h, 1, n - 1)
      behindOption == /\ size > 0 /\ n >= size + 2
                      /\ c[1] = r.command
                      /\ \E o \in options : IsPrefix(o, c[2])
                      /\ SubSeq(c, n - size + 1, n - 1) = SubSeq(r.subcommand, 1, size - 1)
  IN IsPrefix(Last(h), c[n]) /\ (directly \/ behindOption)

HeadIsWhole(r, c, n) == c[n] = Last(HeadOf(r))

MatchesBare(r, c, options, pinned) ==
  \E n \in DOMAIN c :
    /\ HeadEndsAt(r, c, options, n)
    /\ HeadIsWhole(r, c, n) \/ (~pinned /\ r.text # {})
    /\ IF r.text # {}
       THEN LET rest == From(c[n], Len(Last(HeadOf(r))) + 1) \o
                        (IF n < Len(c) THEN <<Space>> \o Join(From(c, n + 1)) ELSE <<>>)
            IN \E t \in r.text : Occurs(t, rest \o <<Space>>)
       ELSE /\ r.exact => n = Len(c)
            /\ r.tail # {} => \E s \in r.tail : \E i \in (n + 1)..(Len(c) - Len(s) + 1) :
                                SubSeq(c, i, i + Len(s) - 1) = s

(* A rule also decides its command behind a declared assignment; an ask or *)
(* a deny, also anywhere behind a declared wrapper.                        *)
Matches(e, c, options, assignments, pinned) ==
  \/ MatchesBare(e.rule, c, options, pinned)
  \/ c[1] \in assignments /\ Len(c) > 1 /\ MatchesBare(e.rule, Tail(c), options, pinned)
  \/ /\ e.bucket # "allow" /\ c[1] \in Wrappers
     /\ \E i \in 2..Len(c) : MatchesBare(e.rule, From(c, i), options, pinned)

(***************************************************************************)
(* Loading: entries [from, bucket, rule] of all fragments, committed and   *)
(* machine-local, are merged and then validated; declared is the set of    *)
(* <<fragment, program>> pairs that declare the program's vocabulary.      *)
(***************************************************************************)
IllFormed(e) ==
  \/ e.rule.exact /\ (e.rule.tail # {} \/ e.rule.text # {})
  \/ e.rule.tail # {} /\ e.rule.text # {}
  \/ e.rule.reason # NoReason /\ e.bucket # "deny"

Contradict_LooserOnly(e, f) ==  \* mutant: containment in one bucket passes
  \/ Predicates(e.rule) = Predicates(f.rule)
  \/ Narrows(e.rule, f.rule) /\ Strictness[e.bucket] < Strictness[f.bucket]

Contradict(e, f) ==
  \/ Predicates(e.rule) = Predicates(f.rule)
  \/ Narrows(e.rule, f.rule) /\ Strictness[e.bucket] <= Strictness[f.bucket]

SharedVocabulary(declared) == \E d1, d2 \in declared : d1 # d2 /\ d1[2] = d2[2]

UnusedVocabulary(entries, declared) ==
  \E d \in declared : d[2] \notin {e.rule.command : e \in entries}

Valid(entries, declared) ==
  /\ \A e \in entries : ~IllFormed(e)
  /\ \A e, f \in entries : e # f => ~Contradict(e, f)
  /\ ~SharedVocabulary(declared)
  /\ ~UnusedVocabulary(entries, declared)

VocabularyOf(program, declared, of) ==
  IF program \in {d[2] : d \in declared} THEN of[program] ELSE {}
=============================================================================
