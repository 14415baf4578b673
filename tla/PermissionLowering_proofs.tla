---------------------- MODULE PermissionLowering_proofs ----------------------
(***************************************************************************)
(* Narrowing is sound, for every rule and command over any words and       *)
(* options; what loading rejects, for every set of rules, fragments and    *)
(* commands; what rules that load decide; the guards Codex is given; what  *)
(* Cursor may run unasked, with what a glob of joined words matches; what  *)
(* is lost with the patterns another one covers; that Claude and OpenCode  *)
(* decide exactly as the policy does, fused heads aside.                   *)
(***************************************************************************)
EXTENDS PermissionLowering, SequenceTheorems, FiniteSetTheorems, WellFoundedInduction, TLAPS

-----------------------------------------------------------------------------
(* Narrowing.                                                              *)

WordsOver(C) == Seq(C) \ {<<>>}

IsRule(r, W) == /\ r.command \in W /\ r.subcommand \in Seq(W)
                /\ r.tail \subseteq Seq(W) /\ r.exact \in BOOLEAN

\* Two stretches of words are equal if they are equal word by word.
LEMMA SameStretch ==
  ASSUME NEW W, NEW s \in Seq(W), NEW t \in Seq(W), NEW a \in Nat, NEW m \in Nat,
         a + m <= Len(s), m <= Len(t)
  PROVE  SubSeq(s, a + 1, a + m) = SubSeq(t, 1, m) <=> \A i \in 1..m : s[a + i] = t[i]
<1> DEFINE u == SubSeq(s, a + 1, a + m)
           v == SubSeq(t, 1, m)
<1>1. /\ u \in Seq(W) /\ Len(u) = m
      /\ \A i \in 1..m : u[i] = s[a + i]
  <2>1. \A i \in (a + 1)..(a + m) : s[i] \in W
    BY ElementOfSeq
  <2>2. a + 1 \in Int /\ a + m \in Int
    OBVIOUS
  <2>3. /\ u \in Seq(W)
        /\ Len(u) = IF a + 1 <= a + m THEN a + m - (a + 1) + 1 ELSE 0
        /\ \A i \in 1..(a + m - (a + 1) + 1) : u[i] = s[a + 1 + i - 1]
    BY <2>1, <2>2, SubSeqProperties
  <2> QED BY <2>3
<1>2. /\ v \in Seq(W) /\ Len(v) = m
      /\ \A i \in 1..m : v[i] = t[i]
  <2>1. \A i \in 1..m : t[i] \in W
    BY ElementOfSeq
  <2>2. /\ v \in Seq(W)
        /\ Len(v) = IF 1 <= m THEN m - 1 + 1 ELSE 0
        /\ \A i \in 1..(m - 1 + 1) : v[i] = t[1 + i - 1]
    BY <2>1, SubSeqProperties
  <2> QED BY <2>2
<1>3. u = v <=> \A i \in 1..m : u[i] = v[i]
  BY <1>1, <1>2, SeqEqual
<1> QED BY <1>1, <1>2, <1>3

\* The words of a head.
LEMMA HeadWords ==
  ASSUME NEW W, NEW r, IsRule(r, W)
  PROVE  /\ HeadOf(r) \in Seq(W)
         /\ Len(HeadOf(r)) = Len(r.subcommand) + 1
         /\ HeadOf(r)[1] = r.command
         /\ \A i \in 1..Len(r.subcommand) : HeadOf(r)[i + 1] = r.subcommand[i]
         /\ Last(HeadOf(r)) = IF r.subcommand = <<>> THEN r.command
                               ELSE r.subcommand[Len(r.subcommand)]
<1> DEFINE h == HeadOf(r)
           sub == r.subcommand
<1>1. <<r.command>> \in Seq(W) /\ sub \in Seq(W) /\ Len(<<r.command>>) = 1 /\ <<r.command>>[1] = r.command
  BY DEF IsRule
<1>2. /\ h \in Seq(W) /\ Len(h) = 1 + Len(sub)
      /\ \A i \in 1..(1 + Len(sub)) : h[i] = IF i <= 1 THEN <<r.command>>[i] ELSE sub[i - 1]
  BY <1>1, ConcatProperties DEF HeadOf
<1>3. Len(sub) \in Nat
  BY <1>1, LenProperties
<1>4. h[1] = r.command /\ \A i \in 1..Len(sub) : h[i + 1] = sub[i]
  BY <1>1, <1>2, <1>3
<1>5. sub = <<>> <=> Len(sub) = 0
  BY <1>1, EmptySeq
<1>6. Last(h) = IF sub = <<>> THEN r.command ELSE sub[Len(sub)]
  <2>1. Last(h) = h[Len(sub) + 1]
    BY <1>2, <1>3 DEF Last
  <2> QED BY <2>1, <1>3, <1>4, <1>5
<1> QED BY <1>2, <1>3, <1>4, <1>6

\* The subcommands of r stand in c right before and at position n.
SubcommandEndsAt(r, c, n) ==
  \A i \in 1..Len(r.subcommand) : c[n - Len(r.subcommand) + i] = r.subcommand[i]

\* Word by word, the places where a head ends in a whole word.
HeadStandsAt(r, c, options, n) ==
  /\ c[1] = r.command
  /\ SubcommandEndsAt(r, c, n)
  /\ \/ n = Len(r.subcommand) + 1
     \/ /\ Len(r.subcommand) > 0 /\ n >= Len(r.subcommand) + 2
        /\ \E o \in options : IsPrefix(o, c[2])

\* A pinned head ends at a position exactly if it stands there in one of the two
\* ways.
LEMMA HeadPlaces ==
  ASSUME NEW W, NEW r, IsRule(r, W), NEW c \in Seq(W), NEW options, NEW n \in 1..Len(c)
  PROVE  HeadEndsAt(r, c, options, n) /\ HeadIsWhole(r, c, n) <=> HeadStandsAt(r, c, options, n)
<1> DEFINE h == HeadOf(r)
           sub == r.subcommand
           size == Len(sub)
           directly == n = Len(h) /\ SubSeq(c, 1, n - 1) = SubSeq(h, 1, n - 1)
           behindOption == /\ size > 0 /\ n >= size + 2
                           /\ c[1] = r.command
                           /\ \E o \in options : IsPrefix(o, c[2])
                           /\ SubSeq(c, n - size + 1, n - 1) = SubSeq(sub, 1, size - 1)
           whole == c[n] = Last(h)
<1>1. /\ h \in Seq(W) /\ Len(h) = size + 1 /\ h[1] = r.command
      /\ \A i \in 1..size : h[i + 1] = sub[i]
      /\ Last(h) = IF sub = <<>> THEN r.command ELSE sub[size]
  BY HeadWords
<1>2. sub \in Seq(W) /\ size \in Nat /\ Len(c) \in Nat /\ (sub = <<>> <=> size = 0)
  BY LenProperties, EmptySeq DEF IsRule
<1>3. whole => IsPrefix(Last(h), c[n])
  BY DEF IsPrefix
<1>4. HeadEndsAt(r, c, options, n) /\ HeadIsWhole(r, c, n) <=> whole /\ (directly \/ behindOption)
  BY <1>3 DEF HeadEndsAt, HeadIsWhole
<1>5. whole /\ directly <=> n = size + 1 /\ c[1] = r.command /\ SubcommandEndsAt(r, c, n)
  <2> SUFFICES ASSUME n = size + 1
               PROVE  whole /\ directly <=> c[1] = r.command /\ SubcommandEndsAt(r, c, n)
    BY <1>1
  <2>1. SubSeq(c, 0 + 1, 0 + size) = SubSeq(h, 1, size) <=> \A i \in 1..size : c[0 + i] = h[i]
    <3>1. 0 \in Nat /\ 0 + size <= Len(c) /\ size <= Len(h)
      BY <1>1, <1>2
    <3> HIDE DEF h, size
    <3> QED BY <1>1, <1>2, <3>1, SameStretch
  <2>2. directly <=> \A i \in 1..size : c[i] = h[i]
    BY <1>1, <1>2, <2>1
  <2>3. whole <=> c[size + 1] = h[size + 1]
    BY <1>1 DEF Last
  <2>4. whole /\ directly <=> \A i \in 1..(size + 1) : c[i] = h[i]
    BY <1>2, <2>2, <2>3
  <2>5. (\A i \in 1..(size + 1) : c[i] = h[i]) <=> c[1] = h[1] /\ \A i \in 1..size : c[i + 1] = h[i + 1]
    <3>1. ASSUME c[1] = h[1], \A i \in 1..size : c[i + 1] = h[i + 1], NEW i \in 1..(size + 1)
          PROVE  c[i] = h[i]
      <4>1. CASE i = 1
        BY <3>1, <4>1
      <4>2. CASE i # 1
        <5>1. i - 1 \in 1..size /\ (i - 1) + 1 = i
          BY <1>2, <4>2
        <5> QED BY <3>1, <5>1
      <4> QED BY <4>1, <4>2
    <3>2. ASSUME \A i \in 1..(size + 1) : c[i] = h[i]
          PROVE  c[1] = h[1] /\ \A i \in 1..size : c[i + 1] = h[i + 1]
      BY <1>2, <3>2
    <3> QED BY <3>1, <3>2
  <2>6. SubcommandEndsAt(r, c, n) <=> \A i \in 1..size : c[i + 1] = sub[i]
    <3>1. \A i \in 1..size : n - size + i = i + 1
      BY <1>2
    <3> QED BY <3>1 DEF SubcommandEndsAt
  <2> QED BY <1>1, <2>4, <2>5, <2>6
<1>6. whole /\ behindOption <=>
        /\ size > 0 /\ n >= size + 2 /\ c[1] = r.command
        /\ \E o \in options : IsPrefix(o, c[2])
        /\ SubcommandEndsAt(r, c, n)
  <2> SUFFICES ASSUME size > 0, n >= size + 2
               PROVE  whole /\ SubSeq(c, n - size + 1, n - 1) = SubSeq(sub, 1, size - 1)
                        <=> SubcommandEndsAt(r, c, n)
    OBVIOUS
  <2>1. n - size \in Nat /\ size - 1 \in Nat /\ (n - size) + (size - 1) = n - 1
    BY <1>2
  <2>2. SubSeq(c, (n - size) + 1, (n - size) + (size - 1)) = SubSeq(sub, 1, size - 1)
          <=> \A i \in 1..(size - 1) : c[(n - size) + i] = sub[i]
    <3>1. (n - size) + (size - 1) <= Len(c) /\ size - 1 <= Len(sub)
      BY <1>2
    <3>2. \A a, m \in Nat :
            a + m <= Len(c) /\ m <= Len(sub)
              => (SubSeq(c, a + 1, a + m) = SubSeq(sub, 1, m) <=> \A i \in 1..m : c[a + i] = sub[i])
      <4> HIDE DEF size, sub, h
      <4> QED BY <1>2, SameStretch
    <3>3. n - size \in Nat /\ size - 1 \in Nat
      BY <2>1
    <3> HIDE DEF size, sub
    <3> QED BY <3>1, <3>2, <3>3, Zenon
  <2>3. whole <=> c[(n - size) + size] = sub[size]
    BY <1>1, <1>2, <2>1
  <2>4. SubcommandEndsAt(r, c, n) <=>
          (\A i \in 1..(size - 1) : c[(n - size) + i] = sub[i]) /\ c[(n - size) + size] = sub[size]
    <3>1. \A i \in 1..size : i = size \/ i \in 1..(size - 1)
      BY <1>2
    <3>2. size \in 1..size /\ 1..(size - 1) \subseteq 1..size
      BY <1>2
    <3> QED BY <3>1, <3>2 DEF SubcommandEndsAt
  <2> QED BY <2>1, <2>2, <2>3, <2>4
<1> QED BY <1>4, <1>5, <1>6 DEF HeadStandsAt

\* The head of a rule that pins fewer subcommands stands where, or before,
\* that of the narrower one does.
LEMMA HeadWidens ==
  ASSUME NEW W, NEW r, IsRule(r, W), NEW other, IsRule(other, W),
         NEW c \in Seq(W), NEW options, NEW n \in 1..Len(c),
         r.command = other.command, IsPrefix(other.subcommand, r.subcommand),
         HeadStandsAt(r, c, options, n)
  PROVE  \E m \in 1..n : HeadStandsAt(other, c, options, m)
<1> DEFINE fewer == other.subcommand
           more == r.subcommand
<1>1. /\ fewer \in Seq(W) /\ more \in Seq(W) /\ Len(fewer) \in Nat /\ Len(more) \in Nat
      /\ n \in Nat
  BY LenProperties DEF IsRule
<1>2. Len(fewer) <= Len(more) /\ \A i \in 1..Len(fewer) : more[i] = fewer[i]
  <2>1. Len(fewer) <= Len(more) /\ SubSeq(fewer, 1, Len(fewer)) = SubSeq(more, 1, Len(fewer))
    BY DEF IsPrefix
  <2> DEFINE k == Len(fewer)
  <2>2. k \in Nat /\ 0 \in Nat /\ 0 + k <= Len(more) /\ k <= Len(fewer)
    BY <1>1, <2>1
  <2> HIDE DEF k, fewer, more
  <2>3. SubSeq(more, 0 + 1, 0 + k) = SubSeq(fewer, 1, k) <=> \A i \in 1..k : more[0 + i] = fewer[i]
    BY <1>1, <2>2, SameStretch
  <2>4. 0 + k = k /\ \A i \in 1..k : 0 + i = i
    BY <2>2
  <2> QED BY <2>1, <2>3, <2>4 DEF k
<1>3. SubcommandEndsAt(r, c, n) /\ c[1] = other.command
  BY DEF HeadStandsAt
<1>4. CASE n = Len(more) + 1
  <2> DEFINE m == Len(fewer) + 1
  <2>1. m \in 1..n
    BY <1>1, <1>2, <1>4
  <2>2. ASSUME NEW i \in 1..Len(fewer)
        PROVE  c[m - Len(fewer) + i] = fewer[i]
    <3>1. i \in 1..Len(more) /\ m - Len(fewer) + i = n - Len(more) + i
      BY <1>1, <1>2, <1>4
    <3> QED BY <1>2, <1>3, <3>1 DEF SubcommandEndsAt
  <2>3. HeadStandsAt(other, c, options, m)
    BY <1>3, <2>2 DEF HeadStandsAt, SubcommandEndsAt
  <2> QED BY <2>1, <2>3
<1>5. CASE n # Len(more) + 1 /\ Len(fewer) = 0
  <2>1. 1 \in 1..n
    OBVIOUS
  <2>2. HeadStandsAt(other, c, options, 1)
    BY <1>3, <1>5 DEF HeadStandsAt, SubcommandEndsAt
  <2> QED BY <2>1, <2>2
<1>6. CASE n # Len(more) + 1 /\ Len(fewer) # 0
  <2> DEFINE m == n - Len(more) + Len(fewer)
  <2>1. n >= Len(more) + 2 /\ \E o \in options : IsPrefix(o, c[2])
    BY <1>6 DEF HeadStandsAt
  <2>2. m \in 1..n /\ m >= Len(fewer) + 2 /\ Len(fewer) > 0
    <3> DEFINE f == Len(fewer)
               k == Len(more)
    <3>1. f \in Nat /\ k \in Nat /\ n \in Nat /\ f <= k /\ f # 0 /\ n >= k + 2
      BY <1>1, <1>2, <1>6, <2>1
    <3> HIDE DEF f, k
    <3>2. n - k + f \in 1..n /\ n - k + f >= f + 2 /\ f > 0
      BY <3>1
    <3> QED BY <3>2 DEF f, k
  <2>3. ASSUME NEW i \in 1..Len(fewer)
        PROVE  c[m - Len(fewer) + i] = fewer[i]
    <3>1. i \in 1..Len(more) /\ m - Len(fewer) + i = n - Len(more) + i
      <4> DEFINE f == Len(fewer)
                 k == Len(more)
      <4>1. f \in Nat /\ k \in Nat /\ n \in Nat /\ f <= k /\ i \in 1..f
        BY <1>1, <1>2
      <4> HIDE DEF f, k
      <4>2. i \in 1..k /\ (n - k + f) - f + i = n - k + i
        BY <4>1
      <4> QED BY <4>2 DEF f, k
    <3> QED BY <1>2, <1>3, <3>1 DEF SubcommandEndsAt
  <2>4. HeadStandsAt(other, c, options, m)
    BY <1>3, <2>1, <2>2, <2>3 DEF HeadStandsAt, SubcommandEndsAt
  <2> QED BY <2>2, <2>4
<1> QED BY <1>4, <1>5, <1>6

\* One of the alternatives of r's tail follows position n.
TailFollows(r, c, n) ==
  r.tail # {} => \E s \in r.tail : \E i \in (n + 1)..(Len(c) - Len(s) + 1) :
                   SubSeq(c, i, i + Len(s) - 1) = s

\* A narrower tail that follows one position leaves a wider one following every
\* position before.
LEMMA TailWidens ==
  ASSUME NEW W, NEW r, IsRule(r, W), NEW other, NEW c \in Seq(W),
         NEW n \in 1..Len(c), NEW m \in 1..n,
         Within(r.tail, other.tail), TailFollows(r, c, n)
  PROVE  TailFollows(other, c, m)
<1> SUFFICES ASSUME other.tail # {}
             PROVE  \E s \in other.tail : \E i \in (m + 1)..(Len(c) - Len(s) + 1) :
                      SubSeq(c, i, i + Len(s) - 1) = s
  BY DEF TailFollows
<1>1. r.tail # {} /\ r.tail \subseteq other.tail
  BY DEF Within
<1>2. PICK s \in r.tail : \E i \in (n + 1)..(Len(c) - Len(s) + 1) :
        SubSeq(c, i, i + Len(s) - 1) = s
  BY <1>1 DEF TailFollows
<1>3. PICK i \in (n + 1)..(Len(c) - Len(s) + 1) : SubSeq(c, i, i + Len(s) - 1) = s
  BY <1>2
<1>4. Len(c) \in Nat /\ Len(s) \in Nat
  BY LenProperties DEF IsRule
<1>5. i \in (m + 1)..(Len(c) - Len(s) + 1)
  BY <1>4
<1> QED BY <1>1, <1>3, <1>5

\* A rule that narrows another (sources.py, narrows: the relation by which
\* loading finds contradictions and unreachable rules) matches no command the
\* wider rule leaves alone, with whole-word heads and without text predicates,
\* whatever the words, the declared options and the command.
THEOREM NarrowingIsSound ==
  ASSUME NEW W, NEW r, IsRule(r, W), NEW other, IsRule(other, W),
         NEW c \in Seq(W), NEW options,
         Narrows(r, other), r.text = {}, MatchesBare(r, c, options, TRUE)
  PROVE  MatchesBare(other, c, options, TRUE)
<1>1. /\ r.command = other.command
      /\ Within(r.tail, other.tail)
      /\ other.text = {}
  BY DEF Narrows, Within
<1>2. DOMAIN c = 1..Len(c)
  BY LenProperties
<1>3. PICK n \in 1..Len(c) : /\ HeadEndsAt(r, c, options, n) /\ HeadIsWhole(r, c, n)
                             /\ r.exact => n = Len(c)
                             /\ TailFollows(r, c, n)
  BY <1>2 DEF MatchesBare, TailFollows
<1>4. HeadStandsAt(r, c, options, n)
  BY <1>3, HeadPlaces
<1>5. \E m \in 1..n : HeadStandsAt(other, c, options, m) /\ (other.exact => m = Len(c))
  <2>1. CASE other.exact
    <3>1. r.exact /\ r.subcommand = other.subcommand
      BY <2>1 DEF Narrows
    <3>2. HeadStandsAt(other, c, options, n)
      BY <1>1, <1>4, <3>1 DEF HeadStandsAt, SubcommandEndsAt
    <3> QED BY <1>3, <3>1, <3>2
  <2>2. CASE ~other.exact
    <3>1. IsPrefix(other.subcommand, r.subcommand)
      BY <2>2 DEF Narrows
    <3> QED BY <1>1, <1>4, <2>2, <3>1, HeadWidens
  <2> QED BY <2>1, <2>2
<1>6. PICK m \in 1..n : HeadStandsAt(other, c, options, m) /\ (other.exact => m = Len(c))
  BY <1>5
<1>7. m \in 1..Len(c)
  BY LenProperties
<1>8. HeadEndsAt(other, c, options, m) /\ HeadIsWhole(other, c, m)
  BY <1>6, <1>7, HeadPlaces
<1>9. TailFollows(other, c, m)
  BY <1>1, <1>3, TailWidens
<1> QED BY <1>1, <1>2, <1>6, <1>7, <1>8, <1>9 DEF MatchesBare, TailFollows

\* So is every rule of a pair that loading rejects for containment: behind
\* declared assignments and wrappers too, since the wider rule is at least as
\* strict and only an allow is not looked for behind a wrapper.
LEMMA NarrowerIsDecided ==
  ASSUME NEW W, NEW e, IsRule(e.rule, W), NEW f, IsRule(f.rule, W),
         NEW c \in Seq(W), NEW options, NEW assignments,
         Narrows(e.rule, f.rule), e.rule.text = {},
         e.bucket # "allow" => f.bucket # "allow",
         Matches(e, c, options, assignments, TRUE)
  PROVE  Matches(f, c, options, assignments, TRUE)
<1>1. \A d \in Seq(W) : MatchesBare(e.rule, d, options, TRUE) => MatchesBare(f.rule, d, options, TRUE)
  BY NarrowingIsSound
<1>2. CASE MatchesBare(e.rule, c, options, TRUE)
  BY <1>1, <1>2 DEF Matches
<1>3. CASE c[1] \in assignments /\ Len(c) > 1 /\ MatchesBare(e.rule, Tail(c), options, TRUE)
  <2>1. Tail(c) \in Seq(W)
    BY <1>3
  <2> QED BY <1>1, <1>3, <2>1 DEF Matches
<1>4. CASE /\ e.bucket # "allow" /\ c[1] \in Wrappers
           /\ \E i \in 2..Len(c) : MatchesBare(e.rule, From(c, i), options, TRUE)
  <2>1. PICK i \in 2..Len(c) : MatchesBare(e.rule, From(c, i), options, TRUE)
    BY <1>4
  <2>2. From(c, i) \in Seq(W)
    <3>1. i \in Int /\ Len(c) \in Int /\ \A j \in i..Len(c) : c[j] \in W
      BY ElementOfSeq, LenProperties
    <3> QED BY <3>1, SubSeqProperties DEF From
  <2> QED BY <1>1, <1>4, <2>1, <2>2 DEF Matches
<1> QED BY <1>2, <1>3, <1>4 DEF Matches

-----------------------------------------------------------------------------
(* What loading rejects.                                                   *)

\* The bound on the entries is kept because they are finite.
TypesOK == TypeOK /\ IsFiniteSet(entries)

\* What the type invariant needs to be inductive.
LEMMA TypesCorrect == Spec => []TypesOK
<1>1. Init => TypesOK
  BY FS_EmptySet, BoundAssumption DEF Init, TypesOK, TypeOK, Loaded
<1>2. TypesOK /\ [Next]_vars => TypesOK'
  <2> SUFFICES ASSUME TypesOK, [Next]_vars
               PROVE  TypesOK'
    OBVIOUS
  <2> USE DEF TypesOK, TypeOK, Loaded
  <2>1. ASSUME NEW e \in Entries, AddRule(e)
        PROVE  TypesOK'
    <3>1. Cardinality(entries) \in Nat
      BY FS_CardinalityType
    <3>2. IsFiniteSet(entries') /\ Cardinality(entries') = Cardinality(entries) + 1
      BY <2>1, FS_AddElement DEF AddRule
    <3>3. Cardinality(entries') <= MaxRules
      BY <2>1, <3>1, <3>2, BoundAssumption DEF AddRule
    <3> QED BY <2>1, <3>2, <3>3 DEF AddRule
  <2>2. ASSUME NEW e \in Entries, DropRule(e)
        PROVE  TypesOK'
    <3>1. Cardinality(entries) \in Nat
      BY FS_CardinalityType
    <3>2. IsFiniteSet(entries') /\ Cardinality(entries') = Cardinality(entries) - 1
      BY <2>2, FS_RemoveElement DEF DropRule
    <3>3. Cardinality(entries') <= MaxRules
      BY <3>1, <3>2, BoundAssumption
    <3> QED BY <2>2, <3>2, <3>3 DEF DropRule
  <2>3. ASSUME NEW d \in Vocabularies, DeclareVocabulary(d)
        PROVE  TypesOK'
    BY <2>3 DEF DeclareVocabulary
  <2>4. ASSUME NEW d \in Vocabularies, DropVocabulary(d)
        PROVE  TypesOK'
    BY <2>4 DEF DropVocabulary
  <2>5. CASE Load
    BY <2>5 DEF Load
  <2>6. CASE UNCHANGED vars
    BY <2>6 DEF vars
  <2> QED BY <2>1, <2>2, <2>3, <2>4, <2>5, <2>6 DEF Next
<1> QED BY <1>1, <1>2, PTL DEF Spec

\* The type invariant: a policy counts as loaded exactly if the merged
\* fragments, as they are now, pass _validate_rules.
THEOREM TypeCorrect == Spec => []TypeOK
BY TypesCorrect, PTL DEF TypesOK

\* The two ways loading rejects a pair, for rules without texts: one of the
\* pair decides nothing the other does not decide as strictly.
LEMMA PairIsReal ==
  ASSUME NEW W, \A r \in Rules : IsRule(r, W) /\ r.text = {}, Commands \subseteq Seq(W),
         NEW e \in Entries, NEW f \in Entries,
         Strictness[e.bucket] <= Strictness[f.bucket],
         Narrows(e.rule, f.rule) \/ Predicates(e.rule) = Predicates(f.rule)
  PROVE  \A c \in Commands : EntryMatches(e, c) => EntryMatches(f, c)
<1> SUFFICES ASSUME NEW c \in Commands, EntryMatches(e, c)
             PROVE  EntryMatches(f, c)
  OBVIOUS
<1>1. /\ IsRule(e.rule, W) /\ IsRule(f.rule, W) /\ e.rule.text = {} /\ f.rule.text = {}
      /\ e.bucket \in Buckets /\ f.bucket \in Buckets /\ e.rule \in Rules /\ f.rule \in Rules
  BY DEF Entries
<1>2. e.rule.command = f.rule.command
  BY DEF Narrows, Predicates
<1> DEFINE known == Known(e.rule.command)
           options == IF known THEN Options[e.rule.command] ELSE {}
           assignments == IF known THEN Assignments[e.rule.command] ELSE {}
<1>3. known \in BOOLEAN
  BY DEF Known
<1> DEFINE asked(d) == [bucket |-> d.bucket, rule |-> d.rule]
<1>4. EntryMatches(e, c) <=> Matches(asked(e), c, options, assignments, TRUE)
  BY <1>1, <1>3 DEF EntryMatches, Reached
<1>5. EntryMatches(f, c) <=> Matches(asked(f), c, options, assignments, TRUE)
  BY <1>1, <1>2, <1>3 DEF EntryMatches, Reached
<1>6. Narrows(e.rule, f.rule)
  <2>1. IsPrefix(e.rule.subcommand, e.rule.subcommand)
    BY <1>1, LenProperties DEF IsPrefix, IsRule
  <2>2. Within(e.rule.tail, e.rule.tail) /\ Within(e.rule.text, e.rule.text)
    BY DEF Within
  <2> QED BY <1>2, <2>1, <2>2 DEF Narrows, Predicates
<1>7. e.bucket # "allow" => f.bucket # "allow"
  BY <1>1 DEF Strictness, Buckets
<1>8. Matches(asked(f), c, options, assignments, TRUE)
  <2>1. /\ asked(e).rule = e.rule /\ asked(e).bucket = e.bucket
        /\ asked(f).rule = f.rule /\ asked(f).bucket = f.bucket
    OBVIOUS
  <2>2. c \in Seq(W) /\ Matches(asked(e), c, options, assignments, TRUE)
    BY <1>4
  <2> HIDE DEF asked, options, assignments
  <2> QED BY <1>1, <1>6, <1>7, <2>1, <2>2, NarrowerIsDecided
<1> QED BY <1>5, <1>8

\* Loading rejects a policy over a pair of rules only for a rule that decides
\* nothing, for rules without texts over any words, options, assignments,
\* wrappers and commands (sources.py, _validate_rules and narrows).
THEOREM RejectionsAreRealWithoutTexts ==
  ASSUME NEW W, \A r \in Rules : IsRule(r, W) /\ r.text = {}, Commands \subseteq Seq(W)
  PROVE  Spec => []RejectionsAreReal
<1>1. TypeOK => RejectionsAreReal
  <2> SUFFICES ASSUME TypeOK, status = "rejected",
                      \A e \in entries : ~IllFormed(e),
                      ~SharedVocabulary(declared), ~UnusedVocabulary(entries, declared)
               PROVE  \E e, f \in entries :
                        /\ e # f /\ Strictness[e.bucket] <= Strictness[f.bucket]
                        /\ \A c \in Commands : EntryMatches(e, c) => EntryMatches(f, c)
    BY DEF RejectionsAreReal
  <2>1. entries \subseteq Entries /\ ~Valid(entries, declared)
    BY DEF TypeOK, Loaded
  <2>2. PICK e \in entries, f \in entries : e # f /\ Contradict(e, f)
    BY <2>1 DEF Valid
  <2>3. /\ e \in Entries /\ f \in Entries
        /\ Strictness[e.bucket] \in Int /\ Strictness[f.bucket] \in Int
    BY <2>1 DEF Entries, Buckets, Strictness
  <2>4. CASE Strictness[e.bucket] <= Strictness[f.bucket]
    BY <2>2, <2>3, <2>4, PairIsReal DEF Contradict
  <2>5. CASE ~(Strictness[e.bucket] <= Strictness[f.bucket])
    <3>1. Predicates(f.rule) = Predicates(e.rule) /\ Strictness[f.bucket] <= Strictness[e.bucket]
      BY <2>2, <2>3, <2>5 DEF Contradict
    <3> QED BY <2>2, <2>3, <3>1, PairIsReal
  <2> QED BY <2>4, <2>5
<1> QED BY <1>1, TypeCorrect, PTL

-----------------------------------------------------------------------------
(* Codex.                                                                  *)

\* The words of s stand in c behind the first n.
StandsBehind(s, c, n) == n + Len(s) <= Len(c) /\ \A i \in 1..Len(s) : c[n + i] = s[i]

\* A prefix, word by word.
LEMMA PrefixIs ==
  ASSUME NEW W, NEW s \in Seq(W), NEW c \in Seq(W)
  PROVE  IsPrefix(s, c) <=> StandsBehind(s, c, 0)
<1>1. Len(s) \in Nat /\ Len(c) \in Nat
  OBVIOUS
<1>2. CASE ~(Len(s) <= Len(c))
  BY <1>1, <1>2 DEF IsPrefix, StandsBehind
<1>3. CASE Len(s) <= Len(c)
  <2>1. SubSeq(c, 0 + 1, 0 + Len(s)) = SubSeq(s, 1, Len(s)) <=> \A i \in 1..Len(s) : c[0 + i] = s[i]
    <3>1. 0 \in Nat /\ 0 + Len(s) <= Len(c) /\ Len(s) <= Len(s)
      BY <1>1, <1>3
    <3> QED BY <1>1, <3>1, SameStretch
  <2>2. 0 + 1 = 1 /\ 0 + Len(s) = Len(s)
    BY <1>1
  <2>3. SubSeq(c, 1, Len(s)) = SubSeq(s, 1, Len(s)) <=> \A i \in 1..Len(s) : c[0 + i] = s[i]
    BY <2>1, <2>2
  <2> QED BY <1>1, <1>3, <2>2, <2>3 DEF IsPrefix, StandsBehind
<1> QED BY <1>2, <1>3

\* A prefix of what follows the first word, word by word.
LEMMA BehindIs ==
  ASSUME NEW W, NEW s \in Seq(W), NEW c \in WordsOver(W)
  PROVE  IsPrefix(s, Tail(c)) <=> StandsBehind(s, c, 1)
<1>1. Len(s) \in Nat /\ Len(c) \in Nat /\ c # <<>> /\ c \in Seq(W) /\ Len(c) > 0
  BY DEF WordsOver
<1>2. Tail(c) \in Seq(W) /\ Len(Tail(c)) = Len(c) - 1 /\ \A i \in 1..Len(c) - 1 : Tail(c)[i] = c[i + 1]
  BY <1>1
<1>3. IsPrefix(s, Tail(c)) <=> StandsBehind(s, Tail(c), 0)
  BY <1>2, PrefixIs
<1>4. 0 + Len(s) <= Len(Tail(c)) <=> 1 + Len(s) <= Len(c)
  BY <1>1, <1>2
<1>5. ASSUME 1 + Len(s) <= Len(c), NEW i \in 1..Len(s)
      PROVE  Tail(c)[0 + i] = c[1 + i]
  <2>1. i \in 1..Len(c) - 1 /\ 0 + i = i /\ 1 + i = i + 1
    BY <1>1, <1>5
  <2> QED BY <1>2, <2>1
<1> QED BY <1>3, <1>4, <1>5 DEF StandsBehind

\* A spelling is a sequence of at least one word.
LEMMA SpellingIs ==
  ASSUME NEW W, NEW r, IsRule(r, W), NEW s \in Spellings(r)
  PROVE  s \in Seq(W) /\ Len(s) \in Nat \ {0} /\ Last(s) = s[Len(s)]
<1>1. HeadOf(r) \in Seq(W) /\ Len(HeadOf(r)) = Len(r.subcommand) + 1
  BY HeadWords
<1>2. Len(r.subcommand) \in Nat
  BY DEF IsRule
<1>3. s \in Seq(W) /\ Len(s) \in Nat \ {0}
  <2>1. CASE r.tail = {}
    BY <1>1, <1>2, <2>1 DEF Spellings
  <2>2. CASE r.tail # {}
    <3>1. PICK t \in r.tail : s = HeadOf(r) \o t
      BY <2>2 DEF Spellings
    <3> DEFINE h == HeadOf(r)
    <3>2. h \in Seq(W) /\ t \in Seq(W)
      BY <1>1 DEF IsRule
    <3> HIDE DEF h
    <3>3. h \o t \in Seq(W) /\ Len(h \o t) = Len(h) + Len(t) /\ Len(t) \in Nat
      BY <3>2
    <3> QED BY <1>1, <1>2, <3>1, <3>3 DEF h
  <2> QED BY <2>1, <2>2
<1> QED BY <1>3 DEF Last

\* What stands before the last place of a pattern (_command_rules).
Stem(lead, s) == lead \o [i \in 1..(Len(s) - 1) |-> {s[i]}]

\* c is s behind lead, with one of A for the last word of s.
Fits(c, lead, s, A) ==
  /\ Len(lead) + Len(s) <= Len(c) /\ (Len(lead) = 1 => c[1] \in Wrappers)
  /\ \A i \in 1..Len(s) - 1 : c[Len(lead) + i] = s[i]
  /\ c[Len(lead) + Len(s)] \in A

PatternFits(pattern, c, lead, s, A) ==
  /\ Len(lead) \in {0, 1} /\ (lead = <<>> <=> Len(lead) = 0)
  /\ Len(pattern) = Len(lead) + Len(s)
  /\ Len(pattern) <= Len(c) /\ (\A i \in DOMAIN pattern : c[i] \in pattern[i]) <=> Fits(c, lead, s, A)

\* A position behind the lead and before the last one (arithmetic the provers want
\* apart).
LEMMA Beyond ==
  ASSUME NEW n \in Nat, NEW l \in Nat, NEW j \in 1..n + l, ~(j <= n), j # n + l
  PROVE  j - n \in 1..l - 1 /\ n + (j - n) = j /\ j \in 1..n + l - 1
OBVIOUS

\* Word for word, what the pattern of a spelling, alone or behind a wrapper,
\* matches; in its last place stand the merged alternatives.
LEMMA PatternMatches ==
  ASSUME NEW W, NEW s \in Seq(W), Len(s) \in Nat \ {0}, NEW c \in Seq(W),
         NEW lead \in Leads, NEW A, NEW pattern, pattern = Append(Stem(lead, s), A)
  PROVE  PatternFits(pattern, c, lead, s, A)
<1> DEFINE n == Len(lead)
           V == (SUBSET W) \cup {Wrappers, A}
           body == [i \in 1..(Len(s) - 1) |-> {s[i]}]
           stem == lead \o body
<1>1. pattern = Append(stem, A)
  BY DEF Stem
<1>2. /\ Len(s) \in Nat /\ Len(s) >= 1 /\ Len(c) \in Nat
      /\ \A i \in 1..Len(s) - 1 : s[i] \in W
  OBVIOUS
<1>3. body \in Seq(V) /\ Len(body) = Len(s) - 1 /\ \A i \in 1..Len(s) - 1 : body[i] = {s[i]}
  BY <1>2
<1>4. lead \in Seq(V) /\ n \in {0, 1} /\ (lead = <<>> <=> n = 0) /\ (n = 1 => lead[1] = Wrappers)
  <2>1. CASE lead = <<>>
    BY <2>1
  <2>2. CASE lead = <<Wrappers>>
    <3>1. Wrappers \in V
      OBVIOUS
    <3> HIDE DEF V
    <3> QED BY <2>2, <3>1
  <2> QED BY <2>1, <2>2 DEF Leads
<1>5. A \in V
  OBVIOUS
<1> HIDE DEF V, body, n
<1>6. /\ stem \in Seq(V) /\ Len(stem) = n + Len(s) - 1
      /\ \A i \in 1..n + Len(s) - 1 : stem[i] = IF i <= n THEN lead[i] ELSE body[i - n]
  <2>1. lead \o body \in Seq(V) /\ Len(lead \o body) = n + Len(body)
    BY <1>3, <1>4, ConcatProperties DEF n
  <2>2. ASSUME NEW i \in 1..n + Len(body) PROVE (lead \o body)[i] = IF i <= n THEN lead[i] ELSE body[i - n]
    BY <1>3, <1>4, ConcatProperties DEF n
  <2>3. n + Len(body) = n + Len(s) - 1
    BY <1>2, <1>3, <1>4
  <2> QED BY <2>1, <2>2, <2>3
<1> HIDE DEF stem
<1>7. /\ Len(pattern) = n + Len(s) /\ DOMAIN pattern = 1..n + Len(s)
      /\ \A i \in 1..n + Len(s) - 1 : pattern[i] = stem[i]
      /\ pattern[n + Len(s)] = A
  <2>1. /\ pattern \in Seq(V) /\ Len(pattern) = Len(stem) + 1
        /\ \A i \in 1..Len(stem) : pattern[i] = stem[i]
        /\ pattern[Len(stem) + 1] = A
    BY <1>1, <1>5, <1>6
  <2>2. Len(stem) + 1 = n + Len(s)
    BY <1>2, <1>4, <1>6
  <2> QED BY <1>6, <2>1, <2>2
<1>8. (\A i \in DOMAIN pattern : c[i] \in pattern[i])
        <=> /\ n = 1 => c[1] \in Wrappers
            /\ \A i \in 1..Len(s) - 1 : c[n + i] = s[i]
            /\ c[n + Len(s)] \in A
  <2>1. ASSUME \A i \in DOMAIN pattern : c[i] \in pattern[i]
        PROVE  /\ n = 1 => c[1] \in Wrappers
               /\ \A i \in 1..Len(s) - 1 : c[n + i] = s[i]
               /\ c[n + Len(s)] \in A
    <3>1. ASSUME n = 1 PROVE c[1] \in Wrappers
      <4>1. 1 \in 1..1 + Len(s) /\ 1 \in 1..1 + Len(s) - 1
        BY <1>2
      <4>2. pattern[1] = Wrappers
        BY <1>4, <1>6, <1>7, <3>1, <4>1
      <4> QED BY <1>7, <2>1, <3>1, <4>1, <4>2
    <3>2. ASSUME NEW i \in 1..Len(s) - 1 PROVE c[n + i] = s[i]
      <4>1. n + i \in 1..n + Len(s) /\ n + i \in 1..n + Len(s) - 1 /\ ~(n + i <= n) /\ (n + i) - n = i
        BY <1>2, <1>4
      <4>2. pattern[n + i] = {s[i]}
        BY <1>3, <1>6, <1>7, <4>1
      <4> QED BY <1>7, <2>1, <4>1, <4>2
    <3>3. n + Len(s) \in 1..n + Len(s)
      BY <1>2, <1>4
    <3> QED BY <1>7, <2>1, <3>1, <3>2, <3>3
  <2>2. ASSUME /\ n = 1 => c[1] \in Wrappers
               /\ \A i \in 1..Len(s) - 1 : c[n + i] = s[i]
               /\ c[n + Len(s)] \in A,
               NEW j \in DOMAIN pattern
        PROVE  c[j] \in pattern[j]
    <3>1. j \in 1..n + Len(s)
      BY <1>7
    <3>2. CASE j = n + Len(s)
      BY <1>7, <2>2, <3>2
    <3>3. CASE j <= n /\ j # n + Len(s)
      <4>1. n = 1 /\ j = 1 /\ j \in 1..n + Len(s) - 1
        BY <1>2, <1>4, <3>1, <3>3
      <4> QED BY <1>4, <1>6, <1>7, <2>2, <3>3, <4>1
    <3>4. CASE ~(j <= n) /\ j # n + Len(s)
      <4> DEFINE i == j - n
      <4>1. n \in Nat /\ Len(s) \in Nat
        BY <1>2, <1>4
      <4>2. i \in 1..Len(s) - 1 /\ n + i = j /\ j \in 1..n + Len(s) - 1
        BY <3>1, <3>4, <4>1, Beyond
      <4>3. pattern[j] = {s[i]}
        BY <1>3, <1>6, <1>7, <3>4, <4>2
      <4> HIDE DEF i
      <4> QED BY <2>2, <4>2, <4>3
    <3> QED BY <3>2, <3>3, <3>4
  <2> QED BY <2>1, <2>2
<1> QED BY <1>4, <1>7, <1>8 DEF n, Fits, PatternFits

\* What Codex is told before spellings that differ in their last word are merged.
Unmerged == UNION {{[key |-> MergeKey(e, lead, words), last |-> Last(words)] :
                      lead \in Leads, words \in Spellings(e.rule)} : e \in Projected}

Alternatives(key) == {v.last : v \in {v \in Unmerged : v.key = key}}

\* What stands among the rules before they are merged.
LEMMA UnmergedIs ==
  ASSUME NEW u
  PROVE  u \in Unmerged <=>
           \E e \in Projected : \E lead \in Leads : \E words \in Spellings(e.rule) :
             u = [key |-> MergeKey(e, lead, words), last |-> Last(words)]
<1> DEFINE Said(e) == {[key |-> MergeKey(e, lead, words), last |-> Last(words)] :
                         lead \in Leads, words \in Spellings(e.rule)}
<1>1. \A e : u \in Said(e) <=> \E lead \in Leads : \E words \in Spellings(e.rule) :
                                 u = [key |-> MergeKey(e, lead, words), last |-> Last(words)]
  OBVIOUS
<1>2. Unmerged = UNION {Said(e) : e \in Projected}
  BY DEF Unmerged
<1> HIDE DEF Said
<1>3. u \in Unmerged <=> \E e \in Projected : u \in Said(e)
  BY <1>2
<1> QED BY <1>1, <1>3

\* A merged rule is one key with all its alternatives.
LEMMA CodexRulesAre ==
  ASSUME NEW r
  PROVE  r \in CodexRules <=>
           \E u \in Unmerged : r = [decision |-> u.key.decision, reason |-> u.key.reason,
                                    pattern |-> Append(u.key.stem, Alternatives(u.key))]
BY DEF CodexRules, Unmerged, Alternatives

\* The guard e matches c as one of its literal spellings, plainly or behind a wrapper.
GuardSpelled(e, c) ==
  \E s \in Spellings(e.rule) : IsPrefix(s, c) \/ (c[1] \in Wrappers /\ IsPrefix(s, Tail(c)))

\* The guards are kept in every policy whose rules are written in words.
LEMMA GuardsAreSpelled ==
  ASSUME NEW W, \A e \in entries : IsRule(e.rule, W), NEW c \in WordsOver(W)
  PROVE  {<<r.decision, r.reason>> : r \in {r \in CodexRules : CodexMatches(r, c)}} =
         {<<e.bucket, e.rule.reason>> : e \in {e \in Projected : GuardSpelled(e, c)}}
<1>1. c \in Seq(W) /\ Len(c) \in Nat
  BY DEF WordsOver
<1>2. ASSUME NEW e \in Projected, NEW s \in Spellings(e.rule)
      PROVE  s \in Seq(W) /\ Len(s) \in Nat \ {0} /\ Last(s) = s[Len(s)]
  <2>1. IsRule(e.rule, W)
    BY DEF Projected, Guards
  <2> QED BY <2>1, SpellingIs
<1>3. ASSUME NEW e \in Projected, NEW s \in Spellings(e.rule), NEW lead \in Leads, NEW A,
             NEW p, p = Append(Stem(lead, s), A)
      PROVE  PatternFits(p, c, lead, s, A)
  BY <1>1, <1>2, <1>3, PatternMatches
<1>4. ASSUME NEW e, NEW lead, NEW s
      PROVE  /\ MergeKey(e, lead, s).decision = e.bucket
             /\ MergeKey(e, lead, s).reason = e.rule.reason
             /\ MergeKey(e, lead, s).stem = Stem(lead, s)
  BY DEF MergeKey, Stem
<1>5. ASSUME NEW r \in CodexRules, CodexMatches(r, c)
      PROVE  \E e \in Projected : GuardSpelled(e, c) /\ <<r.decision, r.reason>> = <<e.bucket, e.rule.reason>>
  <2>1. PICK u \in Unmerged : r = [decision |-> u.key.decision, reason |-> u.key.reason,
                                   pattern |-> Append(u.key.stem, Alternatives(u.key))]
    BY CodexRulesAre
  <2> DEFINE A == Alternatives(u.key)
  <2>2. PICK e0 \in Projected : \E lead0 \in Leads : \E s0 \in Spellings(e0.rule) :
          u = [key |-> MergeKey(e0, lead0, s0), last |-> Last(s0)]
    BY UnmergedIs
  <2>3. PICK lead0 \in Leads : \E s0 \in Spellings(e0.rule) :
           u = [key |-> MergeKey(e0, lead0, s0), last |-> Last(s0)]
    BY <2>2
  <2>4. PICK s0 \in Spellings(e0.rule) : u = [key |-> MergeKey(e0, lead0, s0), last |-> Last(s0)]
    BY <2>3
  <2>5. r.pattern = Append(Stem(lead0, s0), A)
    BY <1>4, <2>1, <2>4
  <2>6. Fits(c, lead0, s0, A) /\ Len(r.pattern) = Len(lead0) + Len(s0)
    <3> HIDE DEF A
    <3>1. Len(r.pattern) <= Len(c) /\ \A i \in DOMAIN r.pattern : c[i] \in r.pattern[i]
      BY <1>5 DEF CodexMatches
    <3>2. PatternFits(r.pattern, c, lead0, s0, A)
      BY <1>3, <2>5
    <3> QED BY <3>1, <3>2 DEF PatternFits
  <2>7. PICK v \in Unmerged : v.key = u.key /\ v.last = c[Len(lead0) + Len(s0)]
    BY <2>6 DEF Alternatives, Fits
  <2>8. PICK e \in Projected : \E lead \in Leads : \E s \in Spellings(e.rule) :
           v = [key |-> MergeKey(e, lead, s), last |-> Last(s)]
    BY UnmergedIs
  <2>9. PICK lead \in Leads : \E s \in Spellings(e.rule) :
           v = [key |-> MergeKey(e, lead, s), last |-> Last(s)]
    BY <2>8
  <2>10. PICK s \in Spellings(e.rule) : v = [key |-> MergeKey(e, lead, s), last |-> Last(s)]
    BY <2>9
  <2>11. r.pattern = Append(Stem(lead, s), A) /\ r.decision = e.bucket /\ r.reason = e.rule.reason
    BY <1>4, <2>1, <2>7, <2>10
  <2>12. Fits(c, lead, s, A) /\ Len(r.pattern) = Len(lead) + Len(s)
        /\ Len(lead) \in {0, 1} /\ (lead = <<>> <=> Len(lead) = 0)
    <3> HIDE DEF A
    <3>1. Len(r.pattern) <= Len(c) /\ \A i \in DOMAIN r.pattern : c[i] \in r.pattern[i]
      BY <1>5 DEF CodexMatches
    <3>2. PatternFits(r.pattern, c, lead, s, A)
      BY <1>3, <2>11
    <3> QED BY <3>1, <3>2 DEF PatternFits
  <2>13. c[Len(lead) + Len(s)] = s[Len(s)] /\ s \in Seq(W) /\ Len(s) \in Nat \ {0}
    BY <1>2, <2>6, <2>7, <2>10, <2>12
  <2>14. StandsBehind(s, c, Len(lead))
    <3>1. ASSUME NEW i \in 1..Len(s) PROVE c[Len(lead) + i] = s[i]
      <4>1. i = Len(s) \/ i \in 1..Len(s) - 1
        BY <2>13
      <4> QED BY <2>12, <2>13, <4>1 DEF Fits
    <3> QED BY <2>12, <3>1 DEF Fits, StandsBehind
  <2>15. IsPrefix(s, c) \/ (c[1] \in Wrappers /\ IsPrefix(s, Tail(c)))
    <3>1. CASE Len(lead) = 0
      BY <1>1, <2>13, <2>14, <3>1, PrefixIs
    <3>2. CASE Len(lead) = 1
      BY <2>12, <2>13, <2>14, <3>2, BehindIs DEF Fits
    <3> QED BY <2>12, <3>1, <3>2
  <2> QED BY <2>10, <2>11, <2>15 DEF GuardSpelled
<1>6. ASSUME NEW e \in Projected, GuardSpelled(e, c)
      PROVE  \E r \in CodexRules : CodexMatches(r, c) /\ <<r.decision, r.reason>> = <<e.bucket, e.rule.reason>>
  <2>1. PICK s \in Spellings(e.rule) : IsPrefix(s, c) \/ (c[1] \in Wrappers /\ IsPrefix(s, Tail(c)))
    BY <1>6 DEF GuardSpelled
  <2>2. s \in Seq(W) /\ Len(s) \in Nat \ {0} /\ Last(s) = s[Len(s)]
    BY <1>2
  <2>3. \E lead \in Leads : StandsBehind(s, c, Len(lead)) /\ (Len(lead) = 1 => c[1] \in Wrappers)
    <3>1. CASE IsPrefix(s, c)
      <4>1. StandsBehind(s, c, 0)
        BY <1>1, <2>2, <3>1, PrefixIs
      <4> DEFINE lead == <<>>
      <4>2. lead \in Leads /\ Len(lead) = 0
        BY DEF Leads
      <4> HIDE DEF lead
      <4> QED BY <4>1, <4>2
    <3>2. CASE c[1] \in Wrappers /\ IsPrefix(s, Tail(c))
      <4>1. StandsBehind(s, c, 1)
        BY <2>2, <3>2, BehindIs
      <4> DEFINE lead == <<Wrappers>>
      <4>2. lead \in Leads /\ Len(lead) = 1
        BY <3>2 DEF Leads
      <4> HIDE DEF lead
      <4> QED BY <3>2, <4>1, <4>2
    <3> QED BY <2>1, <3>1, <3>2
  <2>4. PICK lead \in Leads : StandsBehind(s, c, Len(lead)) /\ (Len(lead) = 1 => c[1] \in Wrappers)
    BY <2>3
  <2> DEFINE key == MergeKey(e, lead, s)
             u == [key |-> key, last |-> Last(s)]
             A == Alternatives(key)
             r == [decision |-> key.decision, reason |-> key.reason, pattern |-> Append(key.stem, A)]
  <2>5. u \in Unmerged
    BY UnmergedIs
  <2>6. u.key = key /\ Last(s) \in A
    BY <2>5 DEF Alternatives
  <2>7. r \in CodexRules
    <3> HIDE DEF key
    <3> QED BY <2>5, <2>6, CodexRulesAre
  <2>8. r.pattern = Append(Stem(lead, s), A) /\ r.decision = e.bucket /\ r.reason = e.rule.reason
    BY <1>4
  <2>9. Fits(c, lead, s, A)
    <3> HIDE DEF A
    <3>1. Len(s) \in 1..Len(s) /\ \A i \in 1..Len(s) - 1 : i \in 1..Len(s)
      BY <2>2
    <3> QED BY <2>2, <2>4, <2>6, <3>1 DEF Fits, StandsBehind
  <2> HIDE DEF r, A
  <2>10. CodexMatches(r, c)
    <3>1. PatternFits(r.pattern, c, lead, s, A)
      BY <1>3, <2>8
    <3> QED BY <2>9, <3>1 DEF CodexMatches, PatternFits
  <2> QED BY <2>7, <2>8, <2>10
<1> QED BY <1>5, <1>6

\* The rules merged for Codex guard the literal spellings of the asks and
\* denies that project, no more and no less, each with the decision and the
\* justification of a rule that matches, over any words, rules and wrappers
\* (targets/codex.py, _command_rules).
THEOREM CodexGuardsAreKept ==
  ASSUME NEW W, \A r \in Rules : IsRule(r, W), Commands \subseteq WordsOver(W)
  PROVE  Spec => []CodexKeepsGuards
<1>1. TypeOK => CodexKeepsGuards
  <2> SUFFICES ASSUME TypeOK, NEW c \in Commands
               PROVE  {<<r.decision, r.reason>> : r \in {r \in CodexRules : CodexMatches(r, c)}} =
                      {<<e.bucket, e.rule.reason>> : e \in {e \in Projected : GuardSpelled(e, c)}}
    BY DEF CodexKeepsGuards, GuardSpelled
  <2>1. \A e \in entries : IsRule(e.rule, W)
    BY DEF TypeOK, Entries
  <2> QED BY <2>1, GuardsAreSpelled
<1> QED BY <1>1, TypeCorrect, PTL

-----------------------------------------------------------------------------
(* Rules that load decide something.                                       *)

IsPlain(r) == r.tail = {} /\ r.text = {}

\* c begins with the head of r, and ends with it if the rule is exact.
HeadBegins(r, c) ==
  /\ Len(r.subcommand) + 1 <= Len(c) /\ c[1] = r.command
  /\ \A i \in 1..Len(r.subcommand) : c[i + 1] = r.subcommand[i]
  /\ r.exact => Len(c) = Len(r.subcommand) + 1

\* A rule without tail, text and options matches what begins with its head.
LEMMA PlainMatches ==
  ASSUME NEW W, NEW r, IsRule(r, W), IsPlain(r), NEW c \in Seq(W)
  PROVE  MatchesBare(r, c, {}, TRUE) <=> HeadBegins(r, c)
<1> DEFINE size == Len(r.subcommand)
<1>1. size \in Nat /\ Len(c) \in Nat /\ DOMAIN c = 1..Len(c)
  BY LenProperties DEF IsRule
<1>2. ASSUME NEW n \in 1..Len(c)
      PROVE  HeadStandsAt(r, c, {}, n) <=> c[1] = r.command /\ n = size + 1 /\ \A i \in 1..size : c[i + 1] = r.subcommand[i]
  <2>1. n = size + 1 => \A i \in 1..size : n - size + i = i + 1
    BY <1>1
  <2>2. HeadStandsAt(r, c, {}, n) <=> c[1] = r.command /\ SubcommandEndsAt(r, c, n) /\ n = size + 1
    BY DEF HeadStandsAt
  <2>3. n = size + 1 => (SubcommandEndsAt(r, c, n) <=> \A i \in 1..size : c[i + 1] = r.subcommand[i])
    BY <2>1 DEF SubcommandEndsAt
  <2> QED BY <2>2, <2>3
<1>3. MatchesBare(r, c, {}, TRUE) <=> \E n \in 1..Len(c) : HeadStandsAt(r, c, {}, n) /\ (r.exact => n = Len(c))
  <2>1. MatchesBare(r, c, {}, TRUE) <=>
          \E n \in 1..Len(c) : HeadEndsAt(r, c, {}, n) /\ HeadIsWhole(r, c, n) /\ (r.exact => n = Len(c))
    BY <1>1 DEF MatchesBare, IsPlain
  <2>2. \A n \in 1..Len(c) : HeadEndsAt(r, c, {}, n) /\ HeadIsWhole(r, c, n) <=> HeadStandsAt(r, c, {}, n)
    BY HeadPlaces
  <2> QED BY <2>1, <2>2
<1>4. size + 1 <= Len(c) <=> size + 1 \in 1..Len(c)
  BY <1>1
<1> QED BY <1>2, <1>3, <1>4 DEF HeadBegins

\* The head of a rule, and one longer command.
LEMMA HeadBeginsItself ==
  ASSUME NEW W, NEW r, IsRule(r, W), NEW w \in W
  PROVE  /\ HeadOf(r) \in Seq(W) /\ HeadBegins(r, HeadOf(r)) /\ HeadOf(r)[1] = r.command
         /\ Len(HeadOf(r)) = Len(r.subcommand) + 1
         /\ Append(HeadOf(r), w) \in Seq(W) /\ (~r.exact => HeadBegins(r, Append(HeadOf(r), w)))
         /\ Append(HeadOf(r), w)[1] = r.command
         /\ Len(Append(HeadOf(r), w)) = Len(r.subcommand) + 2
<1> DEFINE h == HeadOf(r)
           size == Len(r.subcommand)
<1>1. /\ h \in Seq(W) /\ Len(h) = size + 1 /\ h[1] = r.command
      /\ \A i \in 1..size : h[i + 1] = r.subcommand[i]
  BY HeadWords
<1>2. size \in Nat
  BY LenProperties DEF IsRule
<1>3. HeadBegins(r, h)
  BY <1>1, <1>2 DEF HeadBegins
<1>4. Append(h, w) \in Seq(W) /\ Len(Append(h, w)) = size + 2 /\ \A i \in 1..(size + 1) : Append(h, w)[i] = h[i]
  <2> HIDE DEF h
  <2>1. Append(h, w) \in Seq(W) /\ Len(Append(h, w)) = Len(h) + 1 /\ \A i \in 1..Len(h) : Append(h, w)[i] = h[i]
    BY <1>1, AppendProperties
  <2> QED BY <1>1, <1>2, <2>1
<1>5. Append(h, w)[1] = r.command /\ \A i \in 1..size : Append(h, w)[i + 1] = r.subcommand[i]
  BY <1>1, <1>2, <1>4
<1>6. ~r.exact => HeadBegins(r, Append(h, w))
  BY <1>2, <1>4, <1>5 DEF HeadBegins
<1> QED BY <1>1, <1>3, <1>4, <1>5, <1>6

\* Where the head of a rule begins with that of another, narrowing fails only
\* because the other one is exact.
LEMMA HeadNarrows ==
  ASSUME NEW W, NEW r, IsRule(r, W), IsPlain(r), NEW other, IsRule(other, W), IsPlain(other),
         HeadBegins(other, HeadOf(r)), ~Narrows(r, other)
  PROVE  other.exact /\ ~r.exact /\ Len(other.subcommand) = Len(r.subcommand)
<1>1. /\ Len(HeadOf(r)) = Len(r.subcommand) + 1 /\ HeadOf(r)[1] = r.command
      /\ \A i \in 1..Len(r.subcommand) : HeadOf(r)[i + 1] = r.subcommand[i]
  BY HeadWords
<1>2. r.subcommand \in Seq(W) /\ other.subcommand \in Seq(W)
      /\ Len(r.subcommand) \in Nat /\ Len(other.subcommand) \in Nat
  BY LenProperties DEF IsRule
<1>3. r.command = other.command /\ Len(other.subcommand) <= Len(r.subcommand)
      /\ \A i \in 1..Len(other.subcommand) : r.subcommand[i] = other.subcommand[i]
  BY <1>1, <1>2 DEF HeadBegins
<1>4. other.exact => Len(other.subcommand) = Len(r.subcommand)
  BY <1>1, <1>2 DEF HeadBegins
<1>5. StandsBehind(other.subcommand, r.subcommand, 0)
  BY <1>2, <1>3 DEF StandsBehind
<1>6. IsPrefix(other.subcommand, r.subcommand)
  BY <1>2, <1>5, PrefixIs
<1>7. other.exact => r.subcommand = other.subcommand
  BY <1>2, <1>3, <1>4, SeqEqual
<1>8. Within(r.tail, other.tail) /\ Within(r.text, other.text)
  BY DEF Within, IsPlain
<1> QED BY <1>3, <1>4, <1>6, <1>7, <1>8 DEF Narrows

\* In a policy that loads, every prefix or exact rule without options decides
\* some command that no other such rule decides as strictly, for rules over
\* any words: its head, or one command more. The commands asked about include
\* these, and no rule is about a wrapper or an assignment itself
\* (sources.py, _validate_rules).
THEOREM LoadedRulesDecideTheirHeads ==
  ASSUME NEW W, \A r \in Rules : IsRule(r, W), Commands \subseteq Seq(W),
         \A r \in Rules : HeadOf(r) \in Commands,
         \A r \in Rules : ~r.exact => \E w \in W : Append(HeadOf(r), w) \in Commands,
         \A r \in Rules : r.command \notin Wrappers,
         \A r, s \in Rules : s.command \in Programs => r.command \notin Assignments[s.command]
  PROVE  Spec => []LoadedRulesDecide
<1>1. TypeOK => LoadedRulesDecide
  <2> SUFFICES ASSUME TypeOK, Loaded, NEW e \in entries, NEW f \in entries,
                      IsPlain(e.rule), OptionsOf(e.rule) = {}, IsPlain(f.rule), OptionsOf(f.rule) = {},
                      e # f, Strictness[e.bucket] <= Strictness[f.bucket]
               PROVE  \E c \in Commands : EntryMatches(e, c) /\ ~EntryMatches(f, c)
    BY DEF LoadedRulesDecide, IsPlain
  <2>1. /\ e.rule \in Rules /\ f.rule \in Rules /\ e.bucket \in Buckets /\ f.bucket \in Buckets
        /\ IsRule(e.rule, W) /\ IsRule(f.rule, W)
    BY DEF TypeOK, Entries
  <2>2. ~Narrows(e.rule, f.rule)
    BY DEF TypeOK, Valid, Contradict, Loaded
  <2>3. ASSUME NEW d \in {e, f}, NEW c \in Commands
        PROVE  /\ HeadBegins(d.rule, c) => EntryMatches(d, c)
               /\ c[1] = e.rule.command => (EntryMatches(d, c) <=> HeadBegins(d.rule, c))
    <3> DEFINE known == Known(d.rule.command)
               assignments == IF known THEN Assignments[d.rule.command] ELSE {}
               asked == [bucket |-> d.bucket, rule |-> d.rule]
    <3>1. known \in BOOLEAN /\ d.rule \in Rules /\ d.bucket \in Buckets /\ IsRule(d.rule, W) /\ IsPlain(d.rule)
      BY <2>1 DEF Known
    <3>2. (IF known THEN Options[d.rule.command] ELSE {}) = {}
      BY DEF OptionsOf, VocabularyOf, Known
    <3>3. EntryMatches(d, c) <=> Matches(asked, c, {}, assignments, TRUE)
      BY <3>1, <3>2 DEF EntryMatches, Reached
    <3>4. c \in Seq(W) /\ (MatchesBare(d.rule, c, {}, TRUE) <=> HeadBegins(d.rule, c))
      BY <3>1, PlainMatches
    <3>5. asked.rule = d.rule /\ asked.bucket = d.bucket
      OBVIOUS
    <3>6. c[1] = e.rule.command => c[1] \notin Wrappers /\ c[1] \notin assignments
      <4>1. known => d.rule.command \in Programs
        BY DEF TypeOK, Known, Vocabularies
      <4> QED BY <2>1, <3>1, <4>1
    <3> HIDE DEF asked, assignments
    <3> QED BY <3>3, <3>4, <3>5, <3>6 DEF Matches
  <2> DEFINE h == HeadOf(e.rule)
  <2>4. e.rule.command \in W
    BY <2>1 DEF IsRule
  <2>5. h \in Commands /\ EntryMatches(e, h) /\ (EntryMatches(f, h) <=> HeadBegins(f.rule, h))
    BY <2>1, <2>3, <2>4, HeadBeginsItself
  <2>6. CASE HeadBegins(f.rule, h)
    <3>1. f.rule.exact /\ ~e.rule.exact /\ Len(f.rule.subcommand) = Len(e.rule.subcommand)
      BY <2>1, <2>2, <2>6, HeadNarrows
    <3>2. PICK w \in W : Append(h, w) \in Commands
      BY <2>1, <3>1
    <3>3. /\ HeadBegins(e.rule, Append(h, w)) /\ Append(h, w)[1] = e.rule.command
          /\ Len(Append(h, w)) = Len(e.rule.subcommand) + 2
      BY <2>1, <3>1, HeadBeginsItself
    <3>4. ~HeadBegins(f.rule, Append(h, w))
      <4>1. Len(e.rule.subcommand) \in Nat
        BY <2>1, LenProperties DEF IsRule
      <4> QED BY <3>1, <3>3, <4>1 DEF HeadBegins
    <3>5. EntryMatches(e, Append(h, w)) /\ ~EntryMatches(f, Append(h, w))
      BY <2>3, <3>2, <3>3, <3>4
    <3> QED BY <3>2, <3>5
  <2> QED BY <2>5, <2>6
<1> QED BY <1>1, TypeCorrect, PTL

-----------------------------------------------------------------------------
(* Globs, character by character.                                          *)

\* The order of the naturals is well-founded, as the induction below uses it.
LEMMA LessThanIsWellFounded == IsWellFoundedOn({ss \in Nat \X Nat : ss[1] < ss[2]}, Nat)
BY NatLessThanWellFounded DEF OpToRel

\* A set with zero, and with n + 1 whenever it has n, has every natural number.
LEMMA NatSetInduction ==
  ASSUME NEW T, 0 \in T, \A n \in Nat : n \in T => n + 1 \in T
  PROVE  Nat \subseteq T
<1> DEFINE R == {ss \in Nat \X Nat : ss[1] < ss[2]}
           Others == Nat \ T
<1> SUFFICES ASSUME Others # {} PROVE FALSE
  OBVIOUS
<1>1. IsWellFoundedOn(R, Nat) /\ Others \subseteq Nat
  BY LessThanIsWellFounded
<1> HIDE DEF R, Others
<1>2. PICK n \in Others : \A m \in Others : <<m, n>> \notin R
  BY <1>1, WFMin
<1> USE DEF R, Others
<1>3. n \in Nat /\ n # 0 /\ n - 1 \in Nat /\ n - 1 < n /\ (n - 1) + 1 = n
  BY <1>2
<1>4. n - 1 \in T
  <2>1. <<n - 1, n>> \in R
    BY <1>3
  <2>2. n - 1 \notin Others
    BY <1>2, <2>1
  <2> QED BY <1>3, <2>2
<1> QED BY <1>2, <1>3, <1>4

\* A way to lay the first i characters of a pattern over the first j of a
\* text: f[k] is how far the first k reach.
Laid(pattern, text, i, j, f) ==
  /\ f \in [0..i -> 0..j] /\ f[0] = 0 /\ f[i] = j
  /\ \A k \in 1..i : IF pattern[k] = Star THEN f[k - 1] <= f[k]
                     ELSE f[k] = f[k - 1] + 1 /\ pattern[k] = text[f[k]]

LaysOver(pattern, text, i, j) == \E f : Laid(pattern, text, i, j, f)

\* No pattern lies over no text only.
LEMMA LaidNothing ==
  ASSUME NEW pattern, NEW text, NEW j \in Nat
  PROVE  LaysOver(pattern, text, 0, j) <=> j = 0
<1>1. ASSUME NEW f, Laid(pattern, text, 0, j, f) PROVE j = 0
  BY <1>1 DEF Laid
<1>2. ASSUME j = 0 PROVE LaysOver(pattern, text, 0, j)
  <2> DEFINE f == [k \in 0..0 |-> 0]
  <2>1. Laid(pattern, text, 0, 0, f)
    BY DEF Laid
  <2> QED BY <1>2, <2>1 DEF LaysOver
<1> QED BY <1>1, <1>2 DEF LaysOver

\* One more character of the pattern, as far as the text allows.
LEMMA LaidOneMore ==
  ASSUME NEW pattern, NEW text, NEW i \in Nat, NEW j \in Nat, NEW n \in 0..j, LaysOver(pattern, text, i, n),
         IF pattern[i + 1] = Star THEN TRUE ELSE j = n + 1 /\ pattern[i + 1] = text[j]
  PROVE  LaysOver(pattern, text, i + 1, j)
<1>1. PICK f : Laid(pattern, text, i, n, f)
  BY DEF LaysOver
<1> DEFINE h == [k \in 0..i + 1 |-> IF k = i + 1 THEN j ELSE f[k]]
<1>2. h \in [0..i + 1 -> 0..j] /\ h[0] = 0 /\ h[i + 1] = j
  BY <1>1 DEF Laid
<1>3. ASSUME NEW k \in 1..i + 1
      PROVE  IF pattern[k] = Star THEN h[k - 1] <= h[k] ELSE h[k] = h[k - 1] + 1 /\ pattern[k] = text[h[k]]
  <2>1. CASE k = i + 1
    <3>1. h[k - 1] = n /\ h[k] = j
      BY <1>1, <2>1 DEF Laid
    <3> QED BY <2>1, <3>1
  <2>2. CASE k # i + 1
    <3>1. k \in 1..i /\ h[k - 1] = f[k - 1] /\ h[k] = f[k]
      BY <2>2
    <3> HIDE DEF h
    <3> QED BY <1>1, <3>1 DEF Laid
  <2> QED BY <2>1, <2>2
<1>4. Laid(pattern, text, i + 1, j, h)
  <2> HIDE DEF h
  <2> QED BY <1>2, <1>3 DEF Laid
<1> QED BY <1>4 DEF LaysOver

\* Without its last character, a pattern lies over a shorter part of the text:
\* any for a star, one character less otherwise.
LEMMA LaidOneLess ==
  ASSUME NEW pattern, NEW text, NEW i \in Nat, NEW j \in Nat, LaysOver(pattern, text, i + 1, j)
  PROVE  \E n \in 0..j : /\ LaysOver(pattern, text, i, n)
                         /\ IF pattern[i + 1] = Star THEN TRUE ELSE j = n + 1 /\ pattern[i + 1] = text[j]
<1>1. PICK f : Laid(pattern, text, i + 1, j, f)
  BY DEF LaysOver
<1>2. f[i] \in 0..j /\ f[i + 1] = j
  BY <1>1 DEF Laid
<1>3. IF pattern[i + 1] = Star THEN TRUE ELSE j = f[i] + 1 /\ pattern[i + 1] = text[j]
  <2>1. i + 1 \in 1..i + 1 /\ (i + 1) - 1 = i
    OBVIOUS
  <2> QED BY <1>1, <1>2, <2>1 DEF Laid
<1> DEFINE below == {k \in 0..i : f[k] > f[i]}
<1>4. \A k \in 0..i : f[k] <= f[i]
  <2> DEFINE T == {m \in Nat : m <= i => f[i - m] <= f[i]}
  <2>1. 0 \in T
    BY <1>2
  <2>2. ASSUME NEW m \in Nat, m \in T PROVE m + 1 \in T
    <3> SUFFICES ASSUME m + 1 <= i PROVE f[i - (m + 1)] <= f[i]
      OBVIOUS
    <3>1. i - m \in 1..i + 1 /\ (i - m) - 1 = i - (m + 1) /\ f[i - m] <= f[i]
      BY <2>2
    <3>2. f[i - (m + 1)] <= f[i - m]
      <4>1. f[i - (m + 1)] \in 0..j /\ f[i - m] \in 0..j
        BY <1>1, <3>1 DEF Laid
      <4>2. IF pattern[i - m] = Star THEN f[i - (m + 1)] <= f[i - m] ELSE f[i - m] = f[i - (m + 1)] + 1
        BY <1>1, <3>1 DEF Laid
      <4> QED BY <4>1, <4>2
    <3>3. f[i - (m + 1)] \in 0..j /\ f[i - m] \in 0..j /\ f[i] \in 0..j
      BY <1>1, <3>1 DEF Laid
    <3> QED BY <3>1, <3>2, <3>3
  <2> HIDE DEF T
  <2>3. Nat \subseteq T
    BY <2>1, <2>2, NatSetInduction
  <2>4. ASSUME NEW k \in 0..i PROVE f[k] <= f[i]
    <3>1. i - k \in Nat /\ i - k <= i /\ i - (i - k) = k
      OBVIOUS
    <3> QED BY <2>3, <3>1 DEF T
  <2> QED BY <2>4
<1> DEFINE h == [k \in 0..i |-> f[k]]
<1>5. Laid(pattern, text, i, f[i], h)
  <2>1. h \in [0..i -> 0..f[i]] /\ h[0] = 0 /\ h[i] = f[i]
    BY <1>1, <1>2, <1>4 DEF Laid
  <2>2. ASSUME NEW k \in 1..i
        PROVE  IF pattern[k] = Star THEN h[k - 1] <= h[k] ELSE h[k] = h[k - 1] + 1 /\ pattern[k] = text[h[k]]
    <3>1. k \in 1..i + 1 /\ h[k - 1] = f[k - 1] /\ h[k] = f[k]
      OBVIOUS
    <3> HIDE DEF h
    <3> QED BY <1>1, <3>1 DEF Laid
  <2> HIDE DEF h
  <2> QED BY <2>1, <2>2 DEF Laid
<1> QED BY <1>2, <1>3, <1>5 DEF LaysOver

\* The recursion of Glob holds for laying a pattern over a text.
LEMMA LaidStep ==
  ASSUME NEW pattern, NEW text, NEW i \in Nat, NEW j \in Nat
  PROVE  LaysOver(pattern, text, i, j) <=>
           IF i = 0 THEN j = 0
           ELSE IF pattern[i] = Star THEN LaysOver(pattern, text, i - 1, j)
                                          \/ (j > 0 /\ LaysOver(pattern, text, i, j - 1))
           ELSE j > 0 /\ pattern[i] = text[j] /\ LaysOver(pattern, text, i - 1, j - 1)
<1>1. CASE i = 0
  BY <1>1, LaidNothing
<1>2. CASE i # 0
  <2>1. i - 1 \in Nat /\ (i - 1) + 1 = i
    BY <1>2
  <2>2. ASSUME NEW k \in Nat
        PROVE  LaysOver(pattern, text, i, k) <=>
                 \E n \in 0..k : /\ LaysOver(pattern, text, i - 1, n)
                                 /\ IF pattern[i] = Star THEN TRUE ELSE k = n + 1 /\ pattern[i] = text[k]
    <3>1. ASSUME NEW n \in 0..k, LaysOver(pattern, text, i - 1, n),
                 IF pattern[i] = Star THEN TRUE ELSE k = n + 1 /\ pattern[i] = text[k]
          PROVE  LaysOver(pattern, text, i, k)
      <4>1. LaysOver(pattern, text, (i - 1) + 1, k)
        BY <2>1, <3>1, LaidOneMore
      <4> QED BY <2>1, <4>1
    <3>2. ASSUME LaysOver(pattern, text, i, k)
          PROVE  \E n \in 0..k : /\ LaysOver(pattern, text, i - 1, n)
                                 /\ IF pattern[i] = Star THEN TRUE ELSE k = n + 1 /\ pattern[i] = text[k]
      <4>1. PICK h \in Nat : h + 1 = i
        BY <2>1
      <4>2. LaysOver(pattern, text, h + 1, k)
        BY <3>2, <4>1
      <4>3. \E n \in 0..k : /\ LaysOver(pattern, text, h, n)
                            /\ IF pattern[h + 1] = Star THEN TRUE ELSE k = n + 1 /\ pattern[h + 1] = text[k]
        BY <4>2, LaidOneLess
      <4>4. h = i - 1
        BY <4>1
      <4> QED BY <4>1, <4>3, <4>4
    <3> QED BY <3>1, <3>2
  <2>3. CASE pattern[i] = Star
    <3>1. \A k \in Nat : LaysOver(pattern, text, i, k) <=> \E n \in 0..k : LaysOver(pattern, text, i - 1, n)
      BY <2>2, <2>3
    <3>2. j > 0 => j - 1 \in Nat /\ 0..j = (0..(j - 1)) \cup {j}
      OBVIOUS
    <3>3. j = 0 => 0..j = {j}
      OBVIOUS
    <3>4. j = 0 \/ j > 0
      OBVIOUS
    <3> QED BY <1>2, <2>3, <3>1, <3>2, <3>3, <3>4
  <2>4. CASE pattern[i] # Star
    <3>1. \A n \in 0..j : j = n + 1 <=> j > 0 /\ n = j - 1
      OBVIOUS
    <3>2. j > 0 => j - 1 \in 0..j
      OBVIOUS
    <3> QED BY <1>2, <2>2, <2>4, <3>1, <3>2
  <2> QED BY <2>3, <2>4
<1> QED BY <1>1, <1>2

GlobEquation(g, pattern, text) ==
  g = [p \in (0..Len(pattern)) \X (0..Len(text)) |->
         LET i == p[1]  j == p[2]
         IN IF i = 0 THEN j = 0
            ELSE IF pattern[i] = Star THEN g[<<i - 1, j>>] \/ (j > 0 /\ g[<<i, j - 1>>])
            ELSE j > 0 /\ pattern[i] = text[j] /\ g[<<i - 1, j - 1>>]]

\* The same at one place.
GlobStep(g, pattern, text, i, j) ==
  IF i = 0 THEN j = 0
  ELSE IF pattern[i] = Star THEN g[<<i - 1, j>>] \/ (j > 0 /\ g[<<i, j - 1>>])
  ELSE j > 0 /\ pattern[i] = text[j] /\ g[<<i - 1, j - 1>>]

\* A glob matches a text exactly if it can be laid over it.
LEMMA GlobIs ==
  ASSUME NEW pattern, NEW text, Len(pattern) \in Nat, Len(text) \in Nat
  PROVE  Glob(pattern, text) <=> LaysOver(pattern, text, Len(pattern), Len(text))
<1> DEFINE I == 0..Len(pattern)
           J == 0..Len(text)
           K == [p \in I \X J |-> LaysOver(pattern, text, p[1], p[2])]
<1>1. /\ I \subseteq Nat /\ J \subseteq Nat
      /\ \A i \in I : i # 0 => i - 1 \in I
      /\ \A j \in J : j > 0 => j - 1 \in J
  OBVIOUS
<1>2. ASSUME NEW i \in I, NEW j \in J PROVE K[<<i, j>>] = GlobStep(K, pattern, text, i, j)
  <2>1. \A a \in I, b \in J : K[<<a, b>>] = LaysOver(pattern, text, a, b)
    OBVIOUS
  <2>2. i \in Nat /\ j \in Nat /\ (i # 0 => i - 1 \in I) /\ (j > 0 => j - 1 \in J)
    BY <1>1
  <2>3. GlobStep(K, pattern, text, i, j) <=>
          IF i = 0 THEN j = 0
          ELSE IF pattern[i] = Star THEN LaysOver(pattern, text, i - 1, j) \/ (j > 0 /\ LaysOver(pattern, text, i, j - 1))
          ELSE j > 0 /\ pattern[i] = text[j] /\ LaysOver(pattern, text, i - 1, j - 1)
    <3> HIDE DEF K, I, J
    <3> QED BY <2>1, <2>2 DEF GlobStep
  <2> HIDE DEF K, I, J
  <2>4. K[<<i, j>>] = LaysOver(pattern, text, i, j)
    BY <2>1
  <2>5. LaysOver(pattern, text, i, j) <=> GlobStep(K, pattern, text, i, j)
    <3>1. LaysOver(pattern, text, i, j) <=>
          IF i = 0 THEN j = 0
          ELSE IF pattern[i] = Star THEN LaysOver(pattern, text, i - 1, j) \/ (j > 0 /\ LaysOver(pattern, text, i, j - 1))
          ELSE j > 0 /\ pattern[i] = text[j] /\ LaysOver(pattern, text, i - 1, j - 1)
      BY <2>2, LaidStep
    <3> QED BY <2>3, <3>1
  <2>6. LaysOver(pattern, text, i, j) \in BOOLEAN /\ GlobStep(K, pattern, text, i, j) \in BOOLEAN
    BY DEF LaysOver, GlobStep
  <2> QED BY <2>4, <2>5, <2>6
<1>3. GlobEquation(K, pattern, text)
  <2>1. K = [p \in I \X J |-> K[p]]
    OBVIOUS
  <2>2. \A p \in I \X J : p[1] \in I /\ p[2] \in J /\ p = <<p[1], p[2]>>
    OBVIOUS
  <2> HIDE DEF K
  <2>3. \A p \in I \X J : K[p] = GlobStep(K, pattern, text, p[1], p[2])
    <3> HIDE DEF I, J
    <3> QED BY <1>2, <2>2
  <2> QED BY <2>1, <2>3 DEF GlobEquation, GlobStep
<1> DEFINE m == CHOOSE g : GlobEquation(g, pattern, text)
<1>4. Glob(pattern, text) <=> m[<<Len(pattern), Len(text)>>]
  BY DEF Glob, GlobEquation
<1>5. GlobEquation(m, pattern, text)
  <2> HIDE DEF K
  <2> QED BY <1>3
<1> HIDE DEF m
<1>6. ASSUME NEW i \in I, NEW j \in J PROVE m[<<i, j>>] = GlobStep(m, pattern, text, i, j)
  BY <1>5 DEF GlobEquation, GlobStep
<1> DEFINE T == {n \in Nat : \A i \in I, j \in J : i + j <= n => m[<<i, j>>] = K[<<i, j>>]}
<1> HIDE DEF K
<1>7. 0 \in T
  <2>1. \A i \in I, j \in J : i + j <= 0 => i = 0 /\ j = 0
    OBVIOUS
  <2>2. \A i \in I, j \in J : i = 0 => m[<<i, j>>] = K[<<i, j>>]
    <3> SUFFICES ASSUME NEW j \in J PROVE m[<<0, j>>] = K[<<0, j>>]
      OBVIOUS
    <3>1. 0 \in I
      OBVIOUS
    <3> HIDE DEF I, J
    <3>2. m[<<0, j>>] = GlobStep(m, pattern, text, 0, j) /\ K[<<0, j>>] = GlobStep(K, pattern, text, 0, j)
      BY <1>2, <1>6, <3>1
    <3>3. GlobStep(m, pattern, text, 0, j) = GlobStep(K, pattern, text, 0, j)
      BY DEF GlobStep
    <3> QED BY <3>2, <3>3
  <2> HIDE DEF I, J
  <2> QED BY <2>1, <2>2
<1>8. ASSUME NEW n \in Nat, n \in T PROVE n + 1 \in T
  <2> SUFFICES ASSUME NEW i \in I, NEW j \in J, i + j <= n + 1 PROVE m[<<i, j>>] = K[<<i, j>>]
    OBVIOUS
  <2>1. i # 0 => (i - 1) + j <= n
    OBVIOUS
  <2>2. j > 0 => i + (j - 1) <= n /\ (i # 0 => (i - 1) + (j - 1) <= n)
    OBVIOUS
  <2>3. (i # 0 => i - 1 \in I) /\ (j > 0 => j - 1 \in J)
    BY <1>1
  <2>4. \A a \in I, b \in J : a + b <= n => m[<<a, b>>] = K[<<a, b>>]
    BY <1>8
  <2> HIDE DEF I, J
  <2>5. i # 0 => m[<<i - 1, j>>] = K[<<i - 1, j>>]
    BY <2>1, <2>3, <2>4
  <2>6. j > 0 => m[<<i, j - 1>>] = K[<<i, j - 1>>]
    BY <2>2, <2>3, <2>4
  <2>7. i # 0 /\ j > 0 => m[<<i - 1, j - 1>>] = K[<<i - 1, j - 1>>]
    BY <2>2, <2>3, <2>4
  <2>8. GlobStep(m, pattern, text, i, j) = GlobStep(K, pattern, text, i, j)
    BY <2>5, <2>6, <2>7 DEF GlobStep
  <2> QED BY <1>2, <1>6, <2>8
<1> HIDE DEF T
<1>9. Nat \subseteq T
  BY <1>7, <1>8, NatSetInduction
<1>10. m[<<Len(pattern), Len(text)>>] = K[<<Len(pattern), Len(text)>>]
  <2>1. Len(pattern) \in I /\ Len(text) \in J /\ Len(pattern) + Len(text) \in Nat
        /\ Len(pattern) + Len(text) <= Len(pattern) + Len(text)
    OBVIOUS
  <2>2. Len(pattern) + Len(text) \in T
    BY <1>9, <2>1
  <2> HIDE DEF I, J
  <2> QED BY <2>1, <2>2 DEF T
<1>11. K[<<Len(pattern), Len(text)>>] <=> LaysOver(pattern, text, Len(pattern), Len(text))
  BY DEF K
<1> QED BY <1>4, <1>10, <1>11

\* How far a pattern reaches does not fall.
LEMMA LaidRises ==
  ASSUME NEW p, NEW t, NEW n \in Nat, NEW j \in Nat, NEW g, Laid(p, t, n, j, g),
         NEW a \in 0..n, NEW b \in 0..n, a <= b
  PROVE  g[a] <= g[b]
<1>1. \A k \in 0..n : g[k] \in 0..j
  BY DEF Laid
<1> DEFINE T == {m \in Nat : a + m <= n => g[a] <= g[a + m]}
<1>2. 0 \in T
  BY <1>1
<1>3. ASSUME NEW m \in Nat, m \in T PROVE m + 1 \in T
  <2> SUFFICES ASSUME a + (m + 1) <= n PROVE g[a] <= g[a + (m + 1)]
    OBVIOUS
  <2>1. a + m <= n /\ a + m \in 0..n /\ a + (m + 1) \in 1..n /\ (a + (m + 1)) - 1 = a + m /\ a + (m + 1) \in 0..n
    OBVIOUS
  <2>2. g[a] <= g[a + m]
    BY <1>3, <2>1
  <2>3. g[a] \in Nat /\ g[a + m] \in Nat /\ g[a + (m + 1)] \in Nat
    BY <1>1, <2>1
  <2>4. IF p[a + (m + 1)] = Star THEN g[a + m] <= g[a + (m + 1)] ELSE g[a + (m + 1)] = g[a + m] + 1
    BY <2>1 DEF Laid
  <2> QED BY <2>2, <2>3, <2>4
<1> HIDE DEF T
<1>4. Nat \subseteq T
  BY <1>2, <1>3, NatSetInduction
<1>5. PICK m \in Nat : a + m = b
  <2>1. b - a \in Nat /\ a + (b - a) = b
    OBVIOUS
  <2> QED BY <2>1
<1>6. m \in T
  BY <1>4
<1> QED BY <1>5, <1>6 DEF T

-----------------------------------------------------------------------------
(* Texts put together, and globs with them.                                *)

\* Two texts put together, and one space.
Cat(a, b) == a \o b
Blank == <<Space>>

\* How texts are put together.
LEMMA Texts ==
  ASSUME NEW D
  PROVE  /\ \A a \in Seq(D), b \in Seq(D) : Cat(a, b) \in Seq(D)
         /\ \A a \in Seq(D), b \in Seq(D), c \in Seq(D) : Cat(Cat(a, b), c) = Cat(a, Cat(b, c))
         /\ \A a \in Seq(D), b \in Seq(D), c \in Seq(D) : Cat(a, b) = Cat(a, c) => b = c
         /\ \A a \in Seq(D) : Cat(a, <<>>) = a /\ Cat(<<>>, a) = a
<1>1. \A a \in Seq(D), b \in Seq(D) : a \o b \in Seq(D)
  BY ConcatProperties
<1>2. \A a \in Seq(D), b \in Seq(D), c \in Seq(D) : (a \o b) \o c = a \o (b \o c)
  BY ConcatAssociative
<1>3. \A a \in Seq(D), b \in Seq(D), c \in Seq(D) : a \o b = a \o c => b = c
  BY ConcatSimplifications
<1>4. \A a \in Seq(D) : a \o <<>> = a /\ <<>> \o a = a
  BY ConcatEmptySeq
<1> QED BY <1>1, <1>2, <1>3, <1>4 DEF Cat

\* The characters of a concatenation.
LEMMA Parts ==
  ASSUME NEW D, NEW u \in Seq(D), NEW v \in Seq(D)
  PROVE  /\ u \o v \in Seq(D) /\ Len(u) \in Nat /\ Len(v) \in Nat /\ Len(u \o v) = Len(u) + Len(v)
         /\ \A i \in 1..Len(u) : (u \o v)[i] = u[i]
         /\ \A i \in 1..Len(v) : (u \o v)[Len(u) + i] = v[i]
<1> DEFINE w == u \o v
<1>1. /\ w \in Seq(D) /\ Len(u) \in Nat /\ Len(v) \in Nat /\ Len(w) = Len(u) + Len(v)
      /\ \A i \in 1..(Len(u) + Len(v)) : w[i] = IF i <= Len(u) THEN u[i] ELSE v[i - Len(u)]
  BY ConcatProperties, LenProperties
<1> HIDE DEF w
<1>2. PICK m \in Nat : m = Len(u)
  BY <1>1
<1>3. PICK n \in Nat : n = Len(v)
  BY <1>1
<1>4. \A i \in 1..m : i \in 1..(m + n) /\ i <= m
  OBVIOUS
<1>5. \A i \in 1..n : m + i \in 1..(m + n) /\ ~(m + i <= m) /\ (m + i) - m = i
  OBVIOUS
<1>6. \A i \in 1..m : w[i] = u[i]
  BY <1>1, <1>2, <1>3, <1>4
<1>7. \A i \in 1..n : w[m + i] = v[i]
  BY <1>1, <1>2, <1>3, <1>5
<1> QED BY <1>1, <1>2, <1>3, <1>6, <1>7 DEF w

\* A text up to a position, and from there on.
LEMMA Cut ==
  ASSUME NEW D, NEW t \in Seq(D), NEW j \in 0..Len(t)
  PROVE  /\ t = SubSeq(t, 1, j) \o SubSeq(t, j + 1, Len(t))
         /\ SubSeq(t, 1, j) \in Seq(D) /\ Len(SubSeq(t, 1, j)) = j
         /\ SubSeq(t, j + 1, Len(t)) \in Seq(D) /\ Len(SubSeq(t, j + 1, Len(t))) = Len(t) - j
         /\ \A i \in 1..j : SubSeq(t, 1, j)[i] = t[i]
         /\ \A i \in 1..(Len(t) - j) : SubSeq(t, j + 1, Len(t))[i] = t[j + i]
<1> DEFINE u == SubSeq(t, 1, j)
           v == SubSeq(t, j + 1, Len(t))
<1>1. PICK n \in Nat : n = Len(t)
  BY LenProperties
<1>2. j \in Nat /\ j <= n /\ j \in 0..n
  BY <1>1
<1>3. u \o v = SubSeq(t, 1, Len(t))
  <2>1. 1 \in 1..(Len(t) + 1) /\ j \in (1 - 1)..Len(t) /\ Len(t) \in j..Len(t)
    BY <1>1, <1>2
  <2> QED BY <2>1, ConcatAdjacentSubSeq
<1>4. SubSeq(t, 1, Len(t)) = t
  BY SubSeqFull
<1>5. u \in Seq(D) /\ Len(u) = j /\ \A i \in 1..j : u[i] = t[i]
  <2>1. \A i \in 1..j : t[i] \in D
    BY <1>1, <1>2, ElementOfSeq
  <2>2. 1 \in Int /\ j \in Int
    BY <1>2
  <2>3. u \in Seq(D) /\ Len(u) = (IF 1 <= j THEN j - 1 + 1 ELSE 0) /\ \A i \in 1..(j - 1 + 1) : u[i] = t[1 + i - 1]
    BY <2>1, <2>2, SubSeqProperties
  <2> HIDE DEF u
  <2> QED BY <1>2, <2>3
<1>6. v \in Seq(D) /\ Len(v) = Len(t) - j /\ \A i \in 1..(Len(t) - j) : v[i] = t[j + i]
  <2>1. \A i \in (j + 1)..n : t[i] \in D
    <3>1. \A i \in (j + 1)..n : i \in 1..n
      BY <1>2
    <3> QED BY <1>1, <3>1, ElementOfSeq
  <2>2. j + 1 \in Int /\ n \in Int
    BY <1>2
  <2> DEFINE vv == SubSeq(t, j + 1, n)
  <2>3. vv \in Seq(D) /\ Len(vv) = (IF j + 1 <= n THEN n - (j + 1) + 1 ELSE 0)
        /\ \A i \in 1..(n - (j + 1) + 1) : vv[i] = t[(j + 1) + i - 1]
    BY <2>1, <2>2, SubSeqProperties
  <2> HIDE DEF vv
  <2>4. n - (j + 1) + 1 = n - j /\ (j + 1 <= n \/ n - j = 0) /\ \A i \in 1..(n - j) : (j + 1) + i - 1 = j + i
    BY <1>2
  <2>5. Len(vv) = n - j
    BY <1>2, <2>3, <2>4
  <2>6. \A i \in 1..(n - j) : vv[i] = t[j + i]
    BY <2>3, <2>4
  <2> QED BY <1>1, <2>3, <2>5, <2>6 DEF vv
<1> QED BY <1>3, <1>4, <1>5, <1>6

\* Of two ways to cut a text in two, the later cut leaves some of the text
\* between itself and the earlier one.
LEMMA TwoCuts ==
  ASSUME NEW D, NEW a \in Seq(D), NEW b \in Seq(D), NEW c \in Seq(D), NEW d \in Seq(D),
         Cat(a, b) = Cat(c, d), Len(a) <= Len(c)
  PROVE  \E x \in Seq(D) : c = Cat(a, x) /\ b = Cat(x, d)
<1> DEFINE k == Len(a)
           x == SubSeq(c, k + 1, Len(c))
           y == SubSeq(c, 1, k)
<1>1. k \in 0..Len(c)
  BY LenProperties
<1>2. c = y \o x /\ y \in Seq(D) /\ Len(y) = k /\ x \in Seq(D) /\ \A i \in 1..k : y[i] = c[i]
  BY <1>1, Cut
<1>3. y = a
  <2>1. \A i \in 1..k : (a \o b)[i] = a[i]
    BY Parts
  <2>2. \A i \in 1..k : i \in 1..Len(c)
    BY <1>1
  <2>3. \A i \in 1..k : (c \o d)[i] = c[i]
    BY <2>2, Parts
  <2>4. a \o b = c \o d
    BY DEF Cat
  <2> HIDE DEF y
  <2>5. \A i \in 1..k : y[i] = a[i]
    BY <1>2, <2>1, <2>3, <2>4
  <2> QED BY <1>2, <2>5, SeqEqual
<1> HIDE DEF x, y, k
<1>4. c = Cat(a, x)
  BY <1>2, <1>3 DEF Cat
<1>5. Cat(a, b) = Cat(a, Cat(x, d)) /\ Cat(x, d) \in Seq(D)
  BY <1>2, <1>4, Texts
<1>6. b = Cat(x, d)
  BY <1>5, Texts
<1> QED BY <1>2, <1>4, <1>6

\* The length of a sequence, as a fact to cite.
Sized(s, n) == n = Len(s)

\* The members of sequences put together.
LEMMA CatIs ==
  ASSUME NEW S, NEW s \in Seq(S), NEW t \in Seq(S), NEW p \in Nat, NEW q \in Nat, Sized(s, p), Sized(t, q)
  PROVE  /\ Cat(s, t) \in Seq(S) /\ Len(Cat(s, t)) = p + q
         /\ \A i \in 1..p : Cat(s, t)[i] = s[i]
         /\ \A i \in 1..q : Cat(s, t)[p + i] = t[i]
BY Parts DEF Cat, Sized

Free(w, char) == \A x \in 1..Len(w) : w[x] # char

\* Texts put together are free of what both are free of.
LEMMA FreeTogether ==
  ASSUME NEW D, NEW a \in Seq(D), NEW b \in Seq(D), NEW x, Free(a, x), Free(b, x)
  PROVE  Free(Cat(a, b), x)
<1>1. PICK n \in Nat, m \in Nat : n = Len(a) /\ m = Len(b)
  BY LenProperties
<1>2. /\ Len(Cat(a, b)) = n + m
      /\ \A i \in 1..n : Cat(a, b)[i] = a[i]
      /\ \A i \in 1..m : Cat(a, b)[n + i] = b[i]
  BY <1>1, Parts DEF Cat
<1>3. ASSUME NEW k \in 1..(n + m) PROVE Cat(a, b)[k] # x
  <2>1. CASE k <= n
    <3>1. k \in 1..n
      BY <2>1
    <3> QED BY <1>1, <1>2, <3>1 DEF Free
  <2>2. CASE ~(k <= n)
    <3>1. PICK i \in 1..m : k = n + i
      <4>1. k - n \in 1..m /\ k = n + (k - n)
        BY <2>2
      <4> QED BY <4>1
    <3> QED BY <1>1, <1>2, <3>1 DEF Free
  <2> QED BY <2>1, <2>2
<1> QED BY <1>2, <1>3 DEF Free

\* Patterns put together match texts put together.
LEMMA GlobsJoin ==
  ASSUME NEW D, NEW p \in Seq(D), NEW q \in Seq(D), NEW t \in Seq(D), NEW u \in Seq(D), Glob(p, t), Glob(q, u)
  PROVE  Glob(Cat(p, q), Cat(t, u))
<1> DEFINE w == p \o q
           x == t \o u
<1>1. /\ w \in Seq(D) /\ Len(w) = Len(p) + Len(q)
      /\ \A i \in 1..Len(p) : w[i] = p[i]
      /\ \A i \in 1..Len(q) : w[Len(p) + i] = q[i]
  BY Parts
<1>2. /\ x \in Seq(D) /\ Len(x) = Len(t) + Len(u)
      /\ \A i \in 1..Len(t) : x[i] = t[i]
      /\ \A i \in 1..Len(u) : x[Len(t) + i] = u[i]
  BY Parts
<1> HIDE DEF w, x
<1>3. PICK m \in Nat, n \in Nat, i \in Nat, j \in Nat : m = Len(p) /\ n = Len(q) /\ i = Len(t) /\ j = Len(u)
  BY LenProperties
<1>4. PICK f : Laid(p, t, m, i, f)
  BY <1>3, GlobIs DEF LaysOver
<1>5. PICK g : Laid(q, u, n, j, g)
  BY <1>3, GlobIs DEF LaysOver
<1>6. /\ \A k \in 0..m : f[k] \in 0..i
      /\ \A k \in 0..n : g[k] \in 0..j
      /\ f[0] = 0 /\ f[m] = i /\ g[0] = 0 /\ g[n] = j
  BY <1>4, <1>5 DEF Laid
<1> DEFINE h == [k \in 0..(m + n) |-> IF k <= m THEN f[k] ELSE i + g[k - m]]
<1>7. /\ DOMAIN h = 0..(m + n)
      /\ \A k \in 0..m : h[k] = f[k]
      /\ \A k \in 0..n : h[m + k] = i + g[k]
  <2>1. \A k \in 0..m : k \in 0..(m + n) /\ k <= m
    OBVIOUS
  <2>2. \A k \in 0..n : m + k \in 0..(m + n) /\ (m + k) - m = k /\ (m + k <= m => k = 0 /\ m + k = m)
    OBVIOUS
  <2>3. \A k \in 0..m : h[k] = f[k]
    BY <2>1
  <2>4. ASSUME NEW k \in 0..n PROVE h[m + k] = i + g[k]
    <3>1. CASE m + k <= m
      <4>1. k = 0 /\ m + k = m /\ m \in 0..m
        BY <3>1
      <4>2. h[m] = f[m]
        BY <2>3, <4>1
      <4>3. g[k] = 0 /\ f[m] = i /\ i + 0 = i
        BY <1>6, <4>1
      <4> QED BY <4>1, <4>2, <4>3
    <3>2. CASE ~(m + k <= m)
      BY <2>2, <3>2
    <3> QED BY <3>1, <3>2
  <2> QED BY <2>3, <2>4
<1>8. h = [k \in 0..(m + n) |-> h[k]]
  OBVIOUS
<1> HIDE DEF h
<1>9. ASSUME NEW k \in 0..(m + n) PROVE h[k] \in 0..(i + j)
  <2>1. CASE k <= m
    <3>1. k \in 0..m
      BY <2>1
    <3>2. f[k] \in 0..i /\ h[k] = f[k]
      BY <1>6, <1>7, <3>1
    <3> QED BY <3>2
  <2>2. CASE ~(k <= m)
    <3>1. PICK l \in 0..n : k = m + l
      <4>1. k - m \in 0..n /\ k = m + (k - m)
        BY <2>2
      <4> QED BY <4>1
    <3>2. g[l] \in 0..j /\ h[k] = i + g[l]
      BY <1>6, <1>7, <3>1
    <3> QED BY <3>2
  <2> QED BY <2>1, <2>2
<1>10. ASSUME NEW k \in 1..(m + n)
      PROVE  IF w[k] = Star THEN h[k - 1] <= h[k] ELSE h[k] = h[k - 1] + 1 /\ w[k] = x[h[k]]
  <2>1. CASE k <= m
    <3>1. PICK l \in 0..m : l = k - 1
      <4>1. k - 1 \in 0..m
        BY <2>1
      <4> QED BY <4>1
    <3>2. k \in 1..m /\ k \in 0..m
      BY <2>1
    <3>3. h[k] = f[k] /\ h[l] = f[l] /\ w[k] = p[k] /\ f[k] \in 0..i /\ f[l] \in 0..i
      BY <1>1, <1>3, <1>6, <1>7, <3>1, <3>2
    <3>4. IF p[k] = Star THEN f[l] <= f[k] ELSE f[k] = f[l] + 1 /\ p[k] = t[f[k]]
      BY <1>4, <3>1, <3>2 DEF Laid
    <3>5. f[k] = f[l] + 1 => f[k] \in 1..i
      BY <3>3
    <3>6. f[k] \in 1..i => x[f[k]] = t[f[k]]
      BY <1>2, <1>3
    <3> QED BY <3>1, <3>3, <3>4, <3>5, <3>6
  <2>2. CASE ~(k <= m)
    <3>1. PICK l \in 1..n : k = m + l
      <4>1. k - m \in 1..n /\ k = m + (k - m)
        BY <2>2
      <4> QED BY <4>1
    <3>2. PICK o \in 0..n : o = l - 1 /\ k - 1 = m + o
      <4>1. l - 1 \in 0..n /\ k - 1 = m + (l - 1)
        BY <3>1
      <4> QED BY <4>1
    <3>3. l \in 0..n
      BY <3>1
    <3>4. h[k] = i + g[l] /\ h[k - 1] = i + g[o] /\ w[k] = q[l] /\ g[l] \in 0..j /\ g[o] \in 0..j
      BY <1>1, <1>3, <1>6, <1>7, <3>1, <3>2, <3>3
    <3>5. IF q[l] = Star THEN g[o] <= g[l] ELSE g[l] = g[o] + 1 /\ q[l] = u[g[l]]
      BY <1>5, <3>1, <3>2 DEF Laid
    <3>6. g[l] = g[o] + 1 => g[l] \in 1..j
      BY <3>4
    <3>7. g[l] \in 1..j => x[i + g[l]] = u[g[l]]
      BY <1>2, <1>3
    <3>8. CASE q[l] = Star
      <4>1. h[k - 1] <= h[k]
        BY <3>4, <3>5, <3>8
      <4> QED BY <3>4, <3>8, <4>1
    <3>9. CASE q[l] # Star
      <4>1. g[l] = g[o] + 1 /\ q[l] = u[g[l]]
        BY <3>5, <3>9
      <4>2. h[k] = h[k - 1] + 1
        BY <3>4, <4>1
      <4>3. w[k] = x[h[k]]
        BY <3>4, <3>6, <3>7, <4>1
      <4> QED BY <3>4, <3>9, <4>2, <4>3
    <3> QED BY <3>8, <3>9
  <2> QED BY <2>1, <2>2
<1>11. h[0] = 0 /\ h[m + n] = i + j
  <2>1. 0 \in 0..m /\ n \in 0..n
    OBVIOUS
  <2> QED BY <1>6, <1>7, <2>1
<1>12. h \in [0..(m + n) -> 0..(i + j)]
  BY <1>8, <1>9
<1>13. Laid(w, x, m + n, i + j, h)
  BY <1>10, <1>11, <1>12 DEF Laid
<1>14. LaysOver(w, x, Len(w), Len(x)) /\ Len(w) \in Nat /\ Len(x) \in Nat
  BY <1>1, <1>2, <1>3, <1>13 DEF LaysOver
<1>15. Glob(w, x)
  BY <1>14, GlobIs
<1> QED BY <1>15 DEF w, x, Cat

\* A text matches itself, and a star any text.
LEMMA GlobItself ==
  ASSUME NEW D, NEW t \in Seq(D)
  PROVE  Glob(t, t) /\ (Star \in D => Glob(<<Star>>, t))
<1>1. PICK n \in Nat : n = Len(t)
  BY LenProperties
<1>2. Glob(t, t)
  <2> DEFINE f == [k \in 0..n |-> k]
  <2>1. f \in [0..n -> 0..n] /\ \A k \in 0..n : f[k] = k
    OBVIOUS
  <2> HIDE DEF f
  <2>2. \A k \in 1..n : k \in 0..n /\ k - 1 \in 0..n /\ k - 1 <= k /\ k = (k - 1) + 1
    OBVIOUS
  <2>3. \A k \in 1..n : f[k] = k /\ f[k - 1] = k - 1 /\ f[k - 1] <= f[k] /\ f[k] = f[k - 1] + 1
    BY <2>1, <2>2
  <2>4. f[0] = 0 /\ f[n] = n
    BY <2>1
  <2>5. Laid(t, t, n, n, f)
    BY <2>1, <2>3, <2>4 DEF Laid
  <2>6. LaysOver(t, t, n, n)
    BY <2>5 DEF LaysOver
  <2> QED BY <1>1, <2>6, GlobIs
<1>3. Star \in D => Glob(<<Star>>, t)
  <2> DEFINE p == <<Star>>
             f == [k \in 0..1 |-> IF k = 0 THEN 0 ELSE n]
  <2>1. Len(p) = 1 /\ p[1] = Star
    OBVIOUS
  <2>2. f \in [0..1 -> 0..n] /\ f[0] = 0 /\ f[1] = n
    OBVIOUS
  <2> HIDE DEF p, f
  <2>3. \A k \in 1..1 : k = 1 /\ k - 1 = 0
    OBVIOUS
  <2>4. \A k \in 1..1 : p[k] = Star /\ f[k - 1] <= f[k]
    BY <2>1, <2>2, <2>3
  <2>5. Laid(p, t, 1, n, f)
    BY <2>2, <2>4 DEF Laid
  <2>6. LaysOver(p, t, 1, n)
    BY <2>5 DEF LaysOver
  <2>7. Len(p) \in Nat /\ Len(t) \in Nat /\ LaysOver(p, t, Len(p), Len(t))
    BY <1>1, <2>1, <2>6
  <2>8. Glob(p, t)
    BY <2>7, GlobIs
  <2> QED BY <2>8 DEF p
<1> QED BY <1>2, <1>3

\* What a pattern put together of two matches is put together of what the two
\* match.
LEMMA GlobParts ==
  ASSUME NEW D, NEW p \in Seq(D), NEW q \in Seq(D), NEW t \in Seq(D), Glob(Cat(p, q), t)
  PROVE  \E a \in Seq(D), b \in Seq(D) : t = Cat(a, b) /\ Glob(p, a) /\ Glob(q, b)
<1> DEFINE w == p \o q
<1>1. /\ w \in Seq(D) /\ Len(w) = Len(p) + Len(q)
      /\ \A i \in 1..Len(p) : w[i] = p[i]
      /\ \A i \in 1..Len(q) : w[Len(p) + i] = q[i]
  BY Parts
<1> HIDE DEF w
<1>2. PICK m \in Nat, n \in Nat, l \in Nat : m = Len(p) /\ n = Len(q) /\ l = Len(t)
  BY LenProperties
<1>3. PICK f : Laid(w, t, m + n, l, f)
  <2>1. LaysOver(w, t, m + n, l)
    <3>1. Glob(w, t) /\ Len(w) \in Nat /\ Len(t) \in Nat /\ Len(w) = m + n
      BY <1>1, <1>2 DEF w, Cat
    <3> QED BY <1>2, <3>1, GlobIs
  <2> QED BY <2>1 DEF LaysOver
<1>4. (\A k \in 0..(m + n) : f[k] \in 0..l) /\ f[0] = 0 /\ f[m + n] = l
  BY <1>3 DEF Laid
<1>5. \A x \in 0..(m + n), y \in 0..(m + n) : x <= y => f[x] <= f[y]
  <2>1. m + n \in Nat /\ l \in Nat
    OBVIOUS
  <2> QED BY <1>3, <2>1, LaidRises
<1>6. PICK j \in 0..l : j = f[m]
  <2>1. m \in 0..(m + n)
    OBVIOUS
  <2> QED BY <1>4, <2>1
<1>7. PICK r \in Nat : j + r = l
  <2>1. l - j \in Nat /\ j + (l - j) = l
    OBVIOUS
  <2> QED BY <2>1
<1> DEFINE a == SubSeq(t, 1, j)
           b == SubSeq(t, j + 1, Len(t))
<1>8. /\ t = a \o b /\ a \in Seq(D) /\ Len(a) = j /\ b \in Seq(D) /\ Len(b) = r
      /\ \A i \in 1..j : a[i] = t[i]
      /\ \A i \in 1..r : b[i] = t[j + i]
  <2>1. j \in 0..Len(t) /\ Len(t) - j = r
    BY <1>2, <1>7
  <2> QED BY <2>1, Cut
<1> HIDE DEF a, b
<1>9. Glob(p, a)
  <2> DEFINE g == [k \in 0..m |-> f[k]]
  <2>1. ASSUME NEW k \in 0..m PROVE f[k] \in 0..j
    <3>1. k \in 0..(m + n) /\ m \in 0..(m + n) /\ k <= m
      OBVIOUS
    <3>2. f[k] <= f[m]
      BY <1>5, <3>1
    <3>3. f[k] \in 0..l
      BY <1>4, <3>1
    <3> QED BY <1>6, <3>2, <3>3
  <2>2. g \in [0..m -> 0..j]
    BY <2>1
  <2>3. g[0] = 0 /\ g[m] = j /\ \A k \in 0..m : g[k] = f[k]
    BY <1>4, <1>6
  <2> HIDE DEF g
  <2>4. ASSUME NEW k \in 1..m
        PROVE  IF p[k] = Star THEN g[k - 1] <= g[k] ELSE g[k] = g[k - 1] + 1 /\ p[k] = a[g[k]]
    <3>1. PICK o \in 0..m : o = k - 1
      <4>1. k - 1 \in 0..m
        OBVIOUS
      <4> QED BY <4>1
    <3>2. k \in 0..m /\ k \in 1..(m + n)
      OBVIOUS
    <3>3. g[k] = f[k] /\ g[o] = f[o] /\ w[k] = p[k] /\ f[k] \in 0..j /\ f[o] \in 0..j
      BY <1>1, <1>2, <2>1, <2>3, <3>1, <3>2
    <3>4. IF w[k] = Star THEN f[o] <= f[k] ELSE f[k] = f[o] + 1 /\ w[k] = t[f[k]]
      BY <1>3, <3>1, <3>2 DEF Laid
    <3>5. f[k] = f[o] + 1 => f[k] \in 1..j
      BY <3>3
    <3> QED BY <1>8, <3>1, <3>3, <3>4, <3>5
  <2>5. Laid(p, a, m, j, g)
    BY <2>2, <2>3, <2>4 DEF Laid
  <2>6. LaysOver(p, a, Len(p), Len(a)) /\ Len(p) \in Nat /\ Len(a) \in Nat
    BY <1>2, <1>8, <2>5 DEF LaysOver
  <2> QED BY <2>6, GlobIs
<1>10. Glob(q, b)
  <2> DEFINE g == [k \in 0..n |-> f[m + k] - j]
  <2>1. ASSUME NEW k \in 0..n PROVE f[m + k] \in j..l
    <3>1. m + k \in 0..(m + n) /\ m \in 0..(m + n) /\ m <= m + k
      OBVIOUS
    <3>2. f[m] <= f[m + k]
      BY <1>5, <3>1
    <3>3. f[m + k] \in 0..l
      BY <1>4, <3>1
    <3> QED BY <1>6, <3>2, <3>3
  <2>2. g \in [0..n -> 0..r]
    <3>1. \A x \in j..l : x - j \in 0..r
      BY <1>7
    <3> QED BY <2>1, <3>1
  <2>3. g[0] = 0 /\ g[n] = r /\ \A k \in 0..n : f[m + k] = j + g[k]
    <3>1. m + 0 = m /\ j - j = 0 /\ l - j = r
      BY <1>7
    <3>2. g[0] = 0 /\ g[n] = r
      BY <1>4, <1>6, <3>1
    <3>3. \A x \in j..l : x = j + (x - j)
      OBVIOUS
    <3> QED BY <2>1, <3>2, <3>3
  <2> HIDE DEF g
  <2>4. ASSUME NEW k \in 1..n
        PROVE  IF q[k] = Star THEN g[k - 1] <= g[k] ELSE g[k] = g[k - 1] + 1 /\ q[k] = b[g[k]]
    <3>1. PICK o \in 0..n : o = k - 1
      <4>1. k - 1 \in 0..n
        OBVIOUS
      <4> QED BY <4>1
    <3>2. k \in 0..n /\ m + k \in 1..(m + n) /\ (m + k) - 1 = m + o
      BY <3>1
    <3>3. f[m + k] = j + g[k] /\ f[m + o] = j + g[o] /\ w[m + k] = q[k] /\ g[k] \in 0..r /\ g[o] \in 0..r
      BY <1>1, <1>2, <2>2, <2>3, <3>1, <3>2
    <3>4. IF w[m + k] = Star THEN f[m + o] <= f[m + k] ELSE f[m + k] = f[m + o] + 1 /\ w[m + k] = t[f[m + k]]
      BY <1>3, <3>1, <3>2 DEF Laid
    <3>5. CASE q[k] = Star
      <4>1. g[o] <= g[k]
        BY <3>3, <3>4, <3>5
      <4> QED BY <3>1, <3>5, <4>1
    <3>6. CASE q[k] # Star
      <4>1. f[m + k] = f[m + o] + 1 /\ q[k] = t[f[m + k]]
        BY <3>3, <3>4, <3>6
      <4>2. g[k] = g[o] + 1
        <5>1. PICK x \in 0..r, y \in 0..r : x = g[k] /\ y = g[o]
          BY <3>3
        <5>2. j + x = (j + y) + 1
          BY <3>3, <4>1, <5>1
        <5>3. x = y + 1
          BY <5>2
        <5> QED BY <5>1, <5>3
      <4>3. g[k] \in 1..r
        BY <3>3, <4>2
      <4>4. b[g[k]] = t[j + g[k]]
        BY <1>8, <4>3
      <4> QED BY <3>1, <3>3, <3>6, <4>1, <4>2, <4>4
    <3> QED BY <3>5, <3>6
  <2>5. Laid(q, b, n, r, g)
    BY <2>2, <2>3, <2>4 DEF Laid
  <2>6. LaysOver(q, b, Len(q), Len(b)) /\ Len(q) \in Nat /\ Len(b) \in Nat
    BY <1>2, <1>8, <2>5 DEF LaysOver
  <2> QED BY <2>6, GlobIs
<1> QED BY <1>8, <1>9, <1>10 DEF Cat

\* A pattern without a star matches itself only.
LEMMA PlainGlob ==
  ASSUME NEW D, NEW p \in Seq(D), Free(p, Star), NEW t \in Seq(D), Glob(p, t)
  PROVE  t = p
<1>1. PICK m \in Nat, l \in Nat : m = Len(p) /\ l = Len(t)
  BY LenProperties
<1>2. PICK f : Laid(p, t, m, l, f)
  BY <1>1, GlobIs DEF LaysOver
<1>3. /\ f[0] = 0 /\ f[m] = l /\ \A k \in 0..m : f[k] \in 0..l
      /\ \A k \in 1..m : f[k] = f[k - 1] + 1 /\ p[k] = t[f[k]]
  BY <1>1, <1>2 DEF Laid, Free
<1> DEFINE T == {k \in Nat : k <= m => f[k] = k}
<1>4. 0 \in T
  BY <1>3
<1>5. ASSUME NEW k \in Nat, k \in T PROVE k + 1 \in T
  <2> SUFFICES ASSUME k + 1 <= m PROVE f[k + 1] = k + 1
    OBVIOUS
  <2>1. k + 1 \in 1..m /\ (k + 1) - 1 = k /\ k <= m
    OBVIOUS
  <2>2. f[k + 1] = f[(k + 1) - 1] + 1
    BY <1>3, <2>1
  <2> QED BY <1>5, <2>1, <2>2
<1> HIDE DEF T
<1>6. Nat \subseteq T
  BY <1>4, <1>5, NatSetInduction
<1>7. \A k \in 1..m : f[k] = k
  BY <1>6 DEF T
<1>8. l = m
  <2>1. m \in T
    BY <1>6
  <2> QED BY <1>3, <2>1 DEF T
<1>9. \A k \in 1..m : t[k] = p[k]
  BY <1>3, <1>7
<1> QED BY <1>1, <1>8, <1>9, SeqEqual

-----------------------------------------------------------------------------
(* Joined words.                                                           *)

FlattenEquation(f, seqs, n) ==
  f = [i \in 1..n |-> IF i = 1 THEN seqs[i] ELSE f[i - 1] \o seqs[i]]

\* A flattened sequence of sequences, one more of them at a time.
LEMMA FlattenSteps ==
  ASSUME NEW seqs, Len(seqs) \in Nat \ {0}
  PROVE  \E f : /\ FlattenSeq(seqs) = f[Len(seqs)] /\ f[1] = seqs[1]
                /\ \A i \in 2..Len(seqs) : f[i] = f[i - 1] \o seqs[i]
<1> DEFINE T == {n \in Nat : \E f : FlattenEquation(f, seqs, n)}
<1>1. 0 \in T
  <2>1. FlattenEquation(<<>>, seqs, 0)
    BY DEF FlattenEquation
  <2> QED BY <2>1
<1>2. ASSUME NEW n \in Nat, n \in T PROVE n + 1 \in T
  <2>1. PICK f : FlattenEquation(f, seqs, n)
    BY <1>2
  <2> DEFINE Next1(g, i) == IF i = 1 THEN seqs[i] ELSE g[i - 1] \o seqs[i]
             h == [i \in 1..(n + 1) |-> Next1(f, i)]
  <2>2. ASSUME NEW i \in 1..(n + 1), i # 1 PROVE h[i - 1] = f[i - 1]
    <3>1. i - 1 \in 1..n /\ i - 1 \in 1..(n + 1)
      BY <2>2
    <3>2. f[i - 1] = Next1(f, i - 1)
      BY <2>1, <3>1 DEF FlattenEquation
    <3>3. h[i - 1] = Next1(f, i - 1)
      <4> HIDE DEF Next1
      <4> QED BY <3>1
    <3> QED BY <3>2, <3>3
  <2>3. ASSUME NEW i \in 1..(n + 1) PROVE h[i] = Next1(h, i)
    <3>1. h[i] = Next1(f, i)
      OBVIOUS
    <3> HIDE DEF h
    <3> QED BY <2>2, <3>1
  <2>4. h = [i \in 1..(n + 1) |-> h[i]]
    OBVIOUS
  <2>5. FlattenEquation(h, seqs, n + 1)
    <3> HIDE DEF h
    <3> QED BY <2>3, <2>4 DEF FlattenEquation
  <2> QED BY <2>5
<1> HIDE DEF T
<1>3. Nat \subseteq T
  BY <1>1, <1>2, NatSetInduction
<1>4. \E f : FlattenEquation(f, seqs, Len(seqs))
  BY <1>3 DEF T
<1> DEFINE m == CHOOSE f : FlattenEquation(f, seqs, Len(seqs))
<1>5. FlattenSeq(seqs) = m[Len(seqs)]
  BY DEF FlattenSeq, FlattenEquation
<1>6. FlattenEquation(m, seqs, Len(seqs))
  BY <1>4
<1> HIDE DEF m
<1>7. m[1] = seqs[1] /\ \A i \in 2..Len(seqs) : m[i] = m[i - 1] \o seqs[i]
  <2>1. ASSUME NEW i \in 1..Len(seqs) PROVE m[i] = IF i = 1 THEN seqs[i] ELSE m[i - 1] \o seqs[i]
    BY <1>6 DEF FlattenEquation
  <2>2. 1 \in 1..Len(seqs) /\ \A i \in 2..Len(seqs) : i \in 1..Len(seqs) /\ i # 1
    OBVIOUS
  <2> QED BY <2>1, <2>2
<1> QED BY <1>5, <1>7

Spaced(ws) == FlattenSeq([i \in DOMAIN ws |-> <<Space>> \o ws[i]])

\* A word behind a space.
LEMMA OneBlock ==
  ASSUME NEW D, Space \in D, NEW w \in Seq(D)
  PROVE  LET b == <<Space>> \o w
         IN b \in Seq(D) /\ Len(b) = 1 + Len(w) /\ b[1] = Space /\ \A x \in 1..Len(w) : b[1 + x] = w[x]
<1>1. <<Space>> \in Seq(D) /\ Len(<<Space>>) = 1
  OBVIOUS
<1> QED BY <1>1, ConcatProperties, LenProperties

\* A word of a sequence of texts is a text.
LEMMA LenOfWord ==
  ASSUME NEW D, NEW ws \in Seq(Seq(D)), NEW k \in 1..Len(ws)
  PROVE  ws[k] \in Seq(D) /\ Len(ws[k]) \in Nat
<1>1. ws[k] \in Seq(D)
  OBVIOUS
<1> QED BY <1>1, LenProperties

\* Spaced words, one more at a time.
LEMMA SpacedSteps ==
  ASSUME NEW D, NEW ws \in Seq(Seq(D)), ws # <<>>
  PROVE  \E f : /\ Spaced(ws) = f[Len(ws)] /\ f[1] = <<Space>> \o ws[1]
                /\ \A i \in 2..Len(ws) : f[i] = f[i - 1] \o (<<Space>> \o ws[i])
<1> DEFINE seqs == [i \in DOMAIN ws |-> <<Space>> \o ws[i]]
<1>1. Len(ws) \in Nat \ {0} /\ DOMAIN ws = 1..Len(ws)
  BY EmptySeq, LenProperties
<1>2. Len(seqs) = Len(ws) /\ \A i \in 1..Len(ws) : seqs[i] = <<Space>> \o ws[i]
  BY <1>1
<1>3. PICK f : /\ FlattenSeq(seqs) = f[Len(seqs)] /\ f[1] = seqs[1]
               /\ \A i \in 2..Len(seqs) : f[i] = f[i - 1] \o seqs[i]
  <2> HIDE DEF seqs
  <2> QED BY <1>1, <1>2, FlattenSteps
<1>4. Spaced(ws) = FlattenSeq(seqs)
  BY DEF Spaced
<1> HIDE DEF seqs
<1>5. 1 \in 1..Len(ws) /\ \A i \in 2..Len(ws) : i \in 1..Len(ws)
  BY <1>1
<1>6. /\ Spaced(ws) = f[Len(ws)] /\ f[1] = <<Space>> \o ws[1]
      /\ \A i \in 2..Len(ws) : f[i] = f[i - 1] \o (<<Space>> \o ws[i])
  <2>1. Spaced(ws) = f[Len(ws)]
    BY <1>2, <1>3, <1>4
  <2>2. f[1] = <<Space>> \o ws[1]
    BY <1>2, <1>3, <1>5
  <2>3. ASSUME NEW i \in 2..Len(ws) PROVE f[i] = f[i - 1] \o (<<Space>> \o ws[i])
    <3>1. f[i] = f[i - 1] \o seqs[i]
      BY <1>2, <1>3
    <3>2. seqs[i] = <<Space>> \o ws[i]
      BY <1>2, <1>5
    <3> QED BY <3>1, <3>2
  <2> QED BY <2>1, <2>2, <2>3
<1> QED BY <1>6

\* A command without its program, word by word.
LEMMA TailIs ==
  ASSUME NEW W, NEW c \in Seq(W), c # <<>>
  PROVE  /\ Tail(c) \in Seq(W) /\ Len(c) \in Nat \ {0} /\ Len(Tail(c)) = Len(c) - 1
         /\ \A i \in 1..(Len(c) - 1) : Tail(c)[i] = c[i + 1]
BY EmptySeq, LenProperties, HeadTailProperties

\* A text that begins with a space.
LEMMA SpaceFirst ==
  ASSUME NEW D, Space \in D, NEW z \in Seq(D), z # <<>>, z[1] = Space
  PROVE  \E q \in Seq(D) : z = Cat(Blank, q)
<1>1. Len(z) \in Nat \ {0}
  BY EmptySeq, LenProperties
<1>2. PICK j \in 0..Len(z) : j = 1
  BY <1>1
<1>3. PICK a \in Seq(D), q \in Seq(D) : z = a \o q /\ Len(a) = j /\ \A i \in 1..j : a[i] = z[i]
  BY Cut
<1>4. a = Blank
  <2> DEFINE s == <<Space>>
  <2>1. s \in Seq(D) /\ Len(s) = 1 /\ s[1] = Space
    OBVIOUS
  <2> HIDE DEF s
  <2>2. \A i \in 1..1 : a[i] = z[i] /\ i = 1
    BY <1>2, <1>3
  <2>3. Len(a) = 1 /\ \A i \in 1..1 : a[i] = s[i]
    BY <1>2, <1>3, <2>1, <2>2
  <2>4. a = s
    BY <2>1, <2>3, SeqEqual
  <2> QED BY <2>4 DEF s, Blank
<1> QED BY <1>3, <1>4 DEF Cat

\* Spaced words are a text that begins with a space.
LEMMA SpacedBegins ==
  ASSUME NEW D, Space \in D, NEW ws \in Seq(Seq(D)), ws # <<>>
  PROVE  Spaced(ws) \in Seq(D) /\ Spaced(ws) # <<>> /\ Spaced(ws)[1] = Space
<1>1. PICK f : /\ Spaced(ws) = f[Len(ws)] /\ f[1] = <<Space>> \o ws[1]
               /\ \A i \in 2..Len(ws) : f[i] = f[i - 1] \o (<<Space>> \o ws[i])
  BY SpacedSteps
<1>2. Len(ws) \in Nat \ {0}
  BY EmptySeq, LenProperties
<1>3. ASSUME NEW i \in 1..Len(ws) PROVE \E b \in Seq(D) : b = <<Space>> \o ws[i] /\ Len(b) \in Nat \ {0} /\ b[1] = Space
  <2>1. PICK w \in Seq(D) : w = ws[i] /\ Len(w) \in Nat
    BY LenOfWord
  <2> DEFINE b == <<Space>> \o w
  <2>2. b \in Seq(D) /\ Len(b) = 1 + Len(w) /\ b[1] = Space
    BY OneBlock
  <2> HIDE DEF b
  <2>3. Len(b) \in Nat \ {0}
    BY <2>1, <2>2
  <2> QED BY <2>1, <2>2, <2>3 DEF b
<1> DEFINE T == {n \in Nat : n + 1 <= Len(ws) => f[n + 1] \in Seq(D) /\ Len(f[n + 1]) \in Nat \ {0} /\ f[n + 1][1] = Space}
<1>4. 0 \in T
  <2>1. 1 \in 1..Len(ws) /\ 0 + 1 = 1
    BY <1>2
  <2> QED BY <1>1, <1>3, <2>1
<1>5. ASSUME NEW n \in Nat, n \in T PROVE n + 1 \in T
  <2> SUFFICES ASSUME (n + 1) + 1 <= Len(ws)
               PROVE  f[(n + 1) + 1] \in Seq(D) /\ Len(f[(n + 1) + 1]) \in Nat \ {0} /\ f[(n + 1) + 1][1] = Space
    OBVIOUS
  <2>1. PICK i \in 1..Len(ws) : i = (n + 1) + 1 /\ i - 1 = n + 1 /\ i \in 2..Len(ws) /\ n + 1 <= Len(ws)
    BY <1>2
  <2>2. PICK b \in Seq(D) : b = <<Space>> \o ws[i]
    BY <1>3
  <2>3. PICK a \in Seq(D) : a = f[n + 1] /\ Len(a) \in Nat \ {0} /\ a[1] = Space
    BY <1>5, <2>1
  <2>4. f[i] = a \o b
    BY <1>1, <2>1, <2>2, <2>3
  <2>5. a \o b \in Seq(D) /\ Len(a \o b) = Len(a) + Len(b) /\ Len(b) \in Nat /\ \A k \in 1..Len(a) : (a \o b)[k] = a[k]
    BY Parts
  <2>6. 1 \in 1..Len(a) /\ Len(a) + Len(b) \in Nat \ {0}
    BY <2>3, <2>5
  <2> QED BY <2>1, <2>3, <2>4, <2>5, <2>6
<1> HIDE DEF T
<1>6. PICK n \in Nat : n + 1 = Len(ws)
  <2>1. Len(ws) - 1 \in Nat /\ (Len(ws) - 1) + 1 = Len(ws)
    BY <1>2
  <2> QED BY <2>1
<1>7. n \in T
  BY <1>4, <1>5, NatSetInduction
<1>8. n + 1 <= Len(ws)
  BY <1>6
<1>9. f[n + 1] \in Seq(D) /\ Len(f[n + 1]) \in Nat \ {0} /\ f[n + 1][1] = Space
  BY <1>7, <1>8 DEF T
<1> QED BY <1>1, <1>6, <1>9, EmptySeq

\* Spaced words are joined words behind one space.
LEMMA SpacedIsJoin ==
  ASSUME NEW D, Space \in D, NEW ws \in Seq(Seq(D)), ws # <<>>
  PROVE  /\ Join(ws) \in Seq(D) /\ Spaced(ws) \in Seq(D)
         /\ Spaced(ws) = <<Space>> \o Join(ws)
<1> DEFINE t == Spaced(ws)
<1>1. t \in Seq(D) /\ t # <<>> /\ t[1] = Space
  BY SpacedBegins
<1>2. Join(ws) = Tail(t)
  BY DEF Join, Spaced
<1> HIDE DEF t
<1>3. PICK q \in Seq(D) : t = Cat(Blank, q)
  BY <1>1, SpaceFirst
<1>4. Tail(t) = q
  <2>1. Len(t) = 1 + Len(q) /\ \A i \in 1..Len(q) : t[1 + i] = q[i]
    BY <1>3, OneBlock DEF Cat, Blank
  <2>2. Tail(t) \in Seq(D) /\ Len(t) \in Nat \ {0} /\ Len(Tail(t)) = Len(t) - 1 /\ \A i \in 1..(Len(t) - 1) : Tail(t)[i] = t[i + 1]
    BY <1>1, TailIs
  <2>3. PICK n \in Nat : n = Len(q)
    BY LenProperties
  <2>4. Len(t) - 1 = n /\ \A i \in 1..n : i + 1 = 1 + i
    BY <2>1, <2>3
  <2>5. Len(Tail(t)) = Len(q) /\ \A i \in 1..Len(Tail(t)) : Tail(t)[i] = q[i]
    BY <2>1, <2>2, <2>3, <2>4
  <2> QED BY <2>2, <2>5, SeqEqual
<1> QED BY <1>1, <1>2, <1>3, <1>4 DEF t, Cat, Blank

\* Joined words are a text.
LEMMA JoinText ==
  ASSUME NEW D, Space \in D, NEW ws \in Seq(Seq(D))
  PROVE  Join(ws) \in Seq(D) /\ Len(Join(ws)) \in Nat
<1>1. CASE ws = <<>>
  BY <1>1 DEF Join
<1>2. CASE ws # <<>>
  BY <1>2, SpacedIsJoin, LenProperties
<1> QED BY <1>1, <1>2

\* One joined word is the word.
LEMMA JoinOne ==
  ASSUME NEW D, Space \in D, NEW w \in Seq(D)
  PROVE  Join(<<w>>) = w
<1> DEFINE ws == <<w>>
<1>1. ws \in Seq(Seq(D)) /\ ws # <<>> /\ Len(ws) = 1 /\ ws[1] = w
  OBVIOUS
<1> HIDE DEF ws
<1>2. Spaced(ws) = <<Space>> \o w
  BY <1>1, SpacedSteps
<1>3. <<Space>> \o Join(ws) = <<Space>> \o w /\ Join(ws) \in Seq(D)
  BY <1>1, <1>2, SpacedIsJoin
<1>4. <<Space>> \in Seq(D)
  OBVIOUS
<1>5. Join(ws) = w
  BY <1>3, <1>4, ConcatSimplifications
<1> QED BY <1>5 DEF ws

\* Spaced words one after the other are the words spaced together.
LEMMA SpacedTogether ==
  ASSUME NEW D, Space \in D, NEW u \in Seq(Seq(D)), NEW v \in Seq(Seq(D)), u # <<>>, v # <<>>
  PROVE  Spaced(u \o v) = Spaced(u) \o Spaced(v)
<1> DEFINE w == u \o v
<1>1. PICK m \in Nat, n \in Nat : m + 1 = Len(u) /\ n + 1 = Len(v)
  <2>1. Len(u) \in Nat \ {0} /\ Len(v) \in Nat \ {0}
    BY EmptySeq, LenProperties
  <2>2. Len(u) - 1 \in Nat /\ Len(v) - 1 \in Nat /\ (Len(u) - 1) + 1 = Len(u) /\ (Len(v) - 1) + 1 = Len(v)
    BY <2>1
  <2> QED BY <2>2
<1>2. /\ w \in Seq(Seq(D)) /\ Len(w) = Len(u) + Len(v)
      /\ \A i \in 1..Len(u) : w[i] = u[i]
      /\ \A i \in 1..Len(v) : w[Len(u) + i] = v[i]
  BY Parts
<1>3. w # <<>>
  <2>1. Len(w) # 0
    BY <1>1, <1>2
  <2> QED BY <1>2, <2>1, EmptySeq
<1> HIDE DEF w
<1>4. PICK f : /\ Spaced(u) = f[Len(u)] /\ f[1] = <<Space>> \o u[1]
               /\ \A i \in 2..Len(u) : f[i] = f[i - 1] \o (<<Space>> \o u[i])
  BY SpacedSteps
<1>5. PICK g : /\ Spaced(v) = g[Len(v)] /\ g[1] = <<Space>> \o v[1]
               /\ \A i \in 2..Len(v) : g[i] = g[i - 1] \o (<<Space>> \o v[i])
  BY SpacedSteps
<1>6. PICK h : /\ Spaced(w) = h[Len(w)] /\ h[1] = <<Space>> \o w[1]
               /\ \A i \in 2..Len(w) : h[i] = h[i - 1] \o (<<Space>> \o w[i])
  BY <1>2, <1>3, SpacedSteps
<1> DEFINE T == {k \in Nat : k <= m => h[k + 1] = f[k + 1]}
<1>7. 0 \in T
  <2>1. w[1] = u[1]
    <3>1. 1 \in 1..Len(u)
      BY <1>1
    <3> QED BY <1>2, <3>1
  <2>2. h[1] = f[1] /\ 0 + 1 = 1
    BY <1>4, <1>6, <2>1
  <2> QED BY <2>2
<1>8. ASSUME NEW k \in Nat, k \in T PROVE k + 1 \in T
  <2> SUFFICES ASSUME k + 1 <= m PROVE h[(k + 1) + 1] = f[(k + 1) + 1]
    OBVIOUS
  <2>1. PICK i \in Nat : i = (k + 1) + 1 /\ i - 1 = k + 1
    OBVIOUS
  <2>2. i \in 2..Len(u) /\ i \in 1..Len(u) /\ i \in 2..Len(w) /\ k <= m
    BY <1>1, <1>2, <2>1
  <2>3. h[i - 1] = f[i - 1]
    BY <1>8, <2>1, <2>2
  <2>4. w[i] = u[i]
    BY <1>2, <2>2
  <2>5. h[i] = h[i - 1] \o (<<Space>> \o w[i]) /\ f[i] = f[i - 1] \o (<<Space>> \o u[i])
    BY <1>4, <1>6, <2>2
  <2> QED BY <2>1, <2>3, <2>4, <2>5
<1> HIDE DEF T
<1>9. h[m + 1] = Spaced(u)
  <2>1. Nat \subseteq T
    BY <1>7, <1>8, NatSetInduction
  <2>2. m \in T
    BY <2>1
  <2> QED BY <1>1, <1>4, <2>2 DEF T
<1>10. PICK s \in Seq(D) : s = Spaced(u)
  BY SpacedIsJoin
<1> DEFINE R == {k \in Nat : k <= n => g[k + 1] \in Seq(D) /\ h[Len(u) + (k + 1)] = s \o g[k + 1]}
<1>11. ASSUME NEW i \in 1..Len(v) PROVE v[i] \in Seq(D) /\ <<Space>> \o v[i] \in Seq(D)
  BY LenOfWord, OneBlock
<1>12. 0 \in R
  <2>1. 1 \in 1..Len(v) /\ Len(u) + 1 \in 2..Len(w) /\ (Len(u) + 1) - 1 = m + 1
    BY <1>1, <1>2
  <2>2. w[Len(u) + 1] = v[1]
    BY <1>2, <2>1
  <2>3. h[Len(u) + 1] = h[m + 1] \o (<<Space>> \o v[1])
    BY <1>6, <2>1, <2>2
  <2> DEFINE b == <<Space>> \o v[1]
  <2>4. b \in Seq(D) /\ g[1] = b /\ h[Len(u) + 1] = s \o b
    BY <1>5, <1>9, <1>10, <1>11, <2>1, <2>3
  <2> HIDE DEF b
  <2>5. 0 + 1 = 1
    OBVIOUS
  <2> QED BY <2>4, <2>5
<1>13. ASSUME NEW k \in Nat, k \in R PROVE k + 1 \in R
  <2> SUFFICES ASSUME k + 1 <= n
               PROVE  g[(k + 1) + 1] \in Seq(D) /\ h[Len(u) + ((k + 1) + 1)] = s \o g[(k + 1) + 1]
    OBVIOUS
  <2>1. PICK i \in Nat : i = (k + 1) + 1 /\ i - 1 = k + 1
    OBVIOUS
  <2>2. i \in 2..Len(v) /\ i \in 1..Len(v) /\ Len(u) + i \in 2..Len(w) /\ (Len(u) + i) - 1 = Len(u) + (k + 1) /\ k <= n
    BY <1>1, <1>2, <2>1
  <2> DEFINE b == <<Space>> \o v[i]
             a == g[i - 1]
  <2>3. a \in Seq(D) /\ h[Len(u) + (k + 1)] = s \o a
    BY <1>13, <2>1, <2>2
  <2>4. b \in Seq(D)
    BY <1>11, <2>2
  <2>5. w[Len(u) + i] = v[i]
    BY <1>2, <2>2
  <2>6. h[Len(u) + i] = (s \o a) \o b
    BY <1>6, <2>2, <2>3, <2>5
  <2>7. g[i] = a \o b
    BY <1>5, <2>2
  <2> HIDE DEF a, b
  <2>8. a \o b \in Seq(D) /\ (s \o a) \o b = s \o (a \o b)
    <3>1. a \o b \in Seq(D)
      BY <2>3, <2>4, ConcatProperties
    <3>2. Cat(Cat(s, a), b) = Cat(s, Cat(a, b))
      BY <2>3, <2>4, Texts
    <3>3. (s \o a) \o b = s \o (a \o b)
      BY <3>2 DEF Cat
    <3> QED BY <3>1, <3>3
  <2>9. g[i] \in Seq(D) /\ h[Len(u) + i] = s \o g[i]
    BY <2>6, <2>7, <2>8
  <2> QED BY <2>1, <2>9
<1> HIDE DEF R
<1>14. h[Len(w)] = s \o Spaced(v)
  <2>1. Nat \subseteq R
    BY <1>12, <1>13, NatSetInduction
  <2>2. n \in R /\ n <= n
    BY <2>1
  <2>3. h[Len(u) + (n + 1)] = s \o g[n + 1]
    BY <2>2 DEF R
  <2>4. Len(u) + (n + 1) = Len(w) /\ g[n + 1] = Spaced(v)
    BY <1>1, <1>2, <1>5
  <2> QED BY <2>3, <2>4
<1> QED BY <1>6, <1>10, <1>14 DEF w

\* Two texts with a space between them.
Between(a, b) == Cat(a, Cat(Blank, b))

\* Words joined in two parts have a space between the parts.
LEMMA JoinTogether ==
  ASSUME NEW D, Space \in D, NEW u \in Seq(Seq(D)), NEW v \in Seq(Seq(D)), u # <<>>, v # <<>>
  PROVE  /\ Join(u \o v) = Between(Join(u), Join(v))
         /\ Join(u) \in Seq(D) /\ Join(v) \in Seq(D)
<1> DEFINE a == Join(u)
           b == Join(v)
           c == Join(u \o v)
<1>1. a \in Seq(D) /\ b \in Seq(D) /\ Spaced(u) = Cat(Blank, a) /\ Spaced(v) = Cat(Blank, b)
  BY SpacedIsJoin DEF Cat, Blank
<1>2. c \in Seq(D) /\ Spaced(u \o v) = Cat(Blank, c)
  <2>1. u \o v \in Seq(Seq(D)) /\ u \o v # <<>>
    BY ConcatProperties, ConcatEqualIffEmpty
  <2> QED BY <2>1, SpacedIsJoin DEF Cat, Blank
<1>3. Spaced(u \o v) = Cat(Spaced(u), Spaced(v))
  BY SpacedTogether DEF Cat
<1>4. Blank \in Seq(D)
  BY DEF Blank
<1> HIDE DEF a, b, c
<1>5. Cat(Blank, c) = Cat(Cat(Blank, a), Cat(Blank, b))
  BY <1>1, <1>2, <1>3
<1>6. c = Cat(a, Cat(Blank, b))
  BY <1>1, <1>2, <1>4, <1>5, Texts
<1> QED BY <1>1, <1>6 DEF a, b, c, Between

\* Spaces between texts.
LEMMA BetweenIs ==
  ASSUME NEW D, Space \in D, NEW a \in Seq(D), NEW b \in Seq(D)
  PROVE  /\ Between(a, b) \in Seq(D) /\ Cat(Blank, b) \in Seq(D) /\ Blank \in Seq(D)
         /\ \A c \in Seq(D) : /\ Between(Between(a, b), c) = Between(a, Between(b, c))
                              /\ Cat(c, Between(a, b)) = Between(Cat(c, a), b)
                              /\ Cat(Between(a, b), c) = Between(a, Cat(b, c))
<1>1. Blank \in Seq(D)
  BY DEF Blank
<1> DEFINE e == Cat(Blank, b)
<1>2. e \in Seq(D) /\ Cat(a, e) \in Seq(D)
  BY <1>1, Texts
<1>3. Between(a, b) = Cat(a, e)
  BY DEF Between
<1> HIDE DEF e
<1>4. ASSUME NEW c \in Seq(D)
      PROVE  /\ Between(Between(a, b), c) = Between(a, Between(b, c))
             /\ Cat(c, Between(a, b)) = Between(Cat(c, a), b)
             /\ Cat(Between(a, b), c) = Between(a, Cat(b, c))
  <2> DEFINE f == Cat(Blank, c)
  <2>1. f \in Seq(D)
    BY <1>1, Texts
  <2>2. Between(Between(a, b), c) = Cat(Cat(a, e), f) /\ Between(b, c) = Cat(b, f)
    BY <1>3 DEF Between
  <2> HIDE DEF f
  <2>3. Cat(Cat(a, e), f) = Cat(a, Cat(e, f))
    BY <1>2, <2>1, Texts
  <2>4. Cat(e, f) = Cat(Blank, Cat(b, f)) /\ Cat(e, c) = Cat(Blank, Cat(b, c))
    BY <1>1, <2>1, Texts DEF e
  <2>5. Between(a, Between(b, c)) = Cat(a, Cat(e, f))
    BY <2>2, <2>4 DEF Between
  <2>6. Cat(c, Cat(a, e)) = Cat(Cat(c, a), e) /\ Between(Cat(c, a), b) = Cat(Cat(c, a), e)
    <3>1. Cat(c, Cat(a, e)) = Cat(Cat(c, a), e)
      BY <1>2, Texts
    <3>2. Between(Cat(c, a), b) = Cat(Cat(c, a), e)
      BY DEF Between, e
    <3> QED BY <3>1, <3>2
  <2>7. Cat(Cat(a, e), c) = Cat(a, Cat(e, c))
    BY <1>2, Texts
  <2>8. Between(a, Cat(b, c)) = Cat(a, Cat(e, c))
    BY <2>4 DEF Between
  <2> QED BY <1>3, <2>2, <2>3, <2>5, <2>6, <2>7, <2>8
<1>5. Between(a, b) \in Seq(D) /\ Cat(Blank, b) \in Seq(D)
  BY <1>2, <1>3 DEF e
<1> QED BY <1>1, <1>4, <1>5

\* A space is no star.
LEMMA BlankIs ==
  ASSUME NEW D, Space \in D
  PROVE  Blank \in Seq(D) /\ Free(Blank, Star)
<1>1. Blank \in Seq(D) /\ Len(Blank) = 1 /\ Blank[1] = Space
  BY DEF Blank
<1>2. Space # Star
  BY DEF Space, Star
<1>3. \A i \in 1..1 : i = 1
  OBVIOUS
<1> QED BY <1>1, <1>2, <1>3 DEF Free

\* Words up to a place.
UpTo(c, j) == SubSeq(c, 1, j)

\* Words joined up to a place, and from there on.
LEMMA JoinCut ==
  ASSUME NEW D, Space \in D, NEW c \in Seq(Seq(D)), NEW j \in 1..Len(c)
  PROVE  /\ UpTo(c, j) \in Seq(Seq(D)) /\ UpTo(c, j) # <<>> /\ Len(UpTo(c, j)) = j
         /\ \A i \in 1..j : UpTo(c, j)[i] = c[i]
         /\ Join(UpTo(c, j)) \in Seq(D)
         /\ From(c, j + 1) \in Seq(Seq(D)) /\ Len(From(c, j + 1)) = Len(c) - j
         /\ \A i \in 1..(Len(c) - j) : From(c, j + 1)[i] = c[j + i]
         /\ j = Len(c) => UpTo(c, j) = c
         /\ j < Len(c) => /\ From(c, j + 1) # <<>> /\ Join(From(c, j + 1)) \in Seq(D)
                          /\ Join(c) = Between(Join(UpTo(c, j)), Join(From(c, j + 1)))
<1> DEFINE u == SubSeq(c, 1, j)
           v == SubSeq(c, j + 1, Len(c))
<1>1. PICK n \in Nat : n = Len(c)
  BY LenProperties
<1>2. j \in Nat /\ j # 0 /\ j <= n /\ j \in 0..Len(c)
  BY <1>1
<1>3. /\ c = u \o v /\ u \in Seq(Seq(D)) /\ Len(u) = j
      /\ v \in Seq(Seq(D)) /\ Len(v) = Len(c) - j
      /\ \A i \in 1..j : u[i] = c[i]
      /\ \A i \in 1..(Len(c) - j) : v[i] = c[j + i]
  BY <1>2, Cut
<1>4. j = Len(c) => u = c
  BY SubSeqFull
<1> HIDE DEF u, v
<1>5. u # <<>>
  BY <1>2, <1>3, EmptySeq
<1>6. Join(u) \in Seq(D)
  BY <1>3, <1>5, SpacedIsJoin
<1>7. ASSUME j < Len(c)
      PROVE  v # <<>> /\ Join(v) \in Seq(D) /\ Join(c) = Between(Join(u), Join(v))
  <2>1. Len(v) # 0
    BY <1>1, <1>2, <1>3, <1>7
  <2>2. v # <<>>
    BY <1>3, <2>1, EmptySeq
  <2>3. Join(u \o v) = Between(Join(u), Join(v)) /\ Join(v) \in Seq(D)
    BY <1>3, <1>5, <2>2, JoinTogether
  <2> QED BY <1>3, <2>2, <2>3
<1> QED BY <1>3, <1>4, <1>5, <1>6, <1>7 DEF u, v, UpTo, From

\* The first of some joined words.
LEMMA JoinFirst ==
  ASSUME NEW D, Space \in D, NEW c \in Seq(Seq(D)), c # <<>>
  PROVE  /\ c[1] \in Seq(D) /\ Join(c) \in Seq(D) /\ Len(c) \in Nat \ {0}
         /\ Len(c) = 1 => Join(c) = c[1]
         /\ Len(c) # 1 =>
              /\ From(c, 2) \in Seq(Seq(D)) /\ From(c, 2) # <<>> /\ Join(From(c, 2)) \in Seq(D)
              /\ Len(From(c, 2)) = Len(c) - 1
              /\ \A i \in 1..(Len(c) - 1) : From(c, 2)[i] = c[1 + i]
              /\ Join(c) = Between(c[1], Join(From(c, 2)))
<1> DEFINE u == SubSeq(c, 1, 1)
           v == SubSeq(c, 2, Len(c))
<1>1. Len(c) \in Nat \ {0} /\ 1 \in 1..Len(c)
  BY EmptySeq, LenProperties
<1>2. PICK j \in 1..Len(c) : j = 1 /\ j + 1 = 2
  BY <1>1
<1>3. /\ u \in Seq(Seq(D)) /\ u # <<>> /\ Len(u) = 1 /\ (\A i \in 1..1 : u[i] = c[i]) /\ Join(u) \in Seq(D)
      /\ v \in Seq(Seq(D)) /\ Len(v) = Len(c) - 1 /\ (\A i \in 1..(Len(c) - 1) : v[i] = c[1 + i])
      /\ 1 = Len(c) => u = c
      /\ 1 < Len(c) => /\ v # <<>> /\ Join(v) \in Seq(D)
                       /\ Join(c) = Between(Join(u), Join(v))
  <2> DEFINE uu == UpTo(c, j)
             vv == From(c, j + 1)
  <2>1. /\ uu \in Seq(Seq(D)) /\ uu # <<>> /\ Len(uu) = j /\ (\A i \in 1..j : uu[i] = c[i]) /\ Join(uu) \in Seq(D)
        /\ vv \in Seq(Seq(D)) /\ Len(vv) = Len(c) - j /\ (\A i \in 1..(Len(c) - j) : vv[i] = c[j + i])
        /\ j = Len(c) => uu = c
        /\ j < Len(c) => /\ vv # <<>> /\ Join(vv) \in Seq(D)
                         /\ Join(c) = Between(Join(uu), Join(vv))
    BY JoinCut
  <2>2. uu = u /\ vv = v
    BY <1>2 DEF UpTo, From
  <2> HIDE DEF u, v, uu, vv
  <2> QED BY <1>2, <2>1, <2>2
<1> HIDE DEF u, v
<1>4. c[1] \in Seq(D)
  BY <1>1, LenOfWord
<1>5. PICK w \in Seq(D) : w = c[1]
  BY <1>4
<1> DEFINE s == <<w>>
<1>6. s \in Seq(Seq(D)) /\ Len(s) = 1 /\ s[1] = w /\ Join(s) = w
  BY JoinOne
<1> HIDE DEF s
<1>7. u = s
  <2>1. \A i \in 1..1 : u[i] = s[i]
    BY <1>3, <1>5, <1>6
  <2> QED BY <1>3, <1>6, <2>1, SeqEqual
<1>8. Join(u) = c[1]
  BY <1>5, <1>6, <1>7
<1>9. Join(c) \in Seq(D)
  BY SpacedIsJoin
<1>10. Len(c) # 1 => 1 < Len(c)
  <2>1. PICK n \in Nat \ {0} : n = Len(c)
    BY <1>1
  <2>2. n # 1 => 1 < n
    OBVIOUS
  <2> QED BY <2>1, <2>2
<1> QED BY <1>1, <1>3, <1>4, <1>8, <1>9, <1>10 DEF v, From

-----------------------------------------------------------------------------
(* Taking joined words apart.                                              *)

\* Some words, none of which has a space in it.
Worded(D, ws) == ws \in Seq(Seq(D)) /\ ws # <<>> /\ \A k \in 1..Len(ws) : Free(ws[k], Space)

\* Words in two parts are words in both.
LEMMA WordedParts ==
  ASSUME NEW D, NEW u \in Seq(Seq(D)), NEW v \in Seq(Seq(D)), u # <<>>, v # <<>>
  PROVE  /\ Worded(D, u \o v) <=> Worded(D, u) /\ Worded(D, v)
         /\ u \o v \in Seq(Seq(D)) /\ u \o v # <<>>
<1> DEFINE w == u \o v
<1>1. /\ w \in Seq(Seq(D)) /\ Len(u) \in Nat /\ Len(v) \in Nat /\ Len(w) = Len(u) + Len(v)
      /\ \A i \in 1..Len(u) : w[i] = u[i]
      /\ \A i \in 1..Len(v) : w[Len(u) + i] = v[i]
  BY Parts
<1>2. w # <<>>
  BY ConcatEqualIffEmpty
<1> HIDE DEF w
<1>3. PICK m \in Nat, n \in Nat : m = Len(u) /\ n = Len(v)
  BY <1>1
<1>4. ASSUME Worded(D, w) PROVE Worded(D, u) /\ Worded(D, v)
  <2>1. \A i \in 1..m : i \in 1..(m + n)
    OBVIOUS
  <2>2. \A i \in 1..n : m + i \in 1..(m + n)
    OBVIOUS
  <2>3. \A k \in 1..(m + n) : Free(w[k], Space)
    BY <1>1, <1>3, <1>4 DEF Worded
  <2>4. \A i \in 1..m : Free(u[i], Space)
    BY <1>1, <1>3, <2>1, <2>3
  <2>5. \A i \in 1..n : Free(v[i], Space)
    BY <1>1, <1>3, <2>2, <2>3
  <2> QED BY <1>3, <2>4, <2>5 DEF Worded
<1>5. ASSUME Worded(D, u), Worded(D, v) PROVE Worded(D, w)
  <2>1. (\A i \in 1..m : Free(u[i], Space)) /\ \A i \in 1..n : Free(v[i], Space)
    BY <1>3, <1>5 DEF Worded
  <2>2. ASSUME NEW k \in 1..(m + n) PROVE Free(w[k], Space)
    <3>1. CASE k <= m
      <4>1. k \in 1..m
        BY <3>1
      <4> QED BY <1>1, <1>3, <2>1, <4>1
    <3>2. CASE ~(k <= m)
      <4>1. PICK i \in 1..n : k = m + i
        <5>1. k - m \in 1..n /\ k = m + (k - m)
          BY <3>2
        <5> QED BY <5>1
      <4> QED BY <1>1, <1>3, <2>1, <4>1
    <3> QED BY <3>1, <3>2
  <2> QED BY <1>1, <1>2, <1>3, <2>2 DEF Worded
<1> QED BY <1>1, <1>2, <1>4, <1>5 DEF w

\* One word.
LEMMA OneWord ==
  ASSUME NEW D, Space \in D, NEW w \in Seq(D), Free(w, Space)
  PROVE  Worded(D, <<w>>) /\ <<w>> \in Seq(Seq(D)) /\ <<w>> # <<>> /\ Len(<<w>>) = 1 /\ <<w>>[1] = w /\ Join(<<w>>) = w
<1> DEFINE s == <<w>>
<1>1. s \in Seq(Seq(D)) /\ s # <<>> /\ Len(s) = 1 /\ s[1] = w
  OBVIOUS
<1>2. Join(s) = w
  BY JoinOne
<1> HIDE DEF s
<1>3. \A k \in 1..Len(s) : Free(s[k], Space)
  <2> SUFFICES ASSUME NEW k \in 1..Len(s) PROVE Free(s[k], Space)
    OBVIOUS
  <2>1. k = 1
    BY <1>1
  <2> QED BY <1>1, <2>1
<1> QED BY <1>1, <1>2, <1>3 DEF Worded, s

\* A word in front of others.
LEMMA WordBefore ==
  ASSUME NEW D, Space \in D, NEW w \in Seq(D), Free(w, Space), NEW r, Worded(D, r)
  PROVE  /\ Worded(D, <<w>> \o r) /\ <<w>> \o r # <<>> /\ Join(r) \in Seq(D)
         /\ Join(<<w>> \o r) = Between(w, Join(r)) /\ Len(<<w>> \o r) = 1 + Len(r)
<1> DEFINE s == <<w>>
<1>1. Worded(D, s) /\ s \in Seq(Seq(D)) /\ s # <<>> /\ Len(s) = 1 /\ Join(s) = w
  BY OneWord
<1> HIDE DEF s
<1>2. r \in Seq(Seq(D)) /\ r # <<>>
  BY DEF Worded
<1>3. Worded(D, s \o r) /\ s \o r # <<>>
  BY <1>1, <1>2, WordedParts
<1>4. Join(s \o r) = Between(Join(s), Join(r)) /\ Join(r) \in Seq(D)
  BY <1>1, <1>2, JoinTogether
<1>5. Len(s \o r) = Len(s) + Len(r)
  BY <1>1, <1>2, Parts
<1> QED BY <1>1, <1>3, <1>4, <1>5 DEF s

\* Words behind a first one.
Headed(D, ws, w) == \E r : /\ Worded(D, r) /\ ws = <<w>> \o r /\ Len(r) + 1 = Len(ws) /\ Join(r) \in Seq(D)
                           /\ Join(ws) = Between(w, Join(r))

\* The first of some words, and the others if there are any.
LEMMA FirstWord ==
  ASSUME NEW D, Space \in D, NEW ws, Worded(D, ws)
  PROVE  /\ ws[1] \in Seq(D) /\ Free(ws[1], Space) /\ Len(ws) \in Nat
         /\ (ws = <<ws[1]>> /\ Join(ws) = ws[1] /\ Len(ws) = 1) \/ Headed(D, ws, ws[1])
<1> DEFINE w == ws[1]
<1>1. ws \in Seq(Seq(D)) /\ ws # <<>> /\ Len(ws) \in Nat \ {0} /\ 1 \in 1..Len(ws)
  BY EmptySeq, LenProperties DEF Worded
<1>2. w \in Seq(D) /\ Free(w, Space)
  BY <1>1, LenOfWord DEF Worded
<1> HIDE DEF w
<1> DEFINE s == <<w>>
<1>3. s \in Seq(Seq(D)) /\ s # <<>> /\ Len(s) = 1 /\ s[1] = w
  BY <1>2
<1>4. Join(s) = w
  BY <1>2, JoinOne
<1> HIDE DEF s
<1>5. CASE Len(ws) = 1
  <2>1. \A i \in 1..1 : s[i] = ws[i]
    BY <1>3 DEF w
  <2>2. ws = s
    BY <1>1, <1>3, <1>5, <2>1, SeqEqual
  <2> QED BY <1>1, <1>2, <1>4, <1>5, <2>2 DEF s, w
<1>6. CASE Len(ws) # 1
  <2>1. PICK j \in 0..Len(ws) : j = 1
    BY <1>1
  <2> DEFINE a == SubSeq(ws, 1, j)
             r == SubSeq(ws, j + 1, Len(ws))
  <2>2. /\ ws = a \o r /\ a \in Seq(Seq(D)) /\ Len(a) = j /\ \A i \in 1..j : a[i] = ws[i]
        /\ r \in Seq(Seq(D)) /\ Len(r) = Len(ws) - j
    BY <1>1, Cut
  <2> HIDE DEF a, r
  <2>3. /\ ws = a \o r /\ a \in Seq(Seq(D)) /\ Len(a) = 1 /\ \A i \in 1..1 : a[i] = ws[i]
        /\ r \in Seq(Seq(D)) /\ Len(r) = Len(ws) - 1
    BY <2>1, <2>2
  <2>4. a = s
    <3>1. \A i \in 1..1 : a[i] = s[i]
      BY <1>3, <2>3 DEF w
    <3> QED BY <1>3, <2>3, <3>1, SeqEqual
  <2>5. Len(r) + 1 = Len(ws) /\ Len(r) # 0
    <3>1. PICK n \in Nat : n = Len(ws) /\ n # 0 /\ n # 1
      BY <1>1, <1>6
    <3>2. n - 1 # 0 /\ (n - 1) + 1 = n
      BY <3>1
    <3> QED BY <2>3, <3>1, <3>2
  <2>6. r # <<>>
    BY <2>5, <2>3, EmptySeq
  <2>7. Worded(D, r)
    BY <1>3, <2>3, <2>4, <2>6, WordedParts
  <2>8. Join(s \o r) = Between(Join(s), Join(r)) /\ Join(r) \in Seq(D)
    BY <1>3, <2>3, <2>6, JoinTogether
  <2>9. ws = s \o r /\ Join(ws) = Between(w, Join(r))
    BY <1>4, <2>3, <2>4, <2>8
  <2> QED BY <1>1, <1>2, <2>5, <2>7, <2>8, <2>9 DEF s, w, Headed
<1> QED BY <1>5, <1>6

\* Where the space is.
LEMMA SpaceBetween ==
  ASSUME NEW D, Space \in D, NEW a \in Seq(D), NEW b \in Seq(D)
  PROVE  /\ Between(a, b) \in Seq(D) /\ Len(a) \in Nat /\ Len(b) \in Nat
         /\ Len(Between(a, b)) = Len(a) + (1 + Len(b))
         /\ Between(a, b)[Len(a) + 1] = Space
<1>1. PICK c \in Seq(D) : c = <<Space>> \o b /\ Len(c) = 1 + Len(b) /\ c[1] = Space
  BY OneBlock
<1>2. Len(a) \in Nat /\ Len(b) \in Nat /\ 1 \in 1..Len(c)
  BY <1>1, LenProperties
<1>3. a \o c \in Seq(D) /\ Len(a \o c) = Len(a) + Len(c)
  BY Parts
<1>4. \A i \in 1..Len(c) : (a \o c)[Len(a) + i] = c[i]
  BY Parts
<1>5. (a \o c)[Len(a) + 1] = Space
  BY <1>1, <1>2, <1>4
<1>6. Between(a, b) = a \o c
  BY <1>1 DEF Between, Cat, Blank
<1> QED BY <1>1, <1>2, <1>3, <1>5, <1>6

\* The first character of a text is that of its first part.
LEMMA FirstOf ==
  ASSUME NEW D, NEW z \in Seq(D), z # <<>>, NEW y \in Seq(D)
  PROVE  Cat(z, y)[1] = z[1]
<1>1. 1 \in 1..Len(z)
  BY EmptySeq, LenProperties
<1> QED BY <1>1, Parts DEF Cat

\* A text without spaces is no part before a space of another one.
LEMMA FirstSpace ==
  ASSUME NEW D, Space \in D, NEW w \in Seq(D), NEW v \in Seq(D), Free(v, Space), NEW x \in Seq(D)
  PROVE  /\ Between(w, x) # v
         /\ \A y \in Seq(D) : Between(w, x) = Between(v, y) =>
              \/ w = v /\ x = y
              \/ \E z \in Seq(D) : w = Between(v, z) /\ y = Between(z, x)
<1> DEFINE b == Between(w, x)
<1>1. b \in Seq(D) /\ Len(b) = Len(w) + (1 + Len(x)) /\ b[Len(w) + 1] = Space /\ Len(w) \in Nat /\ Len(x) \in Nat
  BY SpaceBetween
<1>2. PICK m \in Nat, n \in Nat, l \in Nat : m = Len(w) /\ n = Len(v) /\ l = Len(x)
  BY <1>1, LenProperties
<1> HIDE DEF b
<1>3. \A k \in 1..n : v[k] # Space
  BY <1>2 DEF Free
<1>4. b # v
  <2> SUFFICES ASSUME b = v PROVE FALSE
    OBVIOUS
  <2>1. m + 1 \in 1..n
    <3>1. n = m + (1 + l)
      BY <1>1, <1>2
    <3> QED BY <3>1
  <2> QED BY <1>1, <1>2, <1>3, <2>1
<1>5. ASSUME NEW y \in Seq(D), b = Between(v, y)
      PROVE  \/ w = v /\ x = y
             \/ \E z \in Seq(D) : w = Between(v, z) /\ y = Between(z, x)
  <2>1. Blank \in Seq(D)
    BY DEF Blank
  <2>2. PICK sx \in Seq(D) : sx = Cat(Blank, x)
    BY <2>1, Texts
  <2>3. PICK sy \in Seq(D) : sy = Cat(Blank, y)
    BY <2>1, Texts
  <2>4. b = Cat(w, sx) /\ b = Cat(v, sy)
    BY <1>5, <2>2, <2>3 DEF b, Between
  <2>5. sy[1] = Space
    BY <2>3, OneBlock DEF Cat, Blank
  <2>6. CASE n <= m
    <3>1. PICK z \in Seq(D) : w = Cat(v, z) /\ sy = Cat(z, sx)
      <4>1. Cat(v, sy) = Cat(w, sx) /\ Len(v) <= Len(w)
        BY <1>2, <2>4, <2>6
      <4> QED BY <4>1, TwoCuts
    <3>2. CASE z = <<>>
      <4>1. w = v /\ sy = sx
        BY <3>1, <3>2, Texts
      <4>2. Cat(Blank, x) = Cat(Blank, y)
        BY <2>2, <2>3, <4>1
      <4>3. x = y
        BY <2>1, <4>2, Texts
      <4> QED BY <4>1, <4>3
    <3>3. CASE z # <<>>
      <4>1. z[1] = Space
        BY <2>5, <3>1, <3>3, FirstOf
      <4>2. PICK q \in Seq(D) : z = Cat(Blank, q)
        BY <3>3, <4>1, SpaceFirst
      <4>3. w = Between(v, q)
        BY <3>1, <4>2 DEF Between
      <4>4. Cat(Blank, y) = Cat(Blank, Cat(q, sx)) /\ Cat(q, sx) \in Seq(D)
        BY <2>1, <2>3, <3>1, <4>2, Texts
      <4>5. y = Cat(q, sx)
        BY <2>1, <4>4, Texts
      <4>6. y = Between(q, x)
        BY <2>2, <4>5 DEF Between
      <4> QED BY <4>3, <4>6
    <3> QED BY <3>2, <3>3
  <2>7. CASE ~(n <= m)
    <3>1. m + 1 \in 1..n
      BY <2>7
    <3>2. (v \o sy)[m + 1] = v[m + 1]
      BY <1>2, <3>1, Parts
    <3>3. b[m + 1] = v[m + 1]
      BY <2>4, <3>2 DEF Cat
    <3> QED BY <1>1, <1>2, <1>3, <3>1, <3>3
  <2> QED BY <2>6, <2>7
<1> QED BY <1>4, <1>5 DEF b

\* Words that join to a word are that word.
LEMMA WordAlone ==
  ASSUME NEW D, Space \in D, NEW u, Worded(D, u), NEW w \in Seq(D), Free(w, Space), Join(u) = w
  PROVE  u = <<w>> /\ Len(u) = 1 /\ u[1] = w
<1>1. u[1] \in Seq(D)
  BY FirstWord
<1>2. ASSUME NEW x \in Seq(D), Join(u) = Between(u[1], x) PROVE FALSE
  BY <1>1, <1>2, FirstSpace
<1>3. u = <<u[1]>> /\ Join(u) = u[1] /\ Len(u) = 1
  BY <1>2, FirstWord DEF Headed
<1> QED BY <1>3

\* Words in two parts, each joined, of those of a length all that can be.
Parted(D, c, a, b) == \E u, v : Worded(D, u) /\ Worded(D, v) /\ c = u \o v /\ a = Join(u) /\ b = Join(v)
PartOfLength(D, n) ==
  \A c : Worded(D, c) /\ Len(c) = n =>
    \A a \in Seq(D), b \in Seq(D) : Join(c) = Between(a, b) => Parted(D, c, a, b)

\* Joined words part at a space only between two of them.
LEMMA WordsSplit ==
  ASSUME NEW D, Space \in D, NEW c, Worded(D, c), NEW a \in Seq(D), NEW b \in Seq(D), Join(c) = Between(a, b)
  PROVE  Parted(D, c, a, b)
<1> DEFINE T == {n \in Nat : PartOfLength(D, n)}
<1>1. 0 \in T
  <2> SUFFICES ASSUME NEW d, Worded(D, d), Len(d) = 0 PROVE FALSE
    BY DEF PartOfLength
  <2> QED BY EmptySeq DEF Worded
<1>2. ASSUME NEW n \in Nat, n \in T PROVE n + 1 \in T
  <2> SUFFICES ASSUME NEW d, Worded(D, d), Len(d) = n + 1, NEW x \in Seq(D), NEW y \in Seq(D), Join(d) = Between(x, y)
               PROVE  Parted(D, d, x, y)
    BY DEF PartOfLength
  <2>1. PICK w \in Seq(D) : w = d[1] /\ Free(w, Space)
    BY FirstWord
  <2>2. CASE d = <<w>> /\ Join(d) = w
    BY <2>1, <2>2, FirstSpace
  <2>3. CASE Headed(D, d, w)
    <3>1. PICK r : /\ Worded(D, r) /\ d = <<w>> \o r /\ Len(r) + 1 = Len(d) /\ Join(r) \in Seq(D)
                   /\ Join(d) = Between(w, Join(r))
      BY <2>3 DEF Headed
    <3>2. PICK s \in Seq(D) : s = Join(r)
      BY <3>1
    <3>3. Between(x, y) = Between(w, s)
      BY <3>1, <3>2
    <3>4. \/ x = w /\ y = s
          \/ \E z \in Seq(D) : x = Between(w, z) /\ s = Between(z, y)
      BY <2>1, <3>3, FirstSpace
    <3>5. CASE x = w /\ y = s
      <4>1. Worded(D, <<w>>) /\ Join(<<w>>) = w
        BY <2>1, OneWord
      <4> QED BY <3>1, <3>2, <3>5, <4>1 DEF Parted
    <3>6. CASE \E z \in Seq(D) : x = Between(w, z) /\ s = Between(z, y)
      <4>1. PICK z \in Seq(D) : x = Between(w, z) /\ s = Between(z, y)
        BY <3>6
      <4>2. Len(r) = n
        <5>1. PICK m \in Nat : m = Len(r)
          BY <3>1, LenProperties DEF Worded
        <5> QED BY <3>1, <5>1
      <4>3. Parted(D, r, z, y)
        <5>1. PartOfLength(D, n)
          BY <1>2
        <5>2. Join(r) = Between(z, y)
          BY <3>2, <4>1
        <5> QED BY <3>1, <4>2, <5>1, <5>2 DEF PartOfLength
      <4>4. PICK u, v : Worded(D, u) /\ Worded(D, v) /\ r = u \o v /\ z = Join(u) /\ y = Join(v)
        BY <4>3 DEF Parted
      <4>5. Worded(D, <<w>> \o u) /\ Join(<<w>> \o u) = Between(w, Join(u))
        BY <2>1, <4>4, WordBefore
      <4>6. d = (<<w>> \o u) \o v
        <5>1. PICK s1 \in Seq(Seq(D)) : s1 = <<w>>
          <6>1. <<w>> \in Seq(Seq(D))
            OBVIOUS
          <6> QED BY <6>1
        <5>2. PICK u1 \in Seq(Seq(D)), v1 \in Seq(Seq(D)) : u1 = u /\ v1 = v
          BY <4>4 DEF Worded
        <5>3. Cat(Cat(s1, u1), v1) = Cat(s1, Cat(u1, v1))
          BY Texts
        <5>4. d = Cat(s1, Cat(u1, v1))
          BY <3>1, <4>4, <5>1, <5>2 DEF Cat
        <5>5. d = Cat(Cat(s1, u1), v1)
          BY <5>3, <5>4
        <5> QED BY <5>1, <5>2, <5>5 DEF Cat
      <4>7. x = Join(<<w>> \o u)
        BY <4>1, <4>4, <4>5
      <4> QED BY <4>4, <4>5, <4>6, <4>7 DEF Parted
    <3> QED BY <3>4, <3>5, <3>6
  <2>4. (d = <<w>> /\ Join(d) = w) \/ Headed(D, d, w)
    BY <2>1, FirstWord
  <2> QED BY <2>2, <2>3, <2>4
<1> HIDE DEF T
<1>3. Nat \subseteq T
  BY <1>1, <1>2, NatSetInduction
<1>4. Len(c) \in T
  BY <1>3, LenProperties DEF Worded
<1> QED BY <1>4 DEF T, PartOfLength

-----------------------------------------------------------------------------
(* A glob of joined words over joined words.                               *)

PatternWord(a) == Free(a, Space) /\ (a = <<Star>> \/ Free(a, Star))

\* Comparing two numbers and their successors (arithmetic the provers want apart).
LEMMA Shifted ==
  ASSUME NEW a \in Nat, NEW b \in Nat
  PROVE  (a + 1 < b + 1 <=> a < b) /\ (a + 1 = b + 1 <=> a = b)
OBVIOUS

\* The words of a pattern over words, where <<Star>> stands for any stretch of
\* text: each other word is one of ws, and the next one the next of ws.
Placed(A, ws, g) ==
  /\ g \in [1..Len(A) -> 1..Len(ws)] /\ g[1] = 1
  /\ \A k \in 1..(Len(A) - 1) : g[k] < g[k + 1]
  /\ \A k \in 1..Len(A) :
       A[k] # <<Star>> => /\ A[k] = ws[g[k]]
                          /\ k < Len(A) => g[k + 1] = g[k] + 1
                          /\ k = Len(A) => g[k] = Len(ws)

\* A pattern of one word over some words.
LEMMA PlacedOne ==
  ASSUME NEW D, Space \in D, NEW ws, Worded(D, ws), NEW w \in Seq(D), PatternWord(w), Glob(w, Join(ws)),
         Join(ws) \in Seq(D)
  PROVE  \E g : Placed(<<w>>, ws, g)
<1> DEFINE s == <<w>>
           g == [k \in 1..1 |-> 1]
<1>1. Len(s) = 1 /\ s[1] = w
  OBVIOUS
<1>2. w # <<Star>> => Len(ws) = 1 /\ ws[1] = w
  <2> SUFFICES ASSUME w # <<Star>> PROVE Len(ws) = 1 /\ ws[1] = w
    OBVIOUS
  <2>1. Free(w, Star) /\ Free(w, Space)
    BY DEF PatternWord
  <2>2. Join(ws) = w
    BY <2>1, PlainGlob
  <2> QED BY <2>1, <2>2, WordAlone
<1>3. Len(ws) \in Nat \ {0}
  BY EmptySeq, LenProperties DEF Worded
<1>4. 1 \in 1..Len(ws)
  BY <1>3
<1>5. g \in [1..1 -> 1..Len(ws)] /\ g[1] = 1
  BY <1>4
<1>6. (\A k \in 1..1 : k = 1) /\ 1..(1 - 1) = {} /\ ~(1 < 1)
  OBVIOUS
<1> HIDE DEF s, g
<1>7. Placed(s, ws, g)
  BY <1>1, <1>2, <1>5, <1>6 DEF Placed
<1> QED BY <1>7 DEF s

\* One more word in front of a pattern, and what it stands for in front of the
\* words.
LEMMA PlacedMore ==
  ASSUME NEW S, NEW w \in S, NEW r \in Seq(S), NEW u \in Seq(S), NEW v \in Seq(S), r # <<>>, u # <<>>,
         w # <<Star>> => Len(u) = 1 /\ u[1] = w, NEW g, Placed(r, v, g)
  PROVE  \E h : Placed(<<w>> \o r, u \o v, h)
<1>1. PICK s \in Seq(S) : s = <<w>>
  <2>1. <<w>> \in Seq(S)
    OBVIOUS
  <2> QED BY <2>1
<1>2. PICK A \in Seq(S), c \in Seq(S) : A = s \o r /\ c = u \o v
  BY Parts
<1>3. PICK m \in Nat, n \in Nat, p \in Nat : m = Len(r) /\ n = Len(v) /\ p = Len(u)
  BY LenProperties
<1>4. m # 0 /\ p # 0
  BY <1>3, EmptySeq
<1>5. Len(s) = 1 /\ s[1] = w /\ 1 \in 1..1
  BY <1>1
<1>6. Len(A) = 1 + m /\ A[1] = w /\ \A i \in 1..m : A[1 + i] = r[i]
  <2>1. A = Cat(s, r)
    BY <1>2 DEF Cat
  <2>2. Sized(s, 1) /\ Sized(r, m)
    BY <1>3, <1>5 DEF Sized
  <2>3. Len(A) = 1 + m /\ (\A i \in 1..1 : A[i] = s[i]) /\ \A i \in 1..m : A[1 + i] = r[i]
    BY <2>1, <2>2, CatIs
  <2> QED BY <1>5, <2>3
<1>7. Len(c) = p + n /\ (\A i \in 1..p : c[i] = u[i]) /\ \A i \in 1..n : c[p + i] = v[i]
  BY <1>2, <1>3, Parts
<1>8. /\ \A i \in 1..m : g[i] \in 1..n
      /\ g[1] = 1 /\ \A k \in 1..(m - 1) : g[k] < g[k + 1]
  BY <1>3 DEF Placed
<1>9. \A k \in 1..m : r[k] # <<Star>> =>
        r[k] = v[g[k]] /\ (k < m => g[k + 1] = g[k] + 1) /\ (k = m => g[k] = n)
  BY <1>3 DEF Placed
<1> DEFINE h == [k \in 1..(1 + m) |-> IF k = 1 THEN 1 ELSE p + g[k - 1]]
<1>10. ASSUME NEW i \in 1..m PROVE h[1 + i] = p + g[i]
  <2>1. 1 + i \in 1..(1 + m) /\ 1 + i # 1 /\ (1 + i) - 1 = i
    OBVIOUS
  <2> QED BY <2>1
<1>11. h[1] = 1
  <2>1. 1 \in 1..(1 + m)
    OBVIOUS
  <2> QED BY <2>1
<1>12. ASSUME NEW k \in 1..(1 + m) PROVE k = 1 \/ \E i \in 1..m : k = 1 + i
  <2>1. k # 1 => k - 1 \in 1..m /\ k = 1 + (k - 1)
    OBVIOUS
  <2> QED BY <2>1
<1>13. h = [k \in 1..(1 + m) |-> h[k]]
  OBVIOUS
<1> HIDE DEF h
<1>14. \A x \in 1..n : p + x \in 1..(p + n)
  OBVIOUS
<1>15. 1 \in 1..(p + n) /\ 1 \in 1..p /\ 1 \in 1..m
  <2>1. \A x \in Nat : x # 0 => 1 \in 1..x
    OBVIOUS
  <2>2. p + n \in Nat /\ p + n # 0
    BY <1>4
  <2> QED BY <1>4, <2>1, <2>2
<1>16. ASSUME NEW k \in 1..(1 + m) PROVE h[k] \in 1..(p + n)
  <2>1. CASE k = 1
    BY <1>11, <1>15, <2>1
  <2>2. ASSUME NEW i \in 1..m, k = 1 + i PROVE h[k] \in 1..(p + n)
    BY <1>8, <1>10, <1>14, <2>2
  <2> QED BY <1>12, <2>1, <2>2
<1>17. h \in [1..(1 + m) -> 1..(p + n)]
  BY <1>13, <1>16
<1>18. h[1 + 1] = p + 1
  BY <1>8, <1>10, <1>15
<1>19. ASSUME NEW k \in 1..((1 + m) - 1) PROVE h[k] < h[k + 1]
  <2>1. CASE k = 1
    <3>1. 1 < p + 1
      BY <1>4
    <3> QED BY <1>11, <1>18, <2>1, <3>1
  <2>2. ASSUME NEW i \in 1..m, k = 1 + i PROVE h[k] < h[k + 1]
    <3>1. i \in 1..(m - 1) /\ i + 1 \in 1..m /\ k + 1 = 1 + (i + 1)
      BY <2>2
    <3>2. PICK x \in 1..n, y \in 1..n : x = g[i] /\ y = g[i + 1] /\ x < y
      BY <1>8, <3>1
    <3>3. p + x < p + y
      BY <3>2
    <3>4. h[k] = p + x /\ h[k + 1] = p + y
      BY <1>10, <2>2, <3>1, <3>2
    <3> QED BY <3>3, <3>4
  <2>3. k \in 1..(1 + m)
    OBVIOUS
  <2> QED BY <1>12, <2>1, <2>2, <2>3
<1>20. ASSUME NEW k \in 1..(1 + m), A[k] # <<Star>>
       PROVE  /\ A[k] = c[h[k]]
              /\ k < 1 + m => h[k + 1] = h[k] + 1
              /\ k = 1 + m => h[k] = p + n
  <2>1. CASE k = 1
    <3>1. p = 1 /\ u[1] = w
      BY <1>3, <1>6, <1>20, <2>1
    <3>2. A[k] = c[h[k]]
      BY <1>6, <1>7, <1>11, <1>15, <2>1, <3>1
    <3>3. h[k + 1] = h[k] + 1
      BY <1>11, <1>18, <2>1, <3>1
    <3>4. k # 1 + m
      BY <1>4, <2>1
    <3> QED BY <3>2, <3>3, <3>4
  <2>2. ASSUME NEW i \in 1..m, k = 1 + i
        PROVE  /\ A[k] = c[h[k]]
               /\ k < 1 + m => h[k + 1] = h[k] + 1
               /\ k = 1 + m => h[k] = p + n
    <3>1. PICK x \in 1..n : x = g[i]
      BY <1>8
    <3>2. r[i] # <<Star>> /\ h[k] = p + x /\ c[p + x] = v[x] /\ A[k] = r[i]
      BY <1>6, <1>7, <1>10, <1>20, <2>2, <3>1
    <3>3. r[i] = v[x] /\ (i < m => g[i + 1] = x + 1) /\ (i = m => x = n)
      BY <1>9, <3>1, <3>2
    <3>4. k < 1 + m => i < m /\ i + 1 \in 1..m /\ k + 1 = 1 + (i + 1)
      BY <2>2
    <3>5. k < 1 + m => h[k + 1] = p + (x + 1)
      BY <1>10, <3>3, <3>4
    <3>6. p + (x + 1) = (p + x) + 1 /\ (k = 1 + m => i = m)
      BY <2>2
    <3> QED BY <3>2, <3>3, <3>5, <3>6
  <2> QED BY <1>12, <2>1, <2>2
<1>21. Placed(A, c, h)
  BY <1>6, <1>7, <1>11, <1>17, <1>19, <1>20 DEF Placed
<1> QED BY <1>1, <1>2, <1>21

\* Word by word, what a joined glob of so many words matches.
PlacedAtLength(D, n) ==
  \A A, ws : /\ Worded(D, A) /\ Len(A) = n /\ \A k \in 1..n : PatternWord(A[k])
             /\ Worded(D, ws) /\ Glob(Join(A), Join(ws))
             => \E g : Placed(A, ws, g)

\* A joined glob of one word more.
LEMMA PlacedLonger ==
  ASSUME NEW D, Space \in D, NEW n \in Nat, PlacedAtLength(D, n)
  PROVE  PlacedAtLength(D, n + 1)
<1> SUFFICES ASSUME NEW A, NEW ws, Worded(D, A), Len(A) = n + 1, \A k \in 1..(n + 1) : PatternWord(A[k]),
                    Worded(D, ws), Glob(Join(A), Join(ws))
             PROVE  \E g : Placed(A, ws, g)
  BY DEF PlacedAtLength
<1>1. A \in Seq(Seq(D)) /\ A # <<>> /\ ws \in Seq(Seq(D)) /\ ws # <<>>
  BY DEF Worded
<1>2. PICK x \in Seq(D) : x = Join(ws)
  BY <1>1, SpacedIsJoin
<1>3. PICK w \in Seq(D) : w = A[1] /\ Free(w, Space)
  BY FirstWord
<1>4. 1 \in 1..(n + 1)
  OBVIOUS
<1>5. PatternWord(w)
  BY <1>3, <1>4
<1>6. CASE A = <<w>> /\ Join(A) = w
  BY <1>2, <1>5, <1>6, PlacedOne
<1>7. ASSUME NEW r, Worded(D, r), A = <<w>> \o r, Len(r) + 1 = Len(A), Join(r) \in Seq(D),
             Join(A) = Between(w, Join(r))
      PROVE  \E g : Placed(A, ws, g)
  <2>1. PICK y \in Seq(D) : y = Join(r)
    BY <1>7
  <2>2. Blank \in Seq(D) /\ Free(Blank, Star) /\ Cat(Blank, y) \in Seq(D)
    BY BlankIs, BetweenIs
  <2>3. Glob(Cat(w, Cat(Blank, y)), x)
    BY <1>2, <1>7, <2>1 DEF Between
  <2>4. PICK a \in Seq(D), b \in Seq(D) : x = Cat(a, b) /\ Glob(w, a) /\ Glob(Cat(Blank, y), b)
    BY <2>2, <2>3, GlobParts
  <2>5. PICK e \in Seq(D), f \in Seq(D) : b = Cat(e, f) /\ Glob(Blank, e) /\ Glob(y, f)
    BY <2>2, <2>4, GlobParts
  <2>6. e = Blank
    BY <2>2, <2>5, PlainGlob
  <2>7. Join(ws) = Between(a, f)
    BY <1>2, <2>4, <2>5, <2>6 DEF Between
  <2>8. PICK u, v : Worded(D, u) /\ Worded(D, v) /\ ws = u \o v /\ a = Join(u) /\ f = Join(v)
    <3>1. Parted(D, ws, a, f)
      BY <2>7, WordsSplit
    <3> QED BY <3>1 DEF Parted
  <2>9. Len(r) = n /\ \A k \in 1..n : PatternWord(r[k])
    <3>1. PICK m \in Nat : m = Len(r)
      BY <1>7, LenProperties DEF Worded
    <3>2. m = n
      BY <1>7, <3>1
    <3>3. r \in Seq(Seq(D)) /\ <<w>> \in Seq(Seq(D)) /\ Len(<<w>>) = 1
      BY <1>7 DEF Worded
    <3>4. ASSUME NEW k \in 1..n PROVE PatternWord(r[k])
      <4>1. 1 + k \in 1..(n + 1)
        OBVIOUS
      <4>2. A[1 + k] = r[k]
        BY <1>7, <3>1, <3>2, <3>3, Parts
      <4> QED BY <4>1, <4>2
    <3> QED BY <3>1, <3>2, <3>4
  <2>10. PICK g : Placed(r, v, g)
    <3>1. Glob(Join(r), Join(v))
      BY <2>1, <2>5, <2>8
    <3> QED BY <1>7, <2>8, <2>9, <3>1 DEF PlacedAtLength
  <2>11. w # <<Star>> => Len(u) = 1 /\ u[1] = w
    <3> SUFFICES ASSUME w # <<Star>> PROVE Len(u) = 1 /\ u[1] = w
      OBVIOUS
    <3>1. Free(w, Star)
      BY <1>5 DEF PatternWord
    <3>2. Join(u) = w
      BY <2>4, <2>8, <3>1, PlainGlob
    <3> QED BY <1>3, <2>8, <3>2, WordAlone
  <2>12. r \in Seq(Seq(D)) /\ r # <<>> /\ u \in Seq(Seq(D)) /\ u # <<>> /\ v \in Seq(Seq(D))
    BY <1>7, <2>8 DEF Worded
  <2>13. \E h : Placed(<<w>> \o r, u \o v, h)
    BY <2>10, <2>11, <2>12, PlacedMore
  <2> QED BY <1>7, <2>8, <2>13
<1> QED BY <1>3, <1>6, <1>7, FirstWord DEF Headed

\* No words read as one empty word: both are joined to nothing.
Filled(ws) == IF ws = <<>> THEN <<<<>>>> ELSE ws

\* Words that are filled, when none of them has a space.
LEMMA FilledIs ==
  ASSUME NEW D, Space \in D, NEW ws \in Seq(Seq(D)), \A k \in 1..Len(ws) : Free(ws[k], Space)
  PROVE  Worded(D, Filled(ws)) /\ Join(Filled(ws)) = Join(ws)
<1>1. CASE ws # <<>>
  BY <1>1 DEF Filled, Worded
<1>2. CASE ws = <<>>
  <2>1. <<>> \in Seq(D) /\ Free(<<>>, Space)
    BY DEF Free
  <2>2. Worded(D, <<<<>>>>) /\ Join(<<<<>>>>) = <<>>
    BY <2>1, OneWord
  <2>3. Join(<<>>) = <<>>
    BY DEF Join
  <2> QED BY <1>2, <2>2, <2>3 DEF Filled
<1> QED BY <1>1, <1>2

\* Word by word, what a joined glob matches.
LEMMA GlobWords ==
  ASSUME NEW D, Space \in D, NEW A \in Seq(Seq(D)), NEW ws \in Seq(Seq(D)),
         \A k \in 1..Len(A) : PatternWord(A[k]), \A k \in 1..Len(ws) : Free(ws[k], Space),
         Glob(Join(A), Join(ws))
  PROVE  \E g : Placed(Filled(A), Filled(ws), g)
<1> DEFINE T == {n \in Nat : PlacedAtLength(D, n)}
<1>1. 0 \in T
  <2> SUFFICES ASSUME NEW B, Worded(D, B), Len(B) = 0 PROVE FALSE
    BY DEF PlacedAtLength
  <2> QED BY EmptySeq DEF Worded
<1>2. ASSUME NEW n \in Nat, n \in T PROVE n + 1 \in T
  BY <1>2, PlacedLonger
<1> HIDE DEF T
<1>3. Nat \subseteq T
  BY <1>1, <1>2, NatSetInduction
<1>4. Worded(D, Filled(ws)) /\ Join(Filled(ws)) = Join(ws)
  BY FilledIs
<1>5. \A k \in 1..Len(A) : Free(A[k], Space)
  BY DEF PatternWord
<1>6. Worded(D, Filled(A)) /\ Join(Filled(A)) = Join(A)
  BY <1>5, FilledIs
<1>7. \A k \in 1..Len(Filled(A)) : PatternWord(Filled(A)[k])
  <2>1. PatternWord(<<>>)
    BY DEF Free, PatternWord
  <2>2. Len(<<<<>>>>) = 1 /\ \A k \in 1..1 : <<<<>>>>[k] = <<>>
    OBVIOUS
  <2> QED BY <2>1, <2>2 DEF Filled
<1>8. PICK n \in Nat : n = Len(Filled(A))
  BY <1>6, LenProperties DEF Worded
<1>9. PlacedAtLength(D, n)
  BY <1>3 DEF T
<1> QED BY <1>4, <1>6, <1>7, <1>8, <1>9 DEF PlacedAtLength

-----------------------------------------------------------------------------
(* Cursor's entries.                                                       *)

\* W: the words of commands; V: those of rules.
AreWords(D, W, V) ==
  /\ Space \in D /\ Star \in D /\ W \subseteq Seq(D) /\ V \subseteq W
  /\ \A w \in W : w # <<>> /\ Free(w, Space)
  /\ \A v \in V : Free(v, Star)

Segment(B, d, s) == d + Len(s) <= Len(B) /\ \A i \in 1..Len(s) : B[d + i] = s[i]

\* A concatenation has both parts as segments, and those of its first part.
LEMMA SegmentIs ==
  ASSUME NEW S, NEW u \in Seq(S), NEW v \in Seq(S)
  PROVE  /\ u \o v \in Seq(S) /\ Len(u \o v) = Len(u) + Len(v) /\ Len(u) \in Nat /\ Len(v) \in Nat
         /\ Segment(u \o v, 0, u) /\ Segment(u \o v, Len(u), v)
         /\ \A d \in Nat : \A s \in Seq(S) : Segment(u, d, s) => Segment(u \o v, d, s)
<1> DEFINE w == u \o v
<1>1. w \in Seq(S) /\ Len(w) = Len(u) + Len(v)
      /\ \A i \in 1..(Len(u) + Len(v)) : w[i] = IF i <= Len(u) THEN u[i] ELSE v[i - Len(u)]
  BY ConcatProperties
<1>2. Len(u) \in Nat /\ Len(v) \in Nat
  BY LenProperties
<1> HIDE DEF w
<1>3. \A i \in 1..Len(u) : w[i] = u[i]
  BY <1>1, <1>2
<1>4. ASSUME NEW i \in 1..Len(v) PROVE w[Len(u) + i] = v[i]
  <2>1. Len(u) + i \in 1..(Len(u) + Len(v)) /\ ~(Len(u) + i <= Len(u)) /\ (Len(u) + i) - Len(u) = i
    BY <1>2
  <2> QED BY <1>1, <2>1
<1>5. Segment(w, 0, u) /\ Segment(w, Len(u), v)
  <2>1. \A i \in 1..Len(u) : 0 + i = i
    OBVIOUS
  <2> QED BY <1>1, <1>2, <1>3, <1>4, <2>1 DEF Segment
<1>6. ASSUME NEW d \in Nat, NEW s \in Seq(S), Segment(u, d, s) PROVE Segment(w, d, s)
  <2>1. Len(s) \in Nat /\ d + Len(s) <= Len(u)
    BY <1>6, LenProperties DEF Segment
  <2>2. \A i \in 1..Len(s) : d + i \in 1..Len(u)
    BY <1>2, <2>1
  <2>3. d + Len(s) <= Len(w)
    BY <1>1, <1>2, <2>1
  <2> QED BY <1>3, <1>6, <2>2, <2>3 DEF Segment
<1> QED BY <1>1, <1>2, <1>5, <1>6 DEF w

\* The words of an entry: perhaps an option and a hole, the subcommands, and
\* one sequence of the tail somewhere behind them.
HeadAt(r, options, B, d) ==
  /\ d \in Nat /\ Segment(B, d, r.subcommand)
  /\ d > 0 => Len(r.subcommand) > 0 /\ B[1] \in options

TailAt(r, B, d, s, e) ==
  s \in r.tail /\ e \in Nat /\ e >= d + Len(r.subcommand) /\ Segment(B, e, s)

EntryWord(V) == V \cup {<<Star>>}

Holes == {<<>>, <<<<Star>>>>}

\* The parts an entry is put together from are sequences over its words.
LEMMA EntryWords ==
  ASSUME NEW V, NEW r, IsRule(r, V), NEW options \in SUBSET V
  PROVE  /\ r.subcommand \in Seq(EntryWord(V)) /\ Len(r.subcommand) \in Nat
         /\ \A s \in r.tail : s \in Seq(EntryWord(V))
         /\ \A hole \in Holes : hole \in Seq(EntryWord(V)) /\ Len(hole) \in Nat
         /\ \A o \in options : <<o>> \in Seq(EntryWord(V)) /\ Len(<<o>>) = 1 /\ <<o>>[1] = o
<1> DEFINE S == EntryWord(V)
<1>1. r.subcommand \in Seq(V) /\ r.tail \subseteq Seq(V) /\ V \subseteq S
  BY DEF IsRule, EntryWord
<1>2. <<>> \in Seq(S) /\ <<<<Star>>>> \in Seq(S)
  BY DEF EntryWord
<1>3. \A o \in options : <<o>> \in Seq(S) /\ Len(<<o>>) = 1 /\ <<o>>[1] = o
  BY DEF EntryWord
<1> HIDE DEF S
<1>4. \A s \in Seq(V) : s \in Seq(S)
  BY <1>1, SeqMonotonic
<1>5. \A hole \in Holes : hole \in Seq(S)
  BY <1>2 DEF Holes
<1>6. \A s \in Seq(S) : Len(s) \in Nat
  BY LenProperties
<1> QED BY <1>1, <1>3, <1>4, <1>5, <1>6 DEF S

\* The head stays in place when more words follow.
LEMMA HeadStays ==
  ASSUME NEW V, NEW r, IsRule(r, V), NEW options \in SUBSET V,
         NEW p \in Seq(EntryWord(V)), NEW q \in Seq(EntryWord(V)), NEW d, HeadAt(r, options, p, d)
  PROVE  HeadAt(r, options, p \o q, d)
<1> DEFINE sub == r.subcommand
<1>1. sub \in Seq(EntryWord(V)) /\ Len(sub) \in Nat
  BY EntryWords
<1>2. d \in Nat /\ Segment(p, d, sub) /\ (d > 0 => Len(sub) > 0 /\ p[1] \in options)
  BY DEF HeadAt
<1>3. Segment(p \o q, d, sub) /\ Segment(p \o q, 0, p) /\ Len(p) \in Nat
  BY <1>1, <1>2, SegmentIs
<1>4. d > 0 => 1 \in 1..Len(p) /\ 0 + 1 = 1
  BY <1>1, <1>2, <1>3 DEF Segment
<1>5. d > 0 => (p \o q)[1] = p[1]
  BY <1>3, <1>4 DEF Segment
<1> QED BY <1>2, <1>3, <1>5 DEF HeadAt

OptionHead(o, hole, sub) == <<o>> \o hole \o sub

\* A head for the arguments ends with the subcommands.
LEMMA HeadShape ==
  ASSUME NEW V, NEW r, IsRule(r, V), NEW options \in SUBSET V,
         NEW h \in ArgumentHeads(r, options)
  PROVE  /\ h \in Seq(EntryWord(V)) /\ Len(h) \in Nat
         /\ \E d : HeadAt(r, options, h, d) /\ Len(h) = d + Len(r.subcommand)
<1> DEFINE S == EntryWord(V)
           sub == r.subcommand
<1>1. sub \in Seq(S) /\ Len(sub) \in Nat
  BY EntryWords
<1>2. h = sub \/ \E o \in options, hole \in Holes : sub # <<>> /\ h = <<o>> \o hole \o sub
  <2> DEFINE others == {OptionHead(o, hole, sub) : o \in options, hole \in Holes}
  <2>1. ArgumentHeads(r, options) = {sub} \cup (IF sub = <<>> THEN {} ELSE others)
    BY DEF ArgumentHeads, Holes, OptionHead
  <2> HIDE DEF others
  <2>2. h = sub \/ (sub # <<>> /\ h \in others)
    BY <2>1
  <2>3. \A o \in options, hole \in Holes : OptionHead(o, hole, sub) = <<o>> \o hole \o sub
    BY DEF OptionHead
  <2> HIDE DEF sub
  <2>4. h = sub \/ \E o \in options, hole \in Holes : sub # <<>> /\ h = OptionHead(o, hole, sub)
    BY <2>2 DEF others
  <2> DEFINE made(o, hole) == <<o>> \o hole \o sub
  <2>5. \A o \in options, hole \in Holes : OptionHead(o, hole, sub) = made(o, hole)
    BY <2>3
  <2> HIDE DEF made
  <2>6. h = sub \/ \E o \in options, hole \in Holes : sub # <<>> /\ h = made(o, hole)
    BY <2>4, <2>5
  <2> QED BY <2>6 DEF made
<1> HIDE DEF S
<1>3. CASE h = sub
  <2>1. Segment(sub, 0, sub) /\ Len(sub) = 0 + Len(sub) /\ 0 \in Nat /\ ~(0 > 0)
    BY <1>1 DEF Segment
  <2>2. HeadAt(r, options, sub, 0)
    BY <2>1 DEF HeadAt
  <2> QED BY <1>1, <1>3, <2>1, <2>2 DEF S
<1>4. ASSUME NEW o \in options, NEW hole \in Holes, sub # <<>>, h = <<o>> \o hole \o sub
      PROVE  h \in Seq(S) /\ \E d : HeadAt(r, options, h, d) /\ Len(h) = d + Len(sub)
  <2>1. <<o>> \in Seq(S) /\ hole \in Seq(S) /\ Len(<<o>>) = 1 /\ <<o>>[1] = o
    BY EntryWords DEF S
  <2> DEFINE front == <<o>> \o hole
  <2>2. front \in Seq(S) /\ Len(front) = 1 + Len(hole) /\ Len(hole) \in Nat /\ Segment(front, 0, <<o>>)
    BY <2>1, SegmentIs
  <2>3. front[1] = o
    <3> HIDE DEF front
    <3> QED BY <2>1, <2>2 DEF Segment
  <2> HIDE DEF front
  <2>4. /\ front \o sub \in Seq(S) /\ Len(front \o sub) = Len(front) + Len(sub) /\ Segment(front \o sub, Len(front), sub)
        /\ Segment(front \o sub, 0, front)
    BY <1>1, <2>2, SegmentIs
  <2>5. h = front \o sub
    BY <1>4 DEF front
  <2>6. h[1] = o
    <3>1. 1 \in 1..Len(front) /\ 0 + 1 = 1
      BY <2>2
    <3>2. h[0 + 1] = front[1]
      BY <2>4, <2>5, <3>1 DEF Segment
    <3> QED BY <2>3, <3>1, <3>2
  <2>7. Len(front) \in Nat /\ Len(sub) > 0
    BY <1>1, <1>4, <2>2, EmptySeq
  <2>8. HeadAt(r, options, h, Len(front))
    BY <2>4, <2>5, <2>6, <2>7 DEF HeadAt
  <2> QED BY <2>4, <2>5, <2>8
<1>5. h \in Seq(S) /\ \E d : HeadAt(r, options, h, d) /\ Len(h) = d + Len(sub)
  BY <1>2, <1>3, <1>4, <1>1
<1> QED BY <1>5, LenProperties DEF S

EntryPrefixes(r, options) ==
  IF r.tail = {} THEN ArgumentHeads(r, options)
  ELSE {h \o hole \o s : h \in ArgumentHeads(r, options), s \in r.tail, hole \in Holes}

PrefixShaped(r, options, p) ==
  \E d : /\ HeadAt(r, options, p, d)
         /\ r.tail = {} => Len(p) = d + Len(r.subcommand)
         /\ r.tail # {} => \E s, e : TailAt(r, p, d, s, e)

\* What an entry is made from has the shape above, with a tail or without.
LEMMA PrefixShape ==
  ASSUME NEW V, NEW r, IsRule(r, V), NEW options \in SUBSET V, NEW p \in EntryPrefixes(r, options)
  PROVE  p \in Seq(EntryWord(V)) /\ PrefixShaped(r, options, p)
<1> DEFINE S == EntryWord(V)
           sub == r.subcommand
<1>1. CASE r.tail = {}
  <2>1. p \in ArgumentHeads(r, options)
    BY <1>1 DEF EntryPrefixes
  <2>2. p \in Seq(S) /\ \E d : HeadAt(r, options, p, d) /\ Len(p) = d + Len(sub)
    BY <2>1, HeadShape
  <2> QED BY <1>1, <2>2 DEF PrefixShaped
<1>2. CASE r.tail # {}
  <2> DEFINE heads == ArgumentHeads(r, options)
  <2>1. p \in {h \o hole \o s : h \in heads, s \in r.tail, hole \in Holes}
    BY <1>2 DEF EntryPrefixes
  <2> HIDE DEF heads
  <2>2. PICK h \in heads : \E s \in r.tail, hole \in Holes : p = h \o hole \o s
    BY <2>1
  <2>3. PICK s \in r.tail : \E hole \in Holes : p = h \o hole \o s
    BY <2>2
  <2>4. PICK hole \in Holes : p = h \o hole \o s
    BY <2>3
  <2>5. h \in Seq(S) /\ Len(h) \in Nat /\ \E d : HeadAt(r, options, h, d) /\ Len(h) = d + Len(sub)
    BY HeadShape DEF heads
  <2>6. PICK d : HeadAt(r, options, h, d) /\ Len(h) = d + Len(sub)
    BY <2>5
  <2>7. hole \in Seq(S) /\ s \in Seq(S) /\ Len(hole) \in Nat /\ Len(sub) \in Nat
    BY EntryWords
  <2> DEFINE f == h \o hole
  <2> HIDE DEF S
  <2>8. f \in Seq(S) /\ Len(f) = Len(h) + Len(hole)
    BY <2>5, <2>7, SegmentIs
  <2>9. HeadAt(r, options, f, d)
    BY <2>5, <2>6, <2>7, HeadStays DEF S
  <2> HIDE DEF f
  <2>10. f \o s \in Seq(S) /\ Segment(f \o s, Len(f), s)
    BY <2>7, <2>8, SegmentIs
  <2>11. HeadAt(r, options, f \o s, d)
    BY <2>7, <2>8, <2>9, HeadStays DEF S
  <2>12. Len(f) \in Nat /\ Len(f) >= d + Len(sub)
    BY <2>5, <2>6, <2>7, <2>8
  <2>13. p = f \o s
    BY <2>4 DEF f
  <2>14. TailAt(r, p, d, s, Len(f))
    BY <2>10, <2>12, <2>13 DEF TailAt
  <2> QED BY <1>2, <2>10, <2>11, <2>13, <2>14 DEF PrefixShaped, S
<1> QED BY <1>1, <1>2

\* Every entry of a rule has that shape; one of an exact rule ends with the head.
LEMMA EntryShape ==
  ASSUME NEW V, NEW r, IsRule(r, V), r.exact => r.tail = {}, NEW options \in SUBSET V,
         NEW entry \in CursorEntries(r, options)
  PROVE  /\ entry.program = r.command /\ r.text = {}
         /\ entry.words \in Seq(EntryWord(V))
         /\ \E d : /\ HeadAt(r, options, entry.words, d)
                   /\ r.tail # {} => \E s, e : TailAt(r, entry.words, d, s, e)
                   /\ r.exact => Len(entry.words) = d + Len(r.subcommand) /\ ~entry.plain
                   /\ r.tail = {} /\ Len(r.subcommand) = 0 => entry.words = <<>>
<1> DEFINE S == EntryWord(V)
           prefixes == EntryPrefixes(r, options)
           holed == {p \in prefixes : <<Star>> \in ToSet(p)}
           made(plain, words) == [plain |-> plain, program |-> r.command, words |-> words]
           all == IF r.text # {} THEN {}
                  ELSE IF r.exact THEN {made(FALSE, p) : p \in prefixes}
                  ELSE {made(TRUE, p) : p \in prefixes \ holed}
                         \cup {made(FALSE, p) : p \in holed}
                         \cup {made(FALSE, Append(p, <<Star>>)) : p \in holed}
<1>1. entry \in all
  <2>1. CursorEntries(r, options) = all
    BY DEF CursorEntries, EntryPrefixes, Holes
  <2> QED BY <2>1
<1> HIDE DEF prefixes, holed
<1>2. holed \subseteq prefixes /\ <<>> \notin holed
  BY DEF holed, ToSet
<1>3. /\ entry.program = r.command /\ r.text = {}
      /\ \E p \in prefixes : \/ entry.words = p /\ (r.exact => ~entry.plain)
                             \/ entry.words = Append(p, <<Star>>) /\ ~r.exact /\ p # <<>>
  BY <1>1, <1>2
<1> HIDE DEF all
<1>4. PICK p \in prefixes : \/ entry.words = p /\ (r.exact => ~entry.plain)
                            \/ entry.words = Append(p, <<Star>>) /\ ~r.exact /\ p # <<>>
  BY <1>3
<1>5. p \in Seq(S) /\ PrefixShaped(r, options, p)
  BY PrefixShape DEF prefixes
<1>6. PICK d : /\ HeadAt(r, options, p, d)
               /\ r.tail = {} => Len(p) = d + Len(r.subcommand)
               /\ r.tail # {} => \E s, e : TailAt(r, p, d, s, e)
  BY <1>5 DEF PrefixShaped
<1>7. r.tail = {} /\ Len(r.subcommand) = 0 => p = <<>>
  <2>1. d \in Nat /\ (d > 0 => Len(r.subcommand) > 0)
    BY <1>6 DEF HeadAt
  <2>2. r.tail = {} /\ Len(r.subcommand) = 0 => Len(p) = 0
    BY <1>6, <2>1
  <2> QED BY <1>5, <2>2, EmptySeq
<1>8. CASE entry.words = p /\ (r.exact => ~entry.plain)
  BY <1>3, <1>5, <1>6, <1>8, <1>7
<1>9. CASE entry.words = Append(p, <<Star>>) /\ ~r.exact /\ p # <<>>
  <2> DEFINE q == <<<<Star>>>>
  <2>1. q \in Seq(S)
    BY EntryWords DEF Holes
  <2>2. Append(p, <<Star>>) = p \o q
    BY <1>5
  <2> HIDE DEF q
  <2>3. entry.words = p \o q
    BY <1>9, <2>2
  <2> HIDE DEF S
  <2>4. p \o q \in Seq(S)
    BY <1>5, <2>1, SegmentIs
  <2>5. HeadAt(r, options, p \o q, d)
    BY <1>5, <1>6, <2>1, HeadStays DEF S
  <2>6. ASSUME NEW s, NEW e, TailAt(r, p, d, s, e) PROVE TailAt(r, p \o q, d, s, e)
    <3>1. s \in Seq(S) /\ e \in Nat /\ Segment(p, e, s)
      BY <2>6, EntryWords DEF TailAt, S
    <3>2. Segment(p \o q, e, s)
      BY <1>5, <2>1, <3>1, SegmentIs
    <3> QED BY <2>6, <3>2 DEF TailAt
  <2> QED BY <1>3, <1>6, <1>9, <1>7, <2>3, <2>4, <2>5, <2>6 DEF S
<1> QED BY <1>4, <1>8, <1>9

\* The words of an entry, where they stand in a command it runs.
Lies(B, c, g) ==
  /\ g \in [1..Len(B) -> 2..Len(c)]
  /\ Len(B) > 0 => g[1] = 2
  /\ \A k \in 1..Len(B) : k < Len(B) => g[k] < g[k + 1]
  /\ \A k \in 1..Len(B) :
       B[k] # <<Star>> => /\ c[g[k]] = B[k]
                          /\ k < Len(B) => g[k + 1] = g[k] + 1

Ends(B, c, g) == IF Len(B) = 0 THEN Len(c) = 1 ELSE B[Len(B)] # <<Star>> => g[Len(B)] = Len(c)

\* The words of an entry lie in every command it runs, and reach its end where
\* the entry leaves nothing open.
LEMMA EntryLies ==
  ASSUME NEW D, NEW W, NEW V, AreWords(D, W, V), NEW entry, entry.words \in Seq(EntryWord(V)),
         entry.words = <<>> \/ \E k \in 1..Len(entry.words) : entry.words[k] \in V,
         NEW c \in Seq(W), c # <<>>, CursorRuns(entry, c)
  PROVE  \E g : Lies(entry.words, c, g) /\ (~entry.plain => Ends(entry.words, c, g))
<1> DEFINE B == entry.words
           t == Tail(c)
<1>1. /\ t \in Seq(W) /\ Len(c) \in Nat \ {0} /\ Len(t) = Len(c) - 1
      /\ \A i \in 1..(Len(c) - 1) : t[i] = c[i + 1]
      /\ Len(B) \in Nat
  BY TailIs, LenProperties
<1> HIDE DEF t, B
<1>2. \A k \in 1..Len(B) : B[k] \in EntryWord(V)
  BY DEF B
<1>3. /\ \A v \in V : v # <<Star>> /\ v # <<>> /\ v \in W
      /\ EntryWord(V) \subseteq Seq(D) /\ \A v \in EntryWord(V) : PatternWord(v)
  <2>1. ~Free(<<Star>>, Star) /\ Free(<<Star>>, Space)
    <3>1. Len(<<Star>>) = 1 /\ <<Star>>[1] = Star /\ 1 \in 1..1 /\ \A x \in 1..1 : x = 1
      OBVIOUS
    <3>2. Star # Space
      BY DEF Star, Space
    <3> QED BY <3>1, <3>2 DEF Free
  <2>2. <<Star>> \in Seq(D)
    BY DEF AreWords
  <2>3. \A v \in V : v \in W /\ v # <<>> /\ v \in Seq(D) /\ Free(v, Space) /\ Free(v, Star)
    BY DEF AreWords
  <2> QED BY <2>1, <2>2, <2>3 DEF EntryWord, PatternWord
<1>4. CASE entry.plain
  <2>1. IsPrefix(B, t)
    BY <1>4 DEF CursorRuns, B, t
  <2>2. B \in Seq(Seq(D)) /\ t \in Seq(Seq(D))
    <3>1. B \in Seq(EntryWord(V)) /\ W \subseteq Seq(D)
      BY DEF B, AreWords
    <3> QED BY <1>1, <1>3, <3>1, SeqMonotonic
  <2>3. StandsBehind(B, t, 0)
    BY <2>1, <2>2, PrefixIs
  <2>4. Len(B) <= Len(t) /\ \A i \in 1..Len(B) : t[i] = B[i]
    <3>1. \A i \in 1..Len(B) : 0 + i = i
      OBVIOUS
    <3>2. 0 + Len(B) <= Len(t) /\ \A i \in 1..Len(B) : t[0 + i] = B[i]
      BY <2>3 DEF StandsBehind
    <3> QED BY <1>1, <3>1, <3>2
  <2> DEFINE g == [k \in 1..Len(B) |-> k + 1]
  <2>5. g \in [1..Len(B) -> 2..Len(c)] /\ \A k \in 1..Len(B) : g[k] = k + 1
    <3>1. \A k \in 1..Len(B) : k + 1 \in 2..Len(c)
      BY <1>1, <2>4
    <3> QED BY <3>1
  <2> HIDE DEF g
  <2>6. ASSUME NEW k \in 1..Len(B) PROVE c[g[k]] = B[k] /\ (k < Len(B) => g[k + 1] = g[k] + 1 /\ g[k] < g[k + 1])
    <3>1. k \in 1..(Len(c) - 1) /\ (k < Len(B) => k + 1 \in 1..Len(B))
      BY <1>1, <2>4
    <3>2. c[k + 1] = B[k] /\ g[k] = k + 1
      BY <1>1, <2>4, <2>5, <3>1
    <3>3. k < Len(B) => g[k + 1] = (k + 1) + 1
      BY <2>5, <3>1
    <3> QED BY <3>2, <3>3
  <2>7. Len(B) > 0 => g[1] = 2
    BY <1>1, <2>5
  <2>8. Lies(B, c, g)
    BY <2>5, <2>6, <2>7 DEF Lies
  <2> QED BY <1>4, <2>8 DEF B
<1>5. CASE ~entry.plain
  <2>1. Glob(Join(B), Join(t))
    BY <1>5 DEF CursorRuns, B, t
  <2>2. B \in Seq(Seq(D)) /\ t \in Seq(Seq(D))
    <3>1. B \in Seq(EntryWord(V)) /\ W \subseteq Seq(D)
      BY DEF B, AreWords
    <3> QED BY <1>1, <1>3, <3>1, SeqMonotonic
  <2>3. \A k \in 1..Len(t) : t[k] # <<>> /\ Free(t[k], Space)
    <3>1. \A k \in 1..Len(t) : t[k] \in W
      BY <1>1
    <3> QED BY <3>1 DEF AreWords
  <2>4. PICK f : Placed(Filled(B), Filled(t), f)
    <3>1. \A k \in 1..Len(B) : PatternWord(B[k])
      BY <1>2, <1>3
    <3>2. Space \in D
      BY DEF AreWords
    <3> QED BY <2>1, <2>2, <2>3, <3>1, <3>2, GlobWords
  <2>5. CASE B = <<>>
    <3>1. Filled(B) = <<<<>>>> /\ Len(<<<<>>>>) = 1 /\ <<<<>>>>[1] = <<>> /\ <<>> # <<Star>>
      BY <2>5 DEF Filled
    <3>2. 1 \in 1..1
      OBVIOUS
    <3>3. f[1] \in 1..Len(Filled(t)) /\ <<>> = Filled(t)[f[1]]
      BY <2>4, <3>1, <3>2 DEF Placed
    <3>4. t = <<>>
      <4>1. t # <<>> => Filled(t) = t
        BY DEF Filled
      <4> QED BY <2>3, <3>3, <4>1
    <3>5. Len(t) = 0 /\ Len(B) = 0
      BY <2>5, <3>4
    <3>6. Len(c) = 1
      BY <1>1, <3>5
    <3>7. Lies(B, c, <<>>) /\ Ends(B, c, <<>>)
      <4>1. <<>> \in [1..Len(B) -> 2..Len(c)]
        BY <3>5
      <4> QED BY <3>5, <3>6, <4>1 DEF Lies, Ends
    <3> QED BY <3>7 DEF B
  <2>6. CASE B # <<>>
    <3>1. Filled(B) = B /\ Len(B) > 0
      BY <1>1, <2>2, <2>6, EmptySeq DEF Filled
    <3>2. PICK k \in 1..Len(B) : B[k] \in V
      BY <2>6 DEF B
    <3>3. t # <<>>
      <4> SUFFICES ASSUME t = <<>> PROVE FALSE
        OBVIOUS
      <4>1. Filled(t) = <<<<>>>> /\ Len(<<<<>>>>) = 1 /\ \A i \in 1..1 : <<<<>>>>[i] = <<>>
        BY DEF Filled
      <4>2. f[k] \in 1..1 /\ B[k] = <<<<>>>>[f[k]]
        BY <1>3, <2>4, <3>1, <3>2, <4>1 DEF Placed
      <4> QED BY <1>3, <3>2, <4>1, <4>2
    <3>4. Placed(B, t, f)
      BY <2>4, <3>1, <3>3 DEF Filled
    <3> DEFINE g == [i \in 1..Len(B) |-> f[i] + 1]
    <3>5. \A i \in 1..Len(B) : f[i] \in 1..(Len(c) - 1) /\ f[i] \in Nat
      <4>1. f \in [1..Len(B) -> 1..Len(t)]
        BY <3>4 DEF Placed
      <4> QED BY <1>1, <4>1
    <3>6. g \in [1..Len(B) -> 2..Len(c)] /\ \A i \in 1..Len(B) : g[i] = f[i] + 1
      <4>1. \A h \in Nat : h \in 1..(Len(c) - 1) => h + 1 \in 2..Len(c)
        BY <1>1
      <4>2. \A i \in 1..Len(B) : f[i] + 1 \in 2..Len(c)
        BY <3>5, <4>1
      <4> QED BY <4>2
    <3> HIDE DEF g
    <3>7. g[1] = 2
      <4>1. f[1] = 1 /\ 1 \in 1..Len(B)
        BY <1>1, <3>1, <3>4 DEF Placed
      <4> QED BY <3>6, <4>1
    <3>8. ASSUME NEW i \in 1..Len(B)
          PROVE  /\ i < Len(B) => g[i] < g[i + 1]
                 /\ B[i] # <<Star>> => /\ c[g[i]] = B[i]
                                       /\ i < Len(B) => g[i + 1] = g[i] + 1
                                       /\ i = Len(B) => g[i] = Len(c)
      <4>1. i < Len(B) => i + 1 \in 1..Len(B) /\ i \in 1..(Len(B) - 1)
        BY <1>1
      <4>2. /\ i < Len(B) => f[i] < f[i + 1]
            /\ B[i] # <<Star>> => /\ B[i] = t[f[i]]
                                  /\ i < Len(B) => f[i + 1] = f[i] + 1
                                  /\ i = Len(B) => f[i] = Len(t)
        BY <3>4, <4>1 DEF Placed
      <4>3. t[f[i]] = c[f[i] + 1]
        BY <1>1, <3>5
      <4>4. g[i] = f[i] + 1 /\ f[i] \in Nat /\ (i < Len(B) => g[i + 1] = f[i + 1] + 1 /\ f[i + 1] \in Nat)
        BY <3>5, <3>6, <4>1
      <4>5. i < Len(B) => g[i] < g[i + 1]
        BY <4>2, <4>4, Shifted
      <4>6. B[i] # <<Star>> => c[g[i]] = B[i]
        BY <4>2, <4>3, <4>4
      <4>7. B[i] # <<Star>> /\ i < Len(B) => g[i + 1] = g[i] + 1
        BY <4>2, <4>4
      <4>8. B[i] # <<Star>> /\ i = Len(B) => g[i] = Len(c)
        <5>1. B[i] # <<Star>> /\ i = Len(B) => f[i] = Len(t)
          BY <4>2
        <5>2. Len(t) + 1 = Len(c)
          BY <1>1
        <5> QED BY <4>4, <5>1, <5>2
      <4> QED BY <4>5, <4>6, <4>7, <4>8
    <3>9. Lies(B, c, g)
      BY <3>6, <3>7, <3>8 DEF Lies
    <3>10. Ends(B, c, g)
      <4>1. Len(B) \in 1..Len(B) /\ Len(B) # 0
        BY <1>1, <3>1
      <4> QED BY <3>8, <4>1 DEF Ends
    <3> QED BY <3>9, <3>10 DEF B
  <2> QED BY <2>5, <2>6
<1> QED BY <1>4, <1>5

\* Words of an entry stand in their order.
LEMMA LiesRises ==
  ASSUME NEW B, Len(B) \in Nat, NEW c, Len(c) \in Nat, NEW g, Lies(B, c, g),
         NEW a \in 1..Len(B), NEW b \in 1..Len(B), a < b
  PROVE  g[a] < g[b]
<1> DEFINE T == {m \in Nat : a + 1 + m <= Len(B) => g[a] < g[a + 1 + m]}
<1>1. \A k \in 1..Len(B) : g[k] \in Nat
  <2>1. g \in [1..Len(B) -> 2..Len(c)]
    BY DEF Lies
  <2> QED BY <2>1
<1>2. 0 \in T
  <2>1. a < Len(B) /\ a + 1 + 0 = a + 1
    OBVIOUS
  <2> QED BY <2>1 DEF Lies
<1>3. ASSUME NEW m \in Nat, m \in T PROVE m + 1 \in T
  <2> SUFFICES ASSUME a + 1 + (m + 1) <= Len(B) PROVE g[a] < g[a + 1 + (m + 1)]
    OBVIOUS
  <2>1. /\ a + 1 + m \in 1..Len(B) /\ a + 1 + m < Len(B) /\ (a + 1 + m) + 1 = a + 1 + (m + 1) /\ a + 1 + m <= Len(B)
        /\ a + 1 + (m + 1) \in 1..Len(B)
    OBVIOUS
  <2>2. g[a] < g[a + 1 + m]
    BY <1>3, <2>1
  <2>3. g[a + 1 + m] < g[a + 1 + (m + 1)]
    BY <2>1 DEF Lies
  <2>4. g[a] \in Nat /\ g[a + 1 + m] \in Nat /\ g[a + 1 + (m + 1)] \in Nat
    BY <1>1, <2>1
  <2> QED BY <2>2, <2>3, <2>4
<1> HIDE DEF T
<1>4. Nat \subseteq T
  BY <1>2, <1>3, NatSetInduction
<1>5. b - (a + 1) \in Nat /\ a + 1 + (b - (a + 1)) = b /\ a + 1 + (b - (a + 1)) <= Len(B)
  OBVIOUS
<1>6. b - (a + 1) \in T
  BY <1>4, <1>5
<1>7. g[a] < g[a + 1 + (b - (a + 1))]
  BY <1>5, <1>6 DEF T
<1> QED BY <1>5, <1>7

\* A run of words of a rule stands in one piece.
LEMMA SegmentLies ==
  ASSUME NEW D, NEW W, NEW V, AreWords(D, W, V), NEW B, Len(B) \in Nat, NEW c, Len(c) \in Nat, NEW g, Lies(B, c, g),
         NEW s \in Seq(V), NEW d \in Nat, Segment(B, d, s)
  PROVE  \A i \in 1..Len(s) :
            /\ d + i \in 1..Len(B) /\ d + 1 \in 1..Len(B) /\ B[d + i] # <<Star>>
            /\ g[d + 1] \in Nat /\ g[d + i] = g[d + 1] + (i - 1) /\ c[g[d + i]] = s[i]
<1> SUFFICES ASSUME NEW i \in 1..Len(s)
             PROVE  /\ d + i \in 1..Len(B) /\ d + 1 \in 1..Len(B) /\ B[d + i] # <<Star>>
                    /\ g[d + 1] \in Nat /\ g[d + i] = g[d + 1] + (i - 1) /\ c[g[d + i]] = s[i]
  OBVIOUS
<1>1. Len(s) \in Nat /\ d + Len(s) <= Len(B) /\ \A j \in 1..Len(s) : B[d + j] = s[j] /\ s[j] \in V
  BY LenProperties, ElementOfSeq DEF Segment
<1>2. \A k \in 1..Len(B) : g[k] \in Nat
  <2>1. g \in [1..Len(B) -> 2..Len(c)]
    BY DEF Lies
  <2> QED BY <2>1
<1>3. \A v \in V : v # <<Star>>
  <2>1. \A v \in V : Free(v, Star)
    BY DEF AreWords
  <2>2. ~Free(<<Star>>, Star)
    <3>1. Len(<<Star>>) = 1 /\ <<Star>>[1] = Star /\ 1 \in 1..1
      OBVIOUS
    <3> QED BY <3>1 DEF Free
  <2> QED BY <2>1, <2>2
<1>4. ASSUME NEW j \in 1..Len(s)
      PROVE  /\ d + j \in 1..Len(B) /\ B[d + j] = s[j] /\ c[g[d + j]] = s[j] /\ B[d + j] # <<Star>>
             /\ j < Len(s) => g[d + (j + 1)] = g[d + j] + 1
  <2>1. d + j \in 1..Len(B) /\ (j < Len(s) => d + j < Len(B)) /\ (d + j) + 1 = d + (j + 1)
    BY <1>1
  <2>2. B[d + j] = s[j] /\ B[d + j] # <<Star>>
    BY <1>1, <1>3
  <2>3. c[g[d + j]] = B[d + j] /\ (d + j < Len(B) => g[(d + j) + 1] = g[d + j] + 1)
    BY <2>1, <2>2 DEF Lies
  <2> QED BY <2>1, <2>2, <2>3
<1> DEFINE T == {m \in Nat : m + 1 <= Len(s) => g[d + (m + 1)] = g[d + 1] + m}
<1>5. 1 \in 1..Len(s) /\ d + 1 \in 1..Len(B) /\ g[d + 1] \in Nat
  <2>1. 1 \in 1..Len(s)
    BY <1>1
  <2> QED BY <1>2, <1>4, <2>1
<1>6. 0 \in T
  BY <1>5
<1>7. ASSUME NEW m \in Nat, m \in T PROVE m + 1 \in T
  <2> SUFFICES ASSUME (m + 1) + 1 <= Len(s) PROVE g[d + ((m + 1) + 1)] = g[d + 1] + (m + 1)
    OBVIOUS
  <2>1. m + 1 \in 1..Len(s) /\ m + 1 < Len(s) /\ m + 1 <= Len(s)
    BY <1>1
  <2>2. g[d + ((m + 1) + 1)] = g[d + (m + 1)] + 1
    BY <1>4, <2>1
  <2>3. g[d + (m + 1)] = g[d + 1] + m
    BY <1>7, <2>1
  <2>4. g[d + ((m + 1) + 1)] = (g[d + 1] + m) + 1
    BY <2>2, <2>3
  <2> QED BY <1>5, <2>4
<1> HIDE DEF T
<1>8. Nat \subseteq T
  BY <1>6, <1>7, NatSetInduction
<1>9. i - 1 \in Nat /\ (i - 1) + 1 = i /\ (i - 1) + 1 <= Len(s)
  BY <1>1
<1>10. i - 1 \in T
  BY <1>8, <1>9
<1>11. g[d + ((i - 1) + 1)] = g[d + 1] + (i - 1)
  BY <1>9, <1>10 DEF T
<1>12. g[d + i] = g[d + 1] + (i - 1)
  BY <1>9, <1>11
<1> QED BY <1>4, <1>5, <1>12

\* The end of a command from a position on, word by word.
LEMMA FromIs ==
  ASSUME NEW W, NEW c \in Seq(W), NEW n \in 1..Len(c)
  PROVE  /\ From(c, n + 1) \in Seq(W) /\ Len(From(c, n + 1)) = Len(c) - n
         /\ \A i \in 1..(Len(c) - n) : From(c, n + 1)[i] = c[n + i]
<1>1. Len(c) \in Nat /\ \A i \in (n + 1)..Len(c) : c[i] \in W
  BY LenProperties, ElementOfSeq
<1>2. n + 1 \in Int /\ Len(c) \in Int
  BY <1>1
<1> DEFINE u == SubSeq(c, n + 1, Len(c))
<1>3. /\ u \in Seq(W)
      /\ Len(u) = IF n + 1 <= Len(c) THEN Len(c) - (n + 1) + 1 ELSE 0
      /\ \A i \in 1..(Len(c) - (n + 1) + 1) : u[i] = c[n + 1 + i - 1]
  BY <1>1, <1>2, SubSeqProperties
<1>4. From(c, n + 1) = u
  BY DEF From
<1> HIDE DEF u
<1>5. Len(u) = Len(c) - n
  BY <1>1, <1>3
<1>6. ASSUME NEW i \in 1..(Len(c) - n) PROVE u[i] = c[n + i]
  <2>1. i \in 1..(Len(c) - (n + 1) + 1) /\ n + 1 + i - 1 = n + i
    BY <1>1
  <2> QED BY <1>3, <2>1
<1> QED BY <1>3, <1>4, <1>5, <1>6

\* An entry runs commands that its rule matches; in front of no option, with
\* the subcommands in their place.
LEMMA EntryRunsMatched ==
  ASSUME NEW D, NEW W, NEW V, AreWords(D, W, V), NEW r, IsRule(r, V), <<>> \notin r.tail,
         r.exact => r.tail = {}, NEW options \in SUBSET V, NEW entry \in CursorEntries(r, options),
         NEW c \in Seq(W), c # <<>>, CursorRuns(entry, c)
  PROVE  /\ c[1] = r.command /\ r.text = {} /\ MatchesBare(r, c, options, TRUE)
         /\ ~(Len(c) > 1 /\ \E o \in options : IsPrefix(o, c[2])) => SubcommandStands(r, c, 1)
<1> DEFINE B == entry.words
           sub == r.subcommand
           size == Len(sub)
<1>1. /\ entry.program = r.command /\ r.text = {} /\ B \in Seq(EntryWord(V))
      /\ \E d : /\ HeadAt(r, options, B, d)
                /\ r.tail # {} => \E s, e : TailAt(r, B, d, s, e)
                /\ r.exact => Len(B) = d + size /\ ~entry.plain
                /\ r.tail = {} /\ size = 0 => B = <<>>
  BY EntryShape
<1>2. PICK d : /\ HeadAt(r, options, B, d)
               /\ r.tail # {} => \E s, e : TailAt(r, B, d, s, e)
               /\ r.exact => Len(B) = d + size /\ ~entry.plain
               /\ r.tail = {} /\ size = 0 => B = <<>>
  BY <1>1
<1>3. /\ sub \in Seq(V) /\ size \in Nat /\ Len(B) \in Nat /\ Len(c) \in Nat \ {0} /\ V \subseteq W
      /\ d \in Nat /\ Segment(B, d, sub) /\ (d > 0 => size > 0 /\ B[1] \in options)
  BY <1>1, <1>2, LenProperties, EmptySeq DEF HeadAt, IsRule, AreWords
<1>4. ASSUME NEW s, NEW e, TailAt(r, B, d, s, e)
      PROVE  s \in Seq(V) /\ Len(s) \in Nat /\ Len(s) > 0 /\ e \in Nat /\ e >= d + size /\ Segment(B, e, s)
  <2>1. s \in Seq(V) /\ s # <<>> /\ e \in Nat /\ e >= d + size /\ Segment(B, e, s)
    BY <1>4 DEF TailAt, IsRule
  <2> QED BY <2>1, LenProperties, EmptySeq
<1>5. B = <<>> \/ \E k \in 1..Len(B) : B[k] \in V
  <2>1. ASSUME NEW s \in Seq(V), NEW e \in Nat, Segment(B, e, s), Len(s) > 0 PROVE \E k \in 1..Len(B) : B[k] \in V
    <3>1. Len(s) \in Nat /\ 1 \in 1..Len(s) /\ e + Len(s) <= Len(B) /\ B[e + 1] = s[1] /\ s[1] \in V
      BY <2>1, LenProperties, ElementOfSeq DEF Segment
    <3>2. e + 1 \in 1..Len(B)
      BY <1>3, <3>1
    <3> QED BY <3>1, <3>2
  <2>2. CASE size > 0
    BY <1>3, <2>1, <2>2
  <2>3. CASE size = 0 /\ r.tail = {}
    BY <1>2, <2>3
  <2>4. CASE r.tail # {}
    <3>1. PICK s, e : TailAt(r, B, d, s, e)
      BY <1>2, <2>4
    <3> QED BY <1>4, <2>1, <3>1
  <2> QED BY <1>3, <2>2, <2>3, <2>4
<1> HIDE DEF B
<1>6. PICK g : Lies(B, c, g) /\ (~entry.plain => Ends(B, c, g))
  BY <1>1, <1>5, EntryLies DEF B
<1>7. /\ \A k \in 1..Len(B) : g[k] \in 2..Len(c) /\ g[k] \in Nat
      /\ Len(B) > 0 => g[1] = 2
  <2>1. g \in [1..Len(B) -> 2..Len(c)] /\ (Len(B) > 0 => g[1] = 2)
    BY <1>6 DEF Lies
  <2> QED BY <1>3, <2>1
<1>8. c[1] = r.command
  BY <1>1 DEF CursorRuns
<1>8a. \A i \in 1..size : /\ d + i \in 1..Len(B) /\ d + 1 \in 1..Len(B) /\ B[d + i] # <<Star>>
                           /\ g[d + 1] \in Nat /\ g[d + i] = g[d + 1] + (i - 1) /\ c[g[d + i]] = sub[i]
  BY <1>3, <1>6, SegmentLies
<1>9. size > 0 => /\ d + size \in 1..Len(B) /\ d + 1 \in 1..Len(B)
                  /\ B[d + size] # <<Star>> /\ g[d + 1] \in Nat /\ g[d + size] = g[d + 1] + (size - 1)
  <2> HIDE DEF size
  <2>1. size > 0 => size \in 1..size
    BY <1>3
  <2> QED BY <1>8a, <2>1
<1> DEFINE n == IF size = 0 THEN 1 ELSE g[d + size]
<1>10. n \in 1..Len(c)
  <2>1. size > 0 => g[d + size] \in 2..Len(c)
    BY <1>7, <1>9
  <2> QED BY <1>3, <2>1
<1>11. SubcommandEndsAt(r, c, n)
  <2> SUFFICES ASSUME NEW i \in 1..size PROVE c[n - size + i] = sub[i]
    BY DEF SubcommandEndsAt
  <2>1. g[d + i] = g[d + 1] + (i - 1) /\ c[g[d + i]] = sub[i]
    BY <1>8a
  <2>2. size > 0 /\ i \in Nat
    BY <1>3
  <2>3. n = g[d + 1] + (size - 1) /\ g[d + 1] \in Nat
    BY <1>9, <2>2
  <2> HIDE DEF n
  <2>4. n - size + i = g[d + 1] + (i - 1)
    BY <1>3, <2>2, <2>3
  <2> QED BY <2>1, <2>4
<1>12. d = 0 => n = size + 1
  <2>1. d = 0 /\ size > 0 => g[d + 1] = 2
    BY <1>3, <1>7, <1>9
  <2>2. CASE size = 0
    BY <2>2
  <2>3. CASE size > 0
    BY <1>3, <1>9, <2>1, <2>3
  <2> QED BY <1>3, <2>2, <2>3
<1>13. d > 0 => /\ size > 0 /\ Len(c) > 1 /\ n >= size + 2
                /\ \E o \in options : IsPrefix(o, c[2])
  <2> SUFFICES ASSUME d > 0 PROVE /\ size > 0 /\ Len(c) > 1 /\ n >= size + 2
                                  /\ \E o \in options : IsPrefix(o, c[2])
    OBVIOUS
  <2>1. size > 0 /\ B[1] \in options /\ 1 \in 1..Len(B) /\ d + 1 \in 1..Len(B) /\ 1 < d + 1
    BY <1>3, <1>9
  <2>2. g[1] = 2 /\ g[1] \in 2..Len(c)
    BY <1>7, <2>1
  <2>3. g[1] < g[d + 1]
    BY <1>3, <1>6, <2>1, LiesRises
  <2>4. n = g[d + 1] + (size - 1) /\ g[d + 1] \in Nat
    BY <1>9, <2>1
  <2> HIDE DEF n
  <2>5. n >= size + 2
    BY <1>3, <2>2, <2>3, <2>4
  <2>6. B[1] # <<Star>>
    <3>1. B[1] \in V
      BY <2>1
    <3>2. Free(B[1], Star)
      BY <3>1 DEF AreWords
    <3>3. ~Free(<<Star>>, Star)
      <4>1. Len(<<Star>>) = 1 /\ <<Star>>[1] = Star /\ 1 \in 1..1
        OBVIOUS
      <4> QED BY <4>1 DEF Free
    <3> QED BY <3>2, <3>3
  <2>7. c[2] = B[1]
    BY <1>6, <2>1, <2>2, <2>6 DEF Lies
  <2>8. IsPrefix(c[2], c[2])
    BY DEF IsPrefix
  <2> QED BY <1>3, <2>1, <2>2, <2>5, <2>7, <2>8
<1>14. HeadStandsAt(r, c, options, n)
  <2> HIDE DEF n
  <2>1. d = 0 \/ d > 0
    BY <1>3
  <2> QED BY <1>8, <1>11, <1>12, <1>13, <2>1 DEF HeadStandsAt
<1>15. r.exact => n = Len(c)
  <2> SUFFICES ASSUME r.exact PROVE n = Len(c)
    OBVIOUS
  <2>1. Ends(B, c, g) /\ Len(B) = d + size
    BY <1>2, <1>6 DEF B
  <2>2. CASE size = 0
    <3>1. Len(B) = 0
      BY <1>3, <2>1, <2>2
    <3> QED BY <2>1, <2>2, <3>1 DEF Ends
  <2>3. CASE size > 0
    <3>1. Len(B) # 0 /\ B[Len(B)] # <<Star>>
      BY <1>3, <1>9, <2>1, <2>3
    <3> QED BY <2>1, <2>3, <3>1 DEF Ends
  <2> QED BY <1>3, <2>2, <2>3
<1>16. ASSUME r.tail # {}
       PROVE  \E s \in r.tail : \E i \in (n + 1)..(Len(c) - Len(s) + 1) : SubSeq(c, i, i + Len(s) - 1) = s
  <2>1. PICK s, e : TailAt(r, B, d, s, e)
    BY <1>2, <1>16 DEF B
  <2>2. s \in Seq(V) /\ Len(s) \in Nat /\ Len(s) > 0 /\ e \in Nat /\ e >= d + size /\ Segment(B, e, s)
    BY <1>4, <2>1 DEF B
  <2>3. \A j \in 1..Len(s) : /\ e + j \in 1..Len(B) /\ e + 1 \in 1..Len(B)
                             /\ g[e + 1] \in Nat /\ g[e + j] = g[e + 1] + (j - 1) /\ c[g[e + j]] = s[j]
    BY <1>3, <1>6, <2>2, SegmentLies
  <2> DEFINE i == g[e + 1]
  <2>4. Len(s) \in 1..Len(s) /\ 1 \in 1..Len(s)
    BY <2>2
  <2>5. i \in 2..Len(c) /\ i \in Nat /\ i + (Len(s) - 1) <= Len(c) /\ i + (Len(s) - 1) \in Nat
    <3>1. g[e + Len(s)] = i + (Len(s) - 1) /\ e + Len(s) \in 1..Len(B) /\ e + 1 \in 1..Len(B)
      BY <2>3, <2>4
    <3>2. g[e + Len(s)] \in 2..Len(c) /\ g[e + 1] \in 2..Len(c) /\ g[e + 1] \in Nat
      BY <1>7, <3>1
    <3> HIDE DEF i
    <3>3. i + (Len(s) - 1) \in 2..Len(c)
      BY <3>1, <3>2
    <3> QED BY <1>3, <3>2, <3>3 DEF i
  <2>6. n < i
    <3>1. CASE size = 0
      BY <2>5, <3>1
    <3>2. CASE size > 0
      <4>1. d + size \in 1..Len(B) /\ e + 1 \in 1..Len(B) /\ d + size < e + 1
        BY <1>3, <1>9, <2>2, <2>3, <2>4, <3>2
      <4>2. g[d + size] < g[e + 1]
        BY <1>3, <1>6, <4>1, LiesRises
      <4> QED BY <3>2, <4>2
    <3> QED BY <1>3, <3>1, <3>2
  <2>7. \A j \in 1..Len(s) : c[(i - 1) + j] = s[j]
    <3> SUFFICES ASSUME NEW j \in 1..Len(s) PROVE c[(i - 1) + j] = s[j]
      OBVIOUS
    <3>1. g[e + j] = i + (j - 1) /\ c[g[e + j]] = s[j]
      BY <2>3
    <3> HIDE DEF i
    <3>2. i + (j - 1) = (i - 1) + j
      BY <2>2, <2>5
    <3> QED BY <3>1, <3>2
  <2> HIDE DEF i, n
  <2>8. i \in (n + 1)..(Len(c) - Len(s) + 1)
    BY <1>3, <1>10, <2>2, <2>5, <2>6
  <2>9. SubSeq(c, i, i + Len(s) - 1) = s
    <3>1. s \in Seq(W)
      BY <1>3, <2>2, SeqMonotonic
    <3>2. i - 1 \in Nat /\ (i - 1) + 1 = i
      BY <2>5
    <3>3. PICK a \in Nat : a = i - 1
      BY <3>2
    <3>4. /\ a + 1 = i /\ a + Len(s) <= Len(c) /\ a + Len(s) = i + Len(s) - 1
      BY <1>3, <2>2, <2>5, <3>3
    <3>5. \A j \in 1..Len(s) : c[a + j] = s[j]
      BY <2>7, <3>3
    <3>6. SubSeq(c, a + 1, a + Len(s)) = SubSeq(s, 1, Len(s))
      BY <2>2, <3>1, <3>4, <3>5, SameStretch
    <3>7. SubSeq(s, 1, Len(s)) = s
      BY <2>2
    <3> QED BY <3>4, <3>6, <3>7
  <2>10. s \in r.tail
    BY <2>1 DEF TailAt
  <2> QED BY <2>8, <2>9, <2>10
<1> HIDE DEF n
<1>17. MatchesBare(r, c, options, TRUE)
  <2>1. n \in DOMAIN c
    BY <1>10
  <2>2. IsRule(r, W)
    <3>1. r.command \in W /\ r.exact \in BOOLEAN /\ r.tail \subseteq Seq(V) /\ r.subcommand \in Seq(V)
      BY <1>3 DEF IsRule
    <3> QED BY <1>3, <3>1, SeqMonotonic DEF IsRule
  <2>3. HeadEndsAt(r, c, options, n) /\ HeadIsWhole(r, c, n)
    BY <1>10, <1>14, <2>2, HeadPlaces
  <2> QED BY <1>1, <1>15, <1>16, <2>1, <2>3 DEF MatchesBare
<1>18. ASSUME ~(Len(c) > 1 /\ \E o \in options : IsPrefix(o, c[2])) PROVE SubcommandStands(r, c, 1)
  <2>1. d = 0 /\ n = size + 1
    BY <1>3, <1>12, <1>13, <1>18
  <2> DEFINE rest == From(c, 1 + 1)
  <2>2. rest \in Seq(W) /\ Len(rest) = Len(c) - 1 /\ \A i \in 1..(Len(c) - 1) : rest[i] = c[1 + i]
    <3>1. 1 \in 1..Len(c)
      BY <1>3
    <3> QED BY <3>1, FromIs
  <2> HIDE DEF rest
  <2>3. size <= Len(c) - 1 /\ \A i \in 1..size : i \in 1..(Len(c) - 1) /\ n - size + i = 1 + i
    BY <1>3, <1>10, <2>1
  <2>4. \A i \in 1..size : rest[i] = sub[i]
    BY <1>11, <2>2, <2>3 DEF SubcommandEndsAt
  <2>5. sub \in Seq(W)
    BY <1>3, SeqMonotonic
  <2>6. IsPrefix(sub, rest)
    <3>1. StandsBehind(sub, rest, 0)
      <4>1. \A i \in 1..size : 0 + i = i
        OBVIOUS
      <4> QED BY <1>3, <2>2, <2>3, <2>4, <4>1 DEF StandsBehind
    <3> QED BY <2>2, <2>5, <3>1, PrefixIs
  <2>7. r.exact => sub = rest
    <3> SUFFICES ASSUME r.exact PROVE sub = rest
      OBVIOUS
    <3>1. Len(rest) = size
      BY <1>3, <1>15, <2>1, <2>2
    <3> QED BY <2>2, <2>4, <2>5, <3>1, SeqEqual
  <2> QED BY <2>6, <2>7 DEF SubcommandStands, rest
<1> QED BY <1>1, <1>8, <1>17, <1>18

-----------------------------------------------------------------------------
(* Guards and allows of one command.                                       *)

\* Nonempty words without spaces, and those without stars, are such words.
LEMMA WordsAreWords ==
  ASSUME NEW C, Space \notin C
  PROVE  AreWords(C \cup {Space, Star}, WordsOver(C), WordsOver(C \ {Star}))
<1> DEFINE D == C \cup {Space, Star}
<1>1. Space \in D /\ Star \in D
  OBVIOUS
<1>2. Seq(C \ {Star}) \subseteq Seq(C) /\ Seq(C) \subseteq Seq(D)
  BY SeqMonotonic
<1>3. WordsOver(C) \subseteq Seq(D) /\ WordsOver(C \ {Star}) \subseteq WordsOver(C)
  BY <1>2 DEF WordsOver
<1>4. ASSUME NEW w \in WordsOver(C) PROVE w # <<>> /\ Free(w, Space)
  <2>1. w # <<>> /\ w \in Seq(C)
    BY DEF WordsOver
  <2>2. \A i \in 1..Len(w) : w[i] \in C
    BY <2>1, ElementOfSeq
  <2> QED BY <2>1, <2>2 DEF Free
<1>5. ASSUME NEW v \in WordsOver(C \ {Star}) PROVE Free(v, Star)
  <2>1. v \in Seq(C \ {Star})
    BY DEF WordsOver
  <2>2. \A i \in 1..Len(v) : v[i] \in C \ {Star}
    BY <2>1, ElementOfSeq
  <2> QED BY <2>2 DEF Free
<1> QED BY <1>1, <1>3, <1>4, <1>5 DEF AreWords

\* Of two prefixes of one sequence, one is a prefix of the other.
LEMMA PrefixesCompare ==
  ASSUME NEW W, NEW s \in Seq(W), NEW t \in Seq(W), NEW u \in Seq(W), IsPrefix(s, u), IsPrefix(t, u)
  PROVE  IsPrefix(s, t) \/ IsPrefix(t, s)
<1>1. StandsBehind(s, u, 0) /\ StandsBehind(t, u, 0)
  BY PrefixIs
<1>2. Len(s) \in Nat /\ Len(t) \in Nat
  BY LenProperties
<1>3. /\ \A i \in 1..Len(s) : s[i] = u[0 + i]
      /\ \A i \in 1..Len(t) : t[i] = u[0 + i]
  BY <1>1 DEF StandsBehind
<1>4. CASE Len(s) <= Len(t)
  <2>1. 0 + Len(s) <= Len(t) /\ \A i \in 1..Len(s) : i \in 1..Len(t) /\ 0 + i = i
    BY <1>2, <1>4
  <2>2. StandsBehind(s, t, 0)
    BY <1>3, <2>1 DEF StandsBehind
  <2> QED BY <2>2, PrefixIs
<1>5. CASE Len(t) <= Len(s)
  <2>1. 0 + Len(t) <= Len(s) /\ \A i \in 1..Len(t) : i \in 1..Len(s) /\ 0 + i = i
    BY <1>2, <1>5
  <2>2. StandsBehind(t, s, 0)
    BY <1>3, <2>1 DEF StandsBehind
  <2> QED BY <2>2, PrefixIs
<1> QED BY <1>2, <1>4, <1>5

\* Two heads that stand in one place of a command collide.
LEMMA StandingTogether ==
  ASSUME NEW W, NEW r, IsRule(r, W), NEW g, IsRule(g, W), r.text = {}, g.tail = {}, g.text = {},
         r.command = g.command, NEW c \in Seq(W), NEW n \in 1..Len(c),
         SubcommandStands(r, c, n), SubcommandStands(g, c, n), NEW options
  PROVE  Narrows(r, g) \/ PrefixOverlaps(g, r, options)
<1> DEFINE rest == From(c, n + 1)
<1>1. /\ rest \in Seq(W) /\ r.subcommand \in Seq(W) /\ g.subcommand \in Seq(W)
      /\ r.exact \in BOOLEAN /\ g.exact \in BOOLEAN
  BY FromIs DEF IsRule
<1>2. /\ r.exact => r.subcommand = rest
      /\ ~r.exact => IsPrefix(r.subcommand, rest)
      /\ g.exact => g.subcommand = rest
      /\ ~g.exact => IsPrefix(g.subcommand, rest)
  BY DEF SubcommandStands
<1> HIDE DEF rest
<1>3. Within(r.tail, g.tail) /\ Within(r.text, g.text)
  BY DEF Within
<1>4. CASE r.exact
  <2>1. IF g.exact THEN r.exact /\ r.subcommand = g.subcommand ELSE IsPrefix(g.subcommand, r.subcommand)
    BY <1>1, <1>2, <1>4
  <2> QED BY <1>3, <2>1 DEF Narrows
<1>5. CASE ~r.exact
  <2>1. IsPrefix(r.subcommand, g.subcommand) \/ (~g.exact /\ IsPrefix(g.subcommand, r.subcommand))
    BY <1>1, <1>2, <1>5, PrefixesCompare
  <2>2. CASE IsPrefix(r.subcommand, g.subcommand)
    BY <1>5, <2>2 DEF PrefixOverlaps
  <2>3. CASE ~g.exact /\ IsPrefix(g.subcommand, r.subcommand)
    BY <1>3, <2>3 DEF Narrows
  <2> QED BY <2>1, <2>2, <2>3
<1> QED BY <1>1, <1>4, <1>5

\* Where a subcommand stands, its words are those of the command.
LEMMA StandingWords ==
  ASSUME NEW W, NEW r, IsRule(r, W), NEW c \in Seq(W), NEW n \in 1..Len(c), SubcommandStands(r, c, n)
  PROVE  \A i \in 1..Len(r.subcommand) : c[n + i] = r.subcommand[i]
<1> DEFINE rest == From(c, n + 1)
           sub == r.subcommand
<1>1. /\ rest \in Seq(W) /\ Len(rest) = Len(c) - n
      /\ \A i \in 1..(Len(c) - n) : rest[i] = c[n + i]
  BY FromIs
<1>2. sub \in Seq(W) /\ Len(sub) \in Nat /\ Len(c) \in Nat
  BY LenProperties DEF IsRule
<1>3. sub = rest \/ IsPrefix(sub, rest)
  BY DEF SubcommandStands
<1> HIDE DEF rest
<1>4. Len(sub) <= Len(rest) /\ \A i \in 1..Len(sub) : rest[i] = sub[i]
  <2>1. CASE sub = rest
    BY <1>2, <2>1
  <2>2. CASE IsPrefix(sub, rest)
    <3>1. StandsBehind(sub, rest, 0)
      BY <1>1, <1>2, <2>2, PrefixIs
    <3>2. 0 + Len(sub) <= Len(rest) /\ \A i \in 1..Len(sub) : rest[0 + i] = sub[i]
      BY <3>1 DEF StandsBehind
    <3>3. 0 + Len(sub) = Len(sub) /\ \A i \in 1..Len(sub) : 0 + i = i
      BY <1>2
    <3> QED BY <3>2, <3>3
  <2> QED BY <1>3, <2>1, <2>2
<1>5. \A i \in 1..Len(sub) : i \in 1..(Len(c) - n)
  BY <1>1, <1>2, <1>4
<1> QED BY <1>1, <1>4, <1>5

\* A sequence that another ends in, word by word, is its end and a suffix.
LEMMA EndIs ==
  ASSUME NEW W, NEW s \in Seq(W), NEW t \in Seq(W), NEW k \in Nat, Len(t) = k + Len(s),
         \A i \in 1..Len(s) : t[k + i] = s[i]
  PROVE  From(t, k + 1) = s /\ IsSuffix(s, t)
<1> DEFINE u == Reverse(s)
           v == Reverse(t)
<1>1. Len(s) \in Nat /\ Len(t) \in Nat /\ k + Len(s) <= Len(t) /\ Len(s) <= Len(s)
  BY LenProperties
<1>2. SubSeq(t, k + 1, k + Len(s)) = SubSeq(s, 1, Len(s))
  BY <1>1, SameStretch
<1>3. From(t, k + 1) = s
  BY <1>2 DEF From
<1>4. /\ u \in Seq(W) /\ Len(u) = Len(s) /\ \A i \in 1..Len(s) : u[i] = s[(Len(s) - i) + 1]
      /\ v \in Seq(W) /\ Len(v) = Len(t) /\ \A i \in 1..Len(t) : v[i] = t[(Len(t) - i) + 1]
  <2>1. /\ \A i \in 1..Len(s) : (Len(s) - i) + 1 \in 1..Len(s)
        /\ \A i \in 1..Len(t) : (Len(t) - i) + 1 \in 1..Len(t)
    BY <1>1
  <2>2. /\ \A i \in 1..Len(s) : s[(Len(s) - i) + 1] \in W
        /\ \A i \in 1..Len(t) : t[(Len(t) - i) + 1] \in W
    BY <2>1, ElementOfSeq
  <2> QED BY <1>1, <2>2, IsASeq DEF Reverse
<1> HIDE DEF u, v
<1>5. ASSUME NEW i \in 1..Len(s) PROVE v[0 + i] = u[i]
  <2>1. (Len(s) - i) + 1 \in Nat
    BY <1>1
  <2>2. PICK h \in Nat : h = (Len(s) - i) + 1
    BY <2>1
  <2>3. /\ i \in 1..Len(t) /\ h \in 1..Len(s) /\ (Len(t) - i) + 1 = k + h /\ 0 + i = i
    BY <1>1, <2>2
  <2>4. v[i] = t[k + h] /\ u[i] = s[h]
    BY <1>4, <2>2, <2>3
  <2>5. t[k + h] = s[h]
    BY <2>3
  <2> QED BY <2>3, <2>4, <2>5
<1>6. 0 + Len(u) <= Len(v)
  BY <1>1, <1>4
<1>7. StandsBehind(u, v, 0)
  BY <1>4, <1>5, <1>6 DEF StandsBehind
<1>8. IsSuffix(s, t)
  BY <1>4, <1>7, PrefixIs DEF IsSuffix, u, v
<1> QED BY <1>3, <1>8

\* Heads that end at one word, with only options more in the longer one,
\* collide: each of the two checks for options is for one of them.
LEMMA EndingTogether ==
  ASSUME NEW W, NEW r, IsRule(r, W), NEW g, IsRule(g, W), r.command = g.command, ~r.exact,
         NEW c \in Seq(W), NEW n \in 1..Len(c), NEW m \in 1..Len(c), n # m,
         SubcommandStands(r, c, n), SubcommandStands(g, c, m),
         n + Len(r.subcommand) = m + Len(g.subcommand),
         NEW options, \A i \in ((n + 1)..m) \cup ((m + 1)..n) : c[i] \in options
  PROVE  PrefixOverlaps(g, r, options) \/ RidesOptions(g, r, options)
<1> DEFINE R == r.subcommand
           G == g.subcommand
<1>1. R \in Seq(W) /\ G \in Seq(W) /\ Len(R) \in Nat /\ Len(G) \in Nat /\ n \in Nat /\ m \in Nat
  BY LenProperties DEF IsRule
<1>2. (\A i \in 1..Len(R) : c[n + i] = R[i]) /\ (\A i \in 1..Len(G) : c[m + i] = G[i])
  BY StandingWords
<1> HIDE DEF R, G
<1>3. CASE n < m
  <2>1. PICK k \in Nat : k = m - n
    BY <1>1, <1>3
  <2>2. /\ k > 0 /\ Len(R) = k + Len(G) /\ Len(R) - Len(G) = k
        /\ \A i \in 1..Len(G) : k + i \in 1..Len(R) /\ n + (k + i) = m + i
        /\ \A i \in 1..k : i \in 1..Len(R) /\ n + i \in (n + 1)..m
    BY <1>1, <1>3, <2>1 DEF R, G
  <2>3. \A i \in 1..Len(G) : R[k + i] = G[i]
    BY <1>2, <2>2
  <2>4. From(R, k + 1) = G
    BY <1>1, <2>2, <2>3, EndIs
  <2>5. \A i \in 1..k : R[i] \in options
    BY <1>2, <2>2
  <2> QED BY <2>2, <2>4, <2>5 DEF RidesOptions, R, G
<1>4. CASE m < n
  <2>1. PICK k \in Nat : k = n - m
    BY <1>1, <1>4
  <2>2. /\ k > 0 /\ Len(G) = k + Len(R)
        /\ \A i \in 1..Len(R) : k + i \in 1..Len(G) /\ m + (k + i) = n + i
        /\ 1 \in 1..Len(G) /\ m + 1 \in (m + 1)..n
    BY <1>1, <1>4, <2>1 DEF R, G
  <2>3. \A i \in 1..Len(R) : G[k + i] = R[i]
    BY <1>2, <2>2
  <2>4. G[1] \in options /\ G # <<>>
    BY <1>1, <1>2, <2>2
  <2>5. CASE Len(R) = 0
    <3>1. StandsBehind(R, G, 0)
      BY <1>1, <2>5 DEF StandsBehind
    <3>2. IsPrefix(R, G)
      BY <1>1, <3>1, PrefixIs
    <3> QED BY <3>2 DEF PrefixOverlaps, R, G
  <2>6. CASE Len(R) > 0
    <3>1. IsSuffix(R, G)
      BY <1>1, <2>2, <2>3, EndIs
    <3> QED BY <2>4, <2>6, <3>1 DEF PrefixOverlaps, R, G
  <2> QED BY <1>1, <2>5, <2>6
<1> QED BY <1>1, <1>3, <1>4

\* A head that matches a command behind no option stands right behind the
\* program.
LEMMA GuardStands ==
  ASSUME NEW W, NEW g, IsRule(g, W), g.text = {}, NEW c \in Seq(W), NEW options,
         MatchesBare(g, c, options, TRUE)
  PROVE  /\ c[1] = g.command
         /\ ~(Len(c) > 1 /\ \E o \in options : IsPrefix(o, c[2])) => SubcommandStands(g, c, 1)
<1> DEFINE sub == g.subcommand
           size == Len(sub)
<1>1. PICK n \in 1..Len(c) : /\ HeadEndsAt(g, c, options, n) /\ HeadIsWhole(g, c, n)
                             /\ g.exact => n = Len(c)
  <2>1. DOMAIN c = 1..Len(c)
    OBVIOUS
  <2> QED BY <2>1 DEF MatchesBare
<1>2. HeadStandsAt(g, c, options, n)
  BY <1>1, HeadPlaces
<1>3. sub \in Seq(W) /\ size \in Nat /\ Len(c) \in Nat
  BY LenProperties DEF IsRule
<1>4. ASSUME ~(Len(c) > 1 /\ \E o \in options : IsPrefix(o, c[2])) PROVE SubcommandStands(g, c, 1)
  <2>1. n = size + 1
    <3>1. n >= size + 2 => Len(c) > 1
      BY <1>3
    <3> QED BY <1>2, <1>4, <3>1 DEF HeadStandsAt
  <2> DEFINE rest == From(c, 1 + 1)
  <2>2. rest \in Seq(W) /\ Len(rest) = Len(c) - 1 /\ \A i \in 1..(Len(c) - 1) : rest[i] = c[1 + i]
    <3>1. 1 \in 1..Len(c)
      BY <1>3
    <3> QED BY <3>1, FromIs
  <2> HIDE DEF rest
  <2>3. size <= Len(c) - 1 /\ \A i \in 1..size : i \in 1..(Len(c) - 1) /\ n - size + i = 1 + i /\ 0 + i = i
    BY <1>3, <2>1
  <2>4. \A i \in 1..size : c[n - size + i] = sub[i]
    BY <1>2 DEF HeadStandsAt, SubcommandEndsAt
  <2>5. \A i \in 1..size : rest[i] = sub[i]
    BY <2>2, <2>3, <2>4
  <2>6. IsPrefix(sub, rest)
    <3>1. 0 + size <= Len(rest)
      BY <1>3, <2>2, <2>3
    <3>2. StandsBehind(sub, rest, 0)
      BY <2>3, <2>5, <3>1 DEF StandsBehind
    <3> QED BY <1>3, <2>2, <3>2, PrefixIs
  <2>7. g.exact => sub = rest
    <3> SUFFICES ASSUME g.exact PROVE sub = rest
      OBVIOUS
    <3>1. Len(rest) = size
      BY <1>1, <1>3, <2>1, <2>2
    <3> QED BY <1>3, <2>2, <2>5, <3>1, SeqEqual
  <2> QED BY <2>6, <2>7 DEF SubcommandStands, rest
<1> QED BY <1>2, <1>4 DEF HeadStandsAt

\* What an entry matches, in a policy whose rules are on no wrapper and no
\* assignment.
LEMMA EntryMatchIs ==
  ASSUME TypeOK, NEW e \in entries, NEW c \in Commands
  PROVE  /\ MatchesBare(e.rule, c, OptionsOf(e.rule), TRUE) => EntryMatches(e, c)
         /\ /\ EntryMatches(e, c) /\ c[1] \notin Wrappers
            /\ e.rule.command \in Programs => c[1] \notin Assignments[e.rule.command]
            => MatchesBare(e.rule, c, OptionsOf(e.rule), TRUE)
<1> DEFINE known == Known(e.rule.command)
           assignments == IF known THEN Assignments[e.rule.command] ELSE {}
           asked == [bucket |-> e.bucket, rule |-> e.rule]
<1>1. known \in BOOLEAN /\ e.rule \in Rules /\ e.bucket \in Buckets
  BY DEF TypeOK, Entries, Known
<1>2. (IF known THEN Options[e.rule.command] ELSE {}) = OptionsOf(e.rule)
  BY DEF OptionsOf, VocabularyOf, Known
<1>3. EntryMatches(e, c) <=> Matches(asked, c, OptionsOf(e.rule), assignments, TRUE)
  BY <1>1, <1>2 DEF EntryMatches, Reached
<1>4. asked.rule = e.rule
  OBVIOUS
<1>5. known => e.rule.command \in Programs
  BY DEF TypeOK, Known, Vocabularies
<1> HIDE DEF asked
<1> QED BY <1>3, <1>4, <1>5 DEF Matches

\* What Cursor runs unasked an allow of the policy matches, and no ask or deny
\* for a head does, behind an option where both read the command alike
\* (targets/cursor.py, _terminal_allowlist): for any rules, fragments, options
\* and commands over any characters. Words are not empty and have no spaces,
\* those of rules and options no stars, as the schema has them; no rule is about
\* a wrapper or an assignment itself, which no code checks.
THEOREM CursorIsWithheld ==
  ASSUME NEW C, Space \notin C, Commands \subseteq Seq(WordsOver(C)), <<>> \notin Commands,
         \A r \in Rules : IsRule(r, WordsOver(C \ {Star})) /\ <<>> \notin r.tail,
         \A p \in Programs : Options[p] \subseteq WordsOver(C \ {Star}),
         \A r \in Rules : r.command \notin Wrappers,
         \A r, s \in Rules : s.command \in Programs => r.command \notin Assignments[s.command]
  PROVE  Spec => []CursorWithholds
<1> DEFINE D == C \cup {Space, Star}
           W == WordsOver(C)
           V == WordsOver(C \ {Star})
<1>1. AreWords(D, W, V)
  BY WordsAreWords
<1>2. TypeOK => CursorWithholds
  <2> SUFFICES ASSUME TypeOK, Loaded PROVE CursorWithholds
    BY DEF CursorWithholds
  <2> HIDE DEF D, W, V
  <2>1. ASSUME NEW e \in entries
        PROVE  /\ e.rule \in Rules /\ e.bucket \in Buckets /\ IsRule(e.rule, V) /\ IsRule(e.rule, W)
               /\ <<>> \notin e.rule.tail /\ OptionsOf(e.rule) \in SUBSET V
               /\ e.rule.exact => e.rule.tail = {}
    <3>1. e.rule \in Rules /\ e.bucket \in Buckets
      BY DEF TypeOK, Entries
    <3>2. IsRule(e.rule, V) /\ <<>> \notin e.rule.tail
      BY <3>1 DEF V
    <3>3. V \subseteq W
      BY <1>1 DEF AreWords
    <3>4. Seq(V) \subseteq Seq(W)
      BY <3>3, SeqMonotonic
    <3>5. IsRule(e.rule, W)
      BY <3>2, <3>3, <3>4 DEF IsRule
    <3>6. OptionsOf(e.rule) \subseteq V
      <4>1. Known(e.rule.command) => e.rule.command \in Programs
        BY DEF TypeOK, Known, Vocabularies
      <4> QED BY <4>1 DEF OptionsOf, VocabularyOf, Known, V
    <3>7. e.rule.exact => e.rule.tail = {}
      BY DEF TypeOK, Loaded, Valid, IllFormed
    <3> QED BY <3>1, <3>2, <3>5, <3>6, <3>7
  <2>2. ASSUME NEW r \in Allowlist, NEW c \in Commands, NEW entry \in CursorEntries(r, OptionsOf(r)),
               CursorRuns(entry, c)
        PROVE  /\ c \in Seq(W) /\ c[1] = r.command /\ r.text = {}
               /\ MatchesBare(r, c, OptionsOf(r), TRUE)
               /\ ~BehindOption(r, c) => SubcommandStands(r, c, 1)
               /\ \E e \in entries \ Guards : e.rule = r
    <3>1. PICK e \in entries \ Guards : e.rule = r
      BY DEF Allowlist
    <3>2. /\ IsRule(r, V) /\ <<>> \notin r.tail /\ OptionsOf(r) \in SUBSET V
          /\ r.exact => r.tail = {}
      BY <2>1, <3>1
    <3>3. c \in Seq(W) /\ c # <<>>
      BY DEF W
    <3> DEFINE options == OptionsOf(r)
    <3>4. options \in SUBSET V /\ entry \in CursorEntries(r, options)
      BY <2>2, <3>2
    <3> HIDE DEF options
    <3>5. /\ c[1] = r.command /\ r.text = {} /\ MatchesBare(r, c, options, TRUE)
          /\ ~(Len(c) > 1 /\ \E o \in options : IsPrefix(o, c[2])) => SubcommandStands(r, c, 1)
      BY <1>1, <2>2, <3>2, <3>3, <3>4, EntryRunsMatched
    <3> QED BY <3>1, <3>3, <3>5 DEF BehindOption, options
  <2>3. ASSUME NEW r \in Allowlist, NEW c \in Commands, NEW entry \in CursorEntries(r, OptionsOf(r)),
               CursorRuns(entry, c), NEW g \in Guards, ~Conditional(g), EntryMatches(g, c),
               BehindOption(r, c) => ReadAlike(r, g.rule, c)
        PROVE  FALSE
    <3>1. PICK a \in entries \ Guards : a.rule = r
      BY <2>2, <2>3
    <3>2. /\ c \in Seq(W) /\ c[1] = r.command /\ r.text = {}
          /\ ~BehindOption(r, c) => SubcommandStands(r, c, 1)
      BY <2>2, <2>3
    <3>3. g \in entries /\ g.bucket # "allow" /\ g.rule.tail = {} /\ g.rule.text = {}
      BY <2>3 DEF Guards, Conditional
    <3>4. /\ r \in Rules /\ g.rule \in Rules /\ IsRule(r, W) /\ IsRule(g.rule, W)
      BY <2>1, <3>1, <3>3
    <3>5. MatchesBare(g.rule, c, OptionsOf(g.rule), TRUE)
      BY <2>3, <3>2, <3>3, <3>4, EntryMatchIs
    <3>6. /\ c[1] = g.rule.command
          /\ ~(Len(c) > 1 /\ \E o \in OptionsOf(g.rule) : IsPrefix(o, c[2])) => SubcommandStands(g.rule, c, 1)
      BY <3>2, <3>3, <3>4, <3>5, GuardStands
    <3>7. OptionsOf(g.rule) = OptionsOf(r)
      BY <3>2, <3>6 DEF OptionsOf
    <3>8. PICK n \in 1..Len(c), m \in 1..Len(c) :
             /\ SubcommandStands(r, c, n) /\ SubcommandStands(g.rule, c, m)
             /\ \/ n = m
                \/ /\ ~r.exact /\ n + Len(r.subcommand) = m + Len(g.rule.subcommand)
                   /\ \A i \in ((n + 1)..m) \cup ((m + 1)..n) : c[i] \in OptionsOf(r)
      <4>1. CASE BehindOption(r, c)
        <5>1. DOMAIN c = 1..Len(c)
          BY <3>2
        <5> QED BY <2>3, <4>1, <5>1 DEF ReadAlike
      <4>2. CASE ~BehindOption(r, c)
        <5>1. SubcommandStands(r, c, 1) /\ SubcommandStands(g.rule, c, 1)
          BY <3>2, <3>6, <3>7, <4>2 DEF BehindOption
        <5>2. c # <<>>
          BY <2>3
        <5>3. 1 \in 1..Len(c)
          BY <3>2, <5>2, EmptySeq, LenProperties
        <5> QED BY <5>1, <5>3
      <4> QED BY <4>1, <4>2
    <3>9. \/ Narrows(r, g.rule) \/ PrefixOverlaps(g.rule, r, OptionsOf(g.rule))
          \/ RidesOptions(g.rule, r, OptionsOf(g.rule))
      <4>1. CASE n = m
        BY <3>2, <3>3, <3>4, <3>6, <3>8, <4>1, StandingTogether
      <4>2. CASE n # m
        <5> DEFINE options == OptionsOf(r)
        <5>1. \A i \in ((n + 1)..m) \cup ((m + 1)..n) : c[i] \in options
          BY <3>8, <4>2
        <5> HIDE DEF options
        <5>2. PrefixOverlaps(g.rule, r, options) \/ RidesOptions(g.rule, r, options)
          BY <3>2, <3>4, <3>6, <3>8, <4>2, <5>1, EndingTogether
        <5> QED BY <3>7, <5>2 DEF options
      <4> QED BY <4>1, <4>2
    <3>10. ~Collides(g.rule, r)
      BY <2>3 DEF Allowlist
    <3>11. Narrows(r, g.rule)
      BY <3>9, <3>10 DEF Collides
    <3>12. a \in entries /\ a.bucket = "allow" /\ a # g
      BY <2>1, <3>1, <3>3 DEF Guards
    <3>13. Contradict(a, g)
      <4>1. Strictness[a.bucket] <= Strictness[g.bucket]
        BY <2>1, <3>3, <3>12 DEF Strictness, Buckets
      <4> QED BY <3>1, <3>11, <4>1 DEF Contradict
    <3> QED BY <3>3, <3>12, <3>13 DEF TypeOK, Loaded, Valid
  <2>4. ~Slips({e \in Guards : ~Conditional(e)})
    BY <2>3 DEF Slips
  <2>5. ASSUME NEW c \in Commands, CursorAutoRuns(c) PROVE \E e \in Matching(c) : e.bucket = "allow"
    <3>1. PICK r \in Allowlist : \E entry \in CursorEntries(r, OptionsOf(r)) : CursorRuns(entry, c)
      BY <2>5 DEF CursorAutoRuns
    <3>2. MatchesBare(r, c, OptionsOf(r), TRUE) /\ \E e \in entries \ Guards : e.rule = r
      BY <2>2, <3>1
    <3>3. PICK e \in entries \ Guards : e.rule = r
      BY <3>2
    <3>4. EntryMatches(e, c) /\ e \in entries
      BY <3>2, <3>3, EntryMatchIs
    <3>5. e.bucket = "allow"
      BY <3>3 DEF Guards
    <3> QED BY <3>4, <3>5 DEF Matching
  <2> QED BY <2>4, <2>5 DEF CursorWithholds
<1> QED BY <1>2, TypeCorrect, PTL

-----------------------------------------------------------------------------
(* Patterns that cover each other.                                         *)

\* Laying one pattern over the first part of another, and that part over a text.
LEMMA LaidThrough ==
  ASSUME NEW q, NEW p, NEW t, NEW l \in Nat, NEW n \in Nat, NEW j \in Nat,
         LaysOver(q, p, l, n), LaysOver(p, t, n, j)
  PROVE  LaysOver(q, t, l, j)
<1>1. PICK f : Laid(q, p, l, n, f)
  BY DEF LaysOver
<1>2. PICK g : Laid(p, t, n, j, g)
  BY DEF LaysOver
<1>3. /\ \A k \in 0..l : f[k] \in 0..n
      /\ \A k \in 0..n : g[k] \in 0..j
      /\ f[0] = 0 /\ f[l] = n /\ g[0] = 0 /\ g[n] = j
  BY <1>1, <1>2 DEF Laid
<1>4. \A a \in 0..n : \A b \in 0..n : a <= b => g[a] <= g[b]
  BY <1>2, LaidRises
<1> DEFINE h == [k \in 0..l |-> g[f[k]]]
<1>5. h \in [0..l -> 0..j] /\ h[0] = 0 /\ h[l] = j /\ \A k \in 0..l : h[k] = g[f[k]]
  BY <1>3
<1> HIDE DEF h
<1>6. ASSUME NEW k \in 1..l
      PROVE  IF q[k] = Star THEN h[k - 1] <= h[k] ELSE h[k] = h[k - 1] + 1 /\ q[k] = t[h[k]]
  <2>1. k \in 0..l /\ k - 1 \in 0..l
    OBVIOUS
  <2>2. PICK m \in 0..l : m = k - 1
    BY <2>1
  <2>3. f[k] \in 0..n /\ f[m] \in 0..n /\ h[k] = g[f[k]] /\ h[m] = g[f[m]]
    BY <1>3, <1>5, <2>1
  <2>4. IF q[k] = Star THEN f[m] <= f[k] ELSE f[k] = f[m] + 1 /\ q[k] = p[f[k]]
    BY <1>1, <2>2 DEF Laid
  <2>5. CASE q[k] = Star
    BY <1>4, <2>2, <2>3, <2>4, <2>5
  <2>6. CASE q[k] # Star
    <3>1. f[k] = f[m] + 1 /\ q[k] = p[f[k]] /\ p[f[k]] # Star
      BY <2>4, <2>6
    <3>2. f[k] \in 1..n /\ f[k] - 1 = f[m]
      BY <2>3, <3>1
    <3>3. g[f[k]] = g[f[k] - 1] + 1 /\ p[f[k]] = t[g[f[k]]]
      BY <1>2, <3>1, <3>2 DEF Laid
    <3> QED BY <2>2, <2>3, <2>6, <3>1, <3>2, <3>3
  <2> QED BY <2>5, <2>6
<1>7. Laid(q, t, l, j, h)
  BY <1>5, <1>6 DEF Laid
<1> QED BY <1>7 DEF LaysOver

\* A pattern that matches another one's text matches what that one matches.
LEMMA GlobComposes ==
  ASSUME NEW q, NEW p, NEW t, Len(q) \in Nat, Len(p) \in Nat, Len(t) \in Nat, Glob(q, p), Glob(p, t)
  PROVE  Glob(q, t)
<1>1. LaysOver(q, p, Len(q), Len(p)) /\ LaysOver(p, t, Len(p), Len(t))
  BY GlobIs
<1>2. LaysOver(q, t, Len(q), Len(t))
  BY <1>1, LaidThrough
<1> QED BY <1>2, GlobIs

\* No two stars follow one another.
Apart(q) == \A k \in 1..(Len(q) - 1) : q[k] = Star => q[k + 1] # Star

\* A pattern without its final " *".
BareForm(q) == SubSeq(q, 1, Len(q) - 2)

\* A pattern that covers one with a final hole matches what that one matches
\* without its hole, itself or without a final hole of its own.
LEMMA HoleCovered ==
  ASSUME NEW D, NEW q \in Seq(D), NEW p \in Seq(D), NEW t, Len(t) \in Nat, Apart(q),
         Glob(q, p), EndsWithHole(p), Glob(BareForm(p), t)
  PROVE  Glob(q, t) \/ (EndsWithHole(q) /\ Glob(BareForm(q), t))
<1> DEFINE l == Len(q)
           n == Len(p)
           j == Len(t)
<1>1. l \in Nat /\ n \in Nat /\ j \in Nat /\ n >= 2 /\ p[n] = Star /\ p[n - 1] = Space
  BY LenProperties DEF EndsWithHole
<1>2. PICK m \in Nat : m + 2 = n
  <2>1. n - 2 \in Nat /\ (n - 2) + 2 = n
    BY <1>1
  <2> QED BY <2>1
<1>3. LaysOver(q, p, l, n)
  BY <1>1, GlobIs
<1>4. LaysOver(p, t, m, j)
  <2>1. BareForm(p) = SubSeq(p, 1, m) /\ Len(SubSeq(p, 1, m)) = m /\ \A k \in 1..m : SubSeq(p, 1, m)[k] = p[k]
    <3>1. n - 2 = m /\ \A k \in 1..m : p[k] \in D
      BY <1>1, <1>2, ElementOfSeq
    <3> QED BY <3>1, <1>1, <1>2, SubSeqProperties DEF BareForm
  <2>2. LaysOver(SubSeq(p, 1, m), t, m, j)
    BY <1>1, <2>1, GlobIs
  <2>3. PICK f : Laid(SubSeq(p, 1, m), t, m, j, f)
    BY <2>2 DEF LaysOver
  <2>4. Laid(p, t, m, j, f)
    BY <2>1, <2>3 DEF Laid
  <2> QED BY <2>4 DEF LaysOver
<1>5. PICK f : Laid(q, p, l, n, f)
  BY <1>3 DEF LaysOver
<1> HIDE DEF l, n, j
<1>6. /\ f \in [0..l -> 0..n] /\ f[0] = 0 /\ f[l] = n /\ \A k \in 0..l : f[k] \in 0..n /\ f[k] \in Nat
      /\ \A k \in 1..l : IF q[k] = Star THEN f[k - 1] <= f[k] ELSE f[k] = f[k - 1] + 1 /\ q[k] = p[f[k]]
  BY <1>1, <1>5 DEF Laid
<1>7. Space # Star
  BY DEF Space, Star
<1>8. CASE \E k \in 1..l : q[k] # Star /\ f[k] > m
  <2>1. PICK k \in 1..l : q[k] # Star /\ f[k] > m
    BY <1>8
  <2>2. f[k] \in 0..n /\ q[k] = p[f[k]] /\ k - 1 \in 0..l /\ f[k] = f[k - 1] + 1
    BY <1>1, <1>6, <2>1
  <2>3. f[k] = m + 1 /\ f[k - 1] = m
    <3>1. f[k] # n
      BY <1>1, <2>1, <2>2
    <3>2. f[k - 1] \in Nat
      BY <1>6, <2>2
    <3> QED BY <1>1, <1>2, <2>1, <2>2, <3>1, <3>2
  <2>4. q[k] = Space
    <3>1. n - 1 = m + 1
      BY <1>1, <1>2
    <3> QED BY <1>1, <2>2, <2>3, <3>1
  <2>5. ASSUME NEW i \in 0..l, k <= i PROVE f[i] >= m + 1
    <3>1. PICK h \in 0..l : h = k
      BY <1>1
    <3>2. f[h] <= f[i] /\ f[h] = m + 1 /\ f[i] \in Nat
      BY <1>1, <1>5, <1>6, <2>3, <2>5, <3>1, LaidRises
    <3> QED BY <3>2
  <2>6. ASSUME NEW i \in 1..l, k < i PROVE q[i] = Star
    <3> SUFFICES ASSUME q[i] # Star PROVE FALSE
      OBVIOUS
    <3>1. PICK h \in 0..l : h = i - 1
      BY <1>1
    <3>2. f[i] = f[h] + 1 /\ q[i] = p[f[i]] /\ f[h] >= m + 1 /\ f[h] \in Nat
      BY <1>1, <1>6, <2>5, <2>6, <3>1
    <3>3. f[i] \in 0..n /\ f[i] >= m + 2
      BY <1>6, <3>2
    <3>4. f[i] = n
      BY <1>1, <1>2, <3>3
    <3> QED BY <1>1, <3>2, <3>4
  <2>7. k < l
    <3>1. k # l
      BY <1>1, <1>2, <1>6, <2>3
    <3> QED BY <1>1, <3>1
  <2>8. k + 1 = l
    <3> SUFFICES ASSUME k + 1 < l PROVE FALSE
      BY <1>1, <2>7
    <3>1. k + 1 \in 1..l /\ k + 1 \in 1..(l - 1) /\ (k + 1) + 1 \in 1..l /\ k < k + 1 /\ k < (k + 1) + 1
      BY <1>1
    <3>2. q[k + 1] = Star /\ q[(k + 1) + 1] = Star
      BY <2>6, <3>1
    <3> QED BY <3>1, <3>2 DEF Apart, l
  <2>9. EndsWithHole(q)
    <3>1. q[l] = Star /\ l >= 2 /\ l - 1 = k
      BY <1>1, <2>6, <2>7, <2>8
    <3> QED BY <2>4, <3>1 DEF EndsWithHole, l
  <2>10. PICK h \in Nat : h + 1 = k
    BY <1>1
  <2>11. h \in 0..l /\ h = k - 1 /\ h + 2 = l /\ l - 2 = h
    BY <1>1, <2>8, <2>10
  <2>12. f[h] = m
    BY <2>3, <2>11
  <2>13. ASSUME NEW i \in 0..h PROVE f[i] <= m
    <3>1. i \in 0..l /\ i <= h
      BY <1>1, <2>11
    <3> QED BY <1>1, <1>5, <2>11, <2>12, <3>1, LaidRises
  <2>14. LaysOver(q, p, h, m)
    <3> DEFINE g == [i \in 0..h |-> f[i]]
    <3>1. \A i \in 0..h : i \in 0..l
      BY <1>1, <2>11
    <3>2. g \in [0..h -> 0..m] /\ g[0] = 0 /\ g[h] = m /\ \A i \in 0..h : g[i] = f[i]
      <4>1. \A i \in 0..h : f[i] \in 0..m
        BY <1>6, <2>13, <3>1
      <4> QED BY <1>6, <2>12, <4>1
    <3> HIDE DEF g
    <3>3. \A i \in 1..h : i \in 1..l /\ i \in 0..h /\ i - 1 \in 0..h
      BY <1>1, <2>11
    <3>4. \A i \in 1..h : IF q[i] = Star THEN g[i - 1] <= g[i] ELSE g[i] = g[i - 1] + 1 /\ q[i] = p[g[i]]
      BY <1>6, <3>2, <3>3
    <3> QED BY <3>2, <3>4 DEF LaysOver, Laid
  <2>15. LaysOver(q, t, h, j)
    BY <1>1, <1>4, <2>14, LaidThrough
  <2>16. Glob(BareForm(q), t)
    <3>1. BareForm(q) = SubSeq(q, 1, h) /\ Len(SubSeq(q, 1, h)) = h /\ \A i \in 1..h : SubSeq(q, 1, h)[i] = q[i]
      <4>1. h <= l /\ \A i \in 1..h : q[i] \in D
        BY <1>1, <2>11, ElementOfSeq DEF l
      <4>2. BareForm(q) = SubSeq(q, 1, h)
        BY <2>11 DEF BareForm, l
      <4> QED BY <4>1, <4>2, SubSeqProperties
    <3>2. PICK g : Laid(q, t, h, j, g)
      BY <2>15 DEF LaysOver
    <3>3. Laid(SubSeq(q, 1, h), t, h, j, g)
      BY <3>1, <3>2 DEF Laid
    <3>4. LaysOver(SubSeq(q, 1, h), t, h, j)
      BY <3>3 DEF LaysOver
    <3> QED BY <1>1, <3>1, <3>4, GlobIs DEF j
  <2> QED BY <2>9, <2>16
<1>9. CASE \A k \in 1..l : q[k] # Star => f[k] <= m
  <2> DEFINE g == [k \in 0..l |-> IF f[k] <= m THEN f[k] ELSE m]
  <2>1. g \in [0..l -> 0..m] /\ g[0] = 0 /\ g[l] = m /\ \A k \in 0..l : g[k] = IF f[k] <= m THEN f[k] ELSE m
    <3>1. \A k \in 0..l : (IF f[k] <= m THEN f[k] ELSE m) \in 0..m
      BY <1>6
    <3>2. 0 \in 0..l /\ l \in 0..l /\ ~(n <= m)
      BY <1>1, <1>2
    <3> QED BY <1>6, <3>1, <3>2
  <2> HIDE DEF g
  <2>2. ASSUME NEW k \in 1..l
        PROVE  IF q[k] = Star THEN g[k - 1] <= g[k] ELSE g[k] = g[k - 1] + 1 /\ q[k] = p[g[k]]
    <3>1. PICK h \in 0..l : h = k - 1
      BY <1>1
    <3>2. k \in 0..l /\ f[k] \in Nat /\ f[h] \in Nat
      BY <1>1, <1>6, <3>1
    <3>3. IF q[k] = Star THEN f[h] <= f[k] ELSE f[k] = f[h] + 1 /\ q[k] = p[f[k]]
      BY <1>6, <3>1
    <3>4. g[k] = (IF f[k] <= m THEN f[k] ELSE m) /\ g[h] = (IF f[h] <= m THEN f[h] ELSE m)
      BY <2>1, <3>2
    <3>5. CASE q[k] = Star
      <4>1. g[h] <= g[k]
        BY <3>2, <3>3, <3>4, <3>5
      <4> QED BY <3>1, <3>5, <4>1
    <3>6. CASE q[k] # Star
      <4>1. f[k] = f[h] + 1 /\ q[k] = p[f[k]] /\ f[k] <= m
        BY <1>9, <3>3, <3>6
      <4>2. g[k] = f[k] /\ g[h] = f[h]
        BY <3>2, <3>4, <4>1
      <4> QED BY <3>1, <3>6, <4>1, <4>2
    <3> QED BY <3>5, <3>6
  <2>3. LaysOver(q, p, l, m)
    BY <2>1, <2>2 DEF LaysOver, Laid
  <2>4. LaysOver(q, t, l, j)
    BY <1>1, <1>4, <2>3, LaidThrough
  <2> QED BY <1>1, <2>4, GlobIs DEF l, j
<1>10. \A k \in 1..l : f[k] <= m \/ f[k] > m
  <2>1. \A k \in 1..l : k \in 0..l
    BY <1>1
  <2>2. \A k \in 1..l : f[k] \in Nat
    BY <1>6, <2>1
  <2> QED BY <2>2
<1> QED BY <1>8, <1>9, <1>10

\* q matches more than p.
Covers(q, p) == Glob(q, p) /\ ~Glob(p, q)

\* Of finitely many patterns, one is covered by none of them.
LEMMA Topmost ==
  ASSUME NEW D, NEW S \in SUBSET Seq(D), IsFiniteSet(S), S # {}
  PROVE  \E m \in S : \A q \in S : ~Covers(q, m)
<1> DEFINE Topped(X) == \E m \in X : \A q \in X : ~Covers(q, m)
           T == {n \in Nat : \A X \in SUBSET S : IsFiniteSet(X) /\ Cardinality(X) = n /\ X # {} => Topped(X)}
<1>1. \A q, p, r \in S : Covers(q, p) /\ Covers(p, r) => Covers(q, r)
  <2> SUFFICES ASSUME NEW q \in S, NEW p \in S, NEW r \in S, Covers(q, p), Covers(p, r) PROVE Covers(q, r)
    OBVIOUS
  <2>1. Len(q) \in Nat /\ Len(p) \in Nat /\ Len(r) \in Nat
    BY LenProperties
  <2>2. Glob(q, r)
    BY <2>1, GlobComposes DEF Covers
  <2>3. Glob(r, q) => Glob(p, q)
    BY <2>1, GlobComposes DEF Covers
  <2> QED BY <2>2, <2>3 DEF Covers
<1>2. 0 \in T
  BY FS_EmptySet
<1>3. ASSUME NEW n \in Nat, n \in T PROVE n + 1 \in T
  <2> SUFFICES ASSUME NEW X \in SUBSET S, IsFiniteSet(X), Cardinality(X) = n + 1, X # {} PROVE Topped(X)
    OBVIOUS
  <2>1. PICK x \in X : TRUE
    OBVIOUS
  <2> DEFINE Y == X \ {x}
  <2>2. IsFiniteSet(Y) /\ Cardinality(Y) = n /\ Y \in SUBSET S
    <3>1. IsFiniteSet(X \ {x}) /\ Cardinality(X \ {x}) = Cardinality(X) - 1
      BY <2>1, FS_RemoveElement
    <3> QED BY <3>1
  <2>3. ~Covers(x, x)
    BY DEF Covers
  <2>4. CASE Y = {}
    BY <2>1, <2>3, <2>4
  <2>5. CASE Y # {}
    <3>1. Topped(Y)
      BY <1>3, <2>2, <2>5
    <3>2. PICK m \in Y : \A q \in Y : ~Covers(q, m)
      BY <3>1
    <3>3. CASE ~Covers(x, m)
      BY <2>1, <3>2, <3>3
    <3>4. CASE Covers(x, m)
      <4>1. ASSUME NEW q \in X PROVE ~Covers(q, x)
        <5>1. q \in Y => ~Covers(q, m)
          BY <3>2
        <5>2. Covers(q, x) => Covers(q, m)
          BY <1>1, <2>1, <3>4
        <5> QED BY <2>3, <5>1, <5>2
      <4> QED BY <2>1, <4>1
    <3> QED BY <3>3, <3>4
  <2> QED BY <2>4, <2>5
<1> HIDE DEF Topped, T
<1>4. Nat \subseteq T
  BY <1>2, <1>3, NatSetInduction
<1>5. Cardinality(S) \in Nat
  BY FS_CardinalityType
<1>6. Topped(S)
  BY <1>4, <1>5 DEF T
<1> QED BY <1>6 DEF Topped

\* What one of the patterns matches, one that is not dropped matches.
LEMMA GlobsSurvive ==
  ASSUME NEW D, NEW P \in SUBSET Seq(D), IsFiniteSet(P), NEW t, Len(t) \in Nat, NEW p \in P, Glob(p, t)
  PROVE  \E q \in Uncovered(P) : Glob(q, t)
<1> DEFINE S == {q \in P : Glob(q, t)}
<1>1. S \in SUBSET Seq(D) /\ IsFiniteSet(S) /\ S # {}
  BY FS_Subset
<1>2. PICK m \in S : \A q \in S : ~Covers(q, m)
  BY <1>1, Topmost
<1>3. ASSUME NEW q \in P, Glob(q, m), ~Glob(m, q) PROVE FALSE
  <2>1. Len(q) \in Nat /\ Len(m) \in Nat /\ Glob(m, t)
    BY LenProperties
  <2>2. Glob(q, t)
    BY <1>3, <2>1, GlobComposes
  <2> QED BY <1>2, <1>3, <2>2 DEF Covers
<1> QED BY <1>3 DEF Uncovered

\* Whatever one of finitely many patterns matches on a tool, one that is not
\* dropped matches there. Where a tool reads a final hole as matching nothing
\* only if the pattern has no other, each pattern with another one comes with
\* its bare form.
LEMMA UncoveredSuits ==
  ASSUME NEW D, NEW P \in SUBSET Seq(D), IsFiniteSet(P), \A p \in P : Apart(p), NEW tool,
         \A p \in P : tool.optionalTrailing \/ (EndsWithHole(p) /\ HasStar(Front(p)) => BareForm(p) \in P),
         NEW c, Len(Join(c)) \in Nat
  PROVE  (\E p \in Uncovered(P) : Suits(tool, p, c)) <=> (\E p \in P : Suits(tool, p, c))
<1> DEFINE t == Join(c)
           Holed(p) == EndsWithHole(p) /\ (tool.optionalTrailing \/ ~HasStar(Front(p))) /\ Glob(BareForm(p), t)
<1>1. \A p : Suits(tool, p, c) <=> Glob(p, t) \/ Holed(p)
  BY DEF Suits, BareForm
<1>2. Uncovered(P) \subseteq P
  BY DEF Uncovered
<1> HIDE DEF t, Holed
<1>3. ASSUME NEW p \in P, Glob(p, t) PROVE \E q \in Uncovered(P) : Suits(tool, q, c)
  <2>1. Len(t) \in Nat
    BY DEF t
  <2>2. \E q \in Uncovered(P) : Glob(q, t)
    BY <1>3, <2>1, GlobsSurvive
  <2> QED BY <1>1, <2>2
<1>4. ASSUME NEW p \in P, Holed(p), \A q \in P : ~Glob(q, t) PROVE \E q \in Uncovered(P) : Suits(tool, q, c)
  <2> DEFINE S == {q \in P : Holed(q)}
  <2>1. S \in SUBSET Seq(D) /\ IsFiniteSet(S) /\ S # {}
    BY <1>4, FS_Subset
  <2>2. PICK m \in S : \A q \in S : ~Covers(q, m)
    BY <2>1, Topmost
  <2>3. ASSUME NEW q \in P, IsWide(q), Glob(q, m), ~Glob(m, q) PROVE FALSE
    <3>1. EndsWithHole(m) /\ Glob(BareForm(m), t) /\ m \in Seq(D) /\ Apart(q) /\ Len(t) \in Nat
      BY DEF Holed, t
    <3>2. EndsWithHole(q) /\ Glob(BareForm(q), t)
      BY <1>4, <2>3, <3>1, HoleCovered
    <3>3. CASE tool.optionalTrailing
      <4>1. q \in S
        BY <3>2, <3>3 DEF Holed
      <4> QED BY <2>2, <2>3, <4>1 DEF Covers
    <3>4. CASE ~tool.optionalTrailing
      <4>1. HasStar(Front(q))
        <5>1. q \in Seq(D) /\ Len(q) \in Nat /\ Len(q) >= 2
          BY <3>2, LenProperties DEF EndsWithHole
        <5>2. PICK i \in 1..(Len(q) - 1) : q[i] = Star
          BY <2>3 DEF IsWide
        <5>3. Len(Front(q)) = Len(q) - 1 /\ \A k \in 1..(Len(q) - 1) : Front(q)[k] = q[k]
          <6>1. PICK k \in Nat : k + 1 = Len(q)
            <7>1. Len(q) - 1 \in Nat /\ (Len(q) - 1) + 1 = Len(q)
              BY <5>1
            <7> QED BY <7>1
          <6>2. Front(q) = SubSeq(q, 1, k) /\ k = Len(q) - 1
            BY <5>1, <6>1 DEF Front
          <6>3. \A x \in 1..k : q[x] \in D
            BY <5>1, <6>1, ElementOfSeq
          <6> QED BY <5>1, <6>1, <6>2, <6>3, SubSeqProperties
        <5>4. DOMAIN Front(q) = 1..Len(Front(q))
          <6>1. Front(q) = SubSeq(q, 1, Len(q) - 1)
            BY DEF Front
          <6> QED BY <5>1, <6>1
        <5> QED BY <5>2, <5>3, <5>4 DEF HasStar
      <4>2. BareForm(q) \in P
        BY <3>2, <3>4, <4>1
      <4> QED BY <1>4, <3>2, <4>2
    <3> QED BY <3>3, <3>4
  <2>4. m \in Uncovered(P) /\ Holed(m)
    BY <2>3 DEF Uncovered
  <2> QED BY <1>1, <2>4
<1> QED BY <1>1, <1>2, <1>3, <1>4

-----------------------------------------------------------------------------
(* What emitted patterns are put together from.                            *)

\* A text patterns are put together from: not empty, no two stars in a row, and
\* none at the end.
Stemmed(D, u) == u \in Seq(D) /\ u # <<>> /\ Apart(u) /\ u[Len(u)] # Star

\* Put together, two of them are one.
LEMMA StemsJoin ==
  ASSUME NEW D, NEW u, Stemmed(D, u), NEW v, Stemmed(D, v)
  PROVE  Stemmed(D, u \o v)
<1> DEFINE w == u \o v
           m == Len(u)
           n == Len(v)
<1>1. /\ m \in Nat /\ n \in Nat /\ m > 0 /\ n > 0
      /\ u \in Seq(D) /\ v \in Seq(D) /\ u[m] # Star /\ v[n] # Star
      /\ \A k \in 1..(m - 1) : u[k] = Star => u[k + 1] # Star
      /\ \A k \in 1..(n - 1) : v[k] = Star => v[k + 1] # Star
  BY EmptySeq, LenProperties DEF Stemmed, Apart
<1>2. /\ w \in Seq(D) /\ Len(w) = m + n
      /\ \A i \in 1..(m + n) : w[i] = IF i <= m THEN u[i] ELSE v[i - m]
  BY <1>1, ConcatProperties
<1> HIDE DEF w, m, n
<1>3. /\ \A i \in 1..m : w[i] = u[i]
      /\ \A i \in 1..n : w[m + i] = v[i]
  <2>1. \A i \in 1..m : i \in 1..(m + n) /\ i <= m
    BY <1>1
  <2>2. \A i \in 1..n : m + i \in 1..(m + n) /\ ~(m + i <= m) /\ (m + i) - m = i
    BY <1>1
  <2>3. \A i \in 1..m : w[i] = u[i]
    BY <1>2, <2>1
  <2>4. \A i \in 1..n : w[m + i] = v[i]
    BY <1>2, <2>2
  <2> QED BY <2>3, <2>4
<1>4. ASSUME NEW k \in 1..(m + n - 1), w[k] = Star PROVE w[k + 1] # Star
  <2>1. CASE k < m
    <3>1. k \in 1..m /\ k + 1 \in 1..m /\ k \in 1..(m - 1)
      BY <1>1, <2>1
    <3> QED BY <1>1, <1>3, <1>4, <3>1
  <2>2. CASE k = m
    <3>1. k \in 1..m
      BY <1>1, <2>2
    <3> QED BY <1>1, <1>3, <1>4, <2>2, <3>1
  <2>3. CASE k > m
    <3>1. k - m \in 1..(n - 1)
      BY <1>1, <2>3
    <3>2. PICK h \in 1..(n - 1) : h = k - m
      BY <3>1
    <3>3. h \in 1..n /\ h + 1 \in 1..n /\ m + h = k /\ m + (h + 1) = k + 1
      BY <1>1, <2>3, <3>2
    <3>4. w[k] = v[h] /\ w[k + 1] = v[h + 1]
      BY <1>3, <3>3
    <3> QED BY <1>1, <1>4, <3>2, <3>4
  <2> QED BY <1>1, <2>1, <2>2, <2>3
<1>5. w[m + n] # Star
  <2>1. n \in 1..n
    BY <1>1
  <2> QED BY <1>1, <1>3, <2>1
<1>6. w # <<>> /\ Len(w) - 1 = m + n - 1
  <2>1. Len(w) > 0
    BY <1>1, <1>2
  <2>2. w # <<>>
    BY <2>1
  <2> QED BY <1>1, <1>2, <2>2
<1> QED BY <1>2, <1>4, <1>5, <1>6 DEF Stemmed, Apart, w

\* A star between two of them, or behind one.
LEMMA StarsJoin ==
  ASSUME NEW D, Star \in D, NEW u, Stemmed(D, u), NEW v \in Seq(D), Free(v, Star)
  PROVE  /\ v # <<>> => Stemmed(D, v) /\ Stemmed(D, u \o <<Star>> \o v)
         /\ u \o <<Star>> \in Seq(D) /\ Apart(u \o <<Star>>)
<1> DEFINE m == Len(u)
           n == Len(v)
           x == u \o <<Star>>
           w == x \o v
<1>1. /\ m \in Nat /\ n \in Nat /\ m > 0
      /\ u \in Seq(D) /\ u[m] # Star
      /\ \A k \in 1..(m - 1) : u[k] = Star => u[k + 1] # Star
      /\ \A k \in 1..n : v[k] # Star
  BY EmptySeq, LenProperties DEF Stemmed, Apart, Free
<1>2. <<Star>> \in Seq(D) /\ Len(<<Star>>) = 1 /\ <<Star>>[1] = Star
  OBVIOUS
<1>3. /\ x \in Seq(D) /\ Len(x) = m + 1
      /\ \A i \in 1..(m + 1) : x[i] = IF i <= m THEN u[i] ELSE <<Star>>[i - m]
  BY <1>1, <1>2, ConcatProperties
<1> HIDE DEF x, m
<1>4. x[m + 1] = Star /\ \A i \in 1..m : x[i] = u[i]
  <2>1. m + 1 \in 1..(m + 1) /\ ~(m + 1 <= m) /\ (m + 1) - m = 1
    BY <1>1
  <2>2. \A i \in 1..m : i \in 1..(m + 1) /\ i <= m
    BY <1>1
  <2>3. x[m + 1] = Star
    BY <1>2, <1>3, <2>1
  <2>4. \A i \in 1..m : x[i] = u[i]
    BY <1>3, <2>2
  <2> QED BY <2>3, <2>4
<1>5. Apart(x)
  <2> SUFFICES ASSUME NEW k \in 1..(Len(x) - 1), x[k] = Star PROVE x[k + 1] # Star
    BY DEF Apart
  <2>1. k \in 1..m /\ k # m
    BY <1>1, <1>3, <1>4
  <2>2. k \in 1..(m - 1) /\ k + 1 \in 1..m
    BY <1>1, <2>1
  <2> QED BY <1>1, <1>4, <2>1, <2>2
<1>6. ASSUME v # <<>> PROVE Stemmed(D, v) /\ Stemmed(D, w)
  <2>1. n > 0 /\ n \in 1..n /\ 1 \in 1..n
    BY <1>1, <1>6, EmptySeq
  <2>2. Stemmed(D, v)
    <3>1. \A k \in 1..(n - 1) : k + 1 \in 1..n
      BY <1>1
    <3> QED BY <1>1, <1>6, <2>1, <3>1 DEF Stemmed, Apart
  <2>3. /\ w \in Seq(D) /\ Len(w) = (m + 1) + n
        /\ \A i \in 1..((m + 1) + n) : w[i] = IF i <= m + 1 THEN x[i] ELSE v[i - (m + 1)]
    <3>1. /\ w \in Seq(D) /\ Len(w) = Len(x) + Len(v)
          /\ \A i \in 1..(Len(x) + Len(v)) : w[i] = IF i <= Len(x) THEN x[i] ELSE v[i - Len(x)]
      BY <1>3, ConcatProperties
    <3> HIDE DEF w
    <3> QED BY <1>3, <3>1
  <2> HIDE DEF w, n
  <2>4. \A i \in 1..(m + 1) : w[i] = x[i]
    <3>1. \A i \in 1..(m + 1) : i \in 1..((m + 1) + n) /\ i <= m + 1
      BY <1>1
    <3> QED BY <2>3, <3>1
  <2>5. \A i \in 1..n : w[(m + 1) + i] = v[i]
    <3>1. \A i \in 1..n : (m + 1) + i \in 1..((m + 1) + n) /\ ~((m + 1) + i <= m + 1) /\ ((m + 1) + i) - (m + 1) = i
      BY <1>1
    <3> QED BY <2>3, <3>1
  <2>6. ASSUME NEW k \in 1..(m + n), w[k] = Star PROVE w[k + 1] # Star
    <3>1. CASE k < m + 1
      <4>1. k \in 1..(m + 1) /\ k + 1 \in 1..(m + 1) /\ k \in 1..(Len(x) - 1)
        BY <1>1, <1>3, <3>1
      <4> QED BY <1>5, <2>4, <2>6, <4>1 DEF Apart
    <3>2. CASE k >= m + 1
      <4>1. k - m \in 1..n
        BY <1>1, <3>2
      <4>2. PICK h \in 1..n : h = k - m
        BY <4>1
      <4>3. (m + 1) + h = k + 1
        BY <1>1, <4>2
      <4> QED BY <1>1, <2>5, <4>2, <4>3 DEF n
    <3> QED BY <1>1, <3>1, <3>2
  <2>7. w[Len(w)] # Star /\ Len(w) - 1 = m + n /\ Len(w) > 0
    <3>1. w[(m + 1) + n] = v[n]
      BY <2>1, <2>5
    <3>2. v[n] # Star
      BY <1>1, <2>1 DEF n
    <3>3. (m + 1) + n - 1 = m + n /\ (m + 1) + n > 0
      BY <1>1
    <3>4. Len(w) = (m + 1) + n
      BY <2>3
    <3>5. w[Len(w)] # Star
      BY <3>1, <3>2, <3>4
    <3>6. Len(w) - 1 = m + n /\ Len(w) > 0
      <4>1. PICK c \in Nat : c = Len(w)
        BY <1>1, <3>4
      <4> QED BY <1>1, <3>4, <4>1
    <3> QED BY <3>5, <3>6
  <2>8. w # <<>>
    BY <2>7
  <2> QED BY <2>2, <2>3, <2>6, <2>7, <2>8 DEF Stemmed, Apart
<1> QED BY <1>3, <1>5, <1>6 DEF x

\* A text without stars, and some.
Plain(D, x) == x \in Seq(D \ {Star}) /\ x # <<>>

\* One is a stem.
LEMMA PlainIs ==
  ASSUME NEW D, NEW x, Plain(D, x)
  PROVE  Stemmed(D, x) /\ x \in Seq(D) /\ Free(x, Star)
<1>1. x \in Seq(D \ {Star}) /\ x # <<>> /\ Len(x) \in Nat
  BY LenProperties DEF Plain
<1>2. \A i \in 1..Len(x) : x[i] # Star
  BY <1>1, ElementOfSeq
<1>3. x \in Seq(D)
  BY <1>1, SeqMonotonic
<1>4. Len(x) \in 1..Len(x)
  BY <1>1, EmptySeq
<1>5. Apart(x)
  <2> SUFFICES ASSUME NEW k \in 1..(Len(x) - 1), x[k] = Star PROVE FALSE
    BY DEF Apart
  <2>1. k \in 1..Len(x)
    BY <1>1
  <2> QED BY <1>2, <2>1
<1> QED BY <1>1, <1>2, <1>3, <1>4, <1>5 DEF Stemmed, Free

\* Joined words have no stars if they have none.
LEMMA JoinPlain ==
  ASSUME NEW D, Space \in D, NEW ws \in Seq(Seq(D \ {Star})), ws # <<>>, ws[1] # <<>>
  PROVE  Plain(D, Join(ws))
<1>1. PICK S : S = D \ {Star}
  OBVIOUS
<1>2. Space \in S
  BY <1>1 DEF Space, Star
<1>3. ws \in Seq(Seq(S))
  BY <1>1
<1>4. PICK w \in Seq(S), t \in Seq(S) : w = ws[1] /\ t = Join(ws)
  BY <1>2, <1>3, JoinFirst
<1>5. t # <<>>
  <2>1. Len(ws) = 1 => t = w
    BY <1>2, <1>3, <1>4, JoinFirst
  <2>2. Len(ws) # 1 => \E b \in Seq(S) : t = Between(w, b)
    BY <1>2, <1>3, <1>4, JoinFirst
  <2>3. ASSUME NEW b \in Seq(S) PROVE Between(w, b) # <<>>
    <3>1. PICK h \in Seq(S) : h = Between(w, b) /\ Len(h) = Len(w) + (1 + Len(b)) /\ Len(w) \in Nat /\ Len(b) \in Nat
      BY <1>2, SpaceBetween
    <3>2. Len(h) # 0
      BY <3>1
    <3> QED BY <3>1, <3>2, EmptySeq
  <2> QED BY <1>4, <2>1, <2>2, <2>3
<1> QED BY <1>1, <1>4, <1>5 DEF Plain

\* The spaces and holes between words.
LEMMA SpacingsAre ==
  ASSUME NEW D, Space \in D, Star \in D
  PROVE  Stemmed(D, <<Space>>) /\ Stemmed(D, <<Star, Space>>) /\ Stemmed(D, <<Space, Star, Space>>)
<1>1. Space # Star
  BY DEF Space, Star
<1>2. Stemmed(D, <<Space>>)
  <2>1. <<Space>> \in Seq(D) /\ Len(<<Space>>) = 1 /\ <<Space>>[1] = Space /\ <<Space>> # <<>>
    OBVIOUS
  <2> QED BY <1>1, <2>1 DEF Stemmed, Apart
<1>3. Stemmed(D, <<Star, Space>>)
  <2> DEFINE u == <<Star, Space>>
  <2>1. u \in Seq(D) /\ Len(u) = 2 /\ u[1] = Star /\ u[2] = Space /\ u # <<>>
    OBVIOUS
  <2> HIDE DEF u
  <2>2. \A k \in 1..(2 - 1) : k = 1 /\ k + 1 = 2
    OBVIOUS
  <2>3. Apart(u)
    BY <1>1, <2>1, <2>2 DEF Apart
  <2>4. Stemmed(D, u)
    BY <1>1, <2>1, <2>3 DEF Stemmed
  <2> QED BY <2>4 DEF u
<1>4. Stemmed(D, <<Space, Star, Space>>)
  <2> DEFINE u == <<Space, Star, Space>>
  <2>1. u \in Seq(D) /\ Len(u) = 3 /\ u[1] = Space /\ u[2] = Star /\ u[3] = Space /\ u # <<>>
    OBVIOUS
  <2> HIDE DEF u
  <2>2. \A k \in 1..(3 - 1) : (k = 1 /\ k + 1 = 2) \/ (k = 2 /\ k + 1 = 3)
    OBVIOUS
  <2>3. Apart(u)
    BY <1>1, <2>1, <2>2 DEF Apart
  <2>4. Stemmed(D, u)
    BY <1>1, <2>1, <2>3 DEF Stemmed
  <2> QED BY <2>4 DEF u
<1> QED BY <1>2, <1>3, <1>4

\* The image of a finite set is finite.
LEMMA FiniteMap ==
  ASSUME NEW S, IsFiniteSet(S), NEW f
  PROVE  IsFiniteSet({f[x] : x \in S})
<1> DEFINE T == {f[x] : x \in S}
           g == [x \in S |-> f[x]]
<1>1. g \in Surjection(S, T)
  BY DEF Surjection
<1> HIDE DEF T, g
<1>2. IsFiniteSet(T)
  BY <1>1, FS_Surjection
<1> QED BY <1>2 DEF T

\* What is put in front of a pattern.
Fronted(D, prefix) == prefix = <<>> \/ Stemmed(D, prefix)

\* The heads of a rule's patterns are finitely many stems.
LEMMA HeadsAreStems ==
  ASSUME NEW D, Space \in D, Star \in D, NEW V, V \subseteq Seq(D \ {Star}) \ {<<>>},
         NEW r, IsRule(r, V), NEW options \in SUBSET V, IsFiniteSet(options),
         NEW prefix, Fronted(D, prefix)
  PROVE  /\ IsFiniteSet(GlobHeads(r, options, prefix))
         /\ \A h \in GlobHeads(r, options, prefix) : Stemmed(D, h)
<1> DEFINE first == prefix \o Join(HeadOf(r))
           f == [o \in options |-> prefix \o r.command \o <<Space>> \o o \o <<Star, Space>> \o Join(r.subcommand)]
           others == {f[o] : o \in options}
<1>1. \A v \in V : Plain(D, v)
  BY DEF Plain
<1>2. V \subseteq Seq(D \ {Star})
  OBVIOUS
<1>3. r.command \in V /\ r.subcommand \in Seq(V) /\ HeadOf(r) \in Seq(V) /\ HeadOf(r)[1] = r.command
      /\ Len(HeadOf(r)) = Len(r.subcommand) + 1
  BY HeadWords DEF IsRule
<1>4. ASSUME NEW ws \in Seq(V), ws # <<>> PROVE Stemmed(D, Join(ws))
  <2>1. ws \in Seq(Seq(D \ {Star}))
    BY <1>2, SeqMonotonic
  <2>2. ws[1] \in V
    <3>1. 1 \in 1..Len(ws)
      BY <1>4, EmptySeq, LenProperties
    <3> QED BY <3>1, ElementOfSeq
  <2>3. ws[1] # <<>>
    BY <2>2
  <2> QED BY <1>4, <2>1, <2>3, JoinPlain, PlainIs
<1>5. Stemmed(D, first)
  <2>1. HeadOf(r) # <<>>
    <3>1. Len(r.subcommand) \in Nat
      BY <1>3, LenProperties
    <3>2. Len(HeadOf(r)) # 0
      BY <1>3, <3>1
    <3> QED BY <1>3, <3>2, EmptySeq
  <2>2. Stemmed(D, Join(HeadOf(r)))
    BY <1>3, <1>4, <2>1
  <2>3. CASE prefix = <<>>
    <3>1. Join(HeadOf(r)) \in Seq(D)
      BY <2>2 DEF Stemmed
    <3>2. <<>> \o Join(HeadOf(r)) = Join(HeadOf(r))
      BY <3>1, ConcatEmptySeq
    <3> QED BY <2>2, <2>3, <3>2
  <2>4. CASE Stemmed(D, prefix)
    BY <2>2, <2>4, StemsJoin
  <2> QED BY <2>3, <2>4 DEF Fronted
<1>6. ASSUME NEW o \in options, r.subcommand # <<>> PROVE Stemmed(D, f[o])
  <2>1. Stemmed(D, r.command) /\ Stemmed(D, o) /\ r.command \in Seq(D)
    BY <1>1, <1>3, PlainIs
  <2>2. Stemmed(D, prefix \o r.command)
    <3>1. CASE prefix = <<>>
      <4>1. <<>> \o r.command = r.command
        BY <2>1, ConcatEmptySeq
      <4> QED BY <2>1, <3>1, <4>1
    <3>2. CASE Stemmed(D, prefix)
      BY <2>1, <3>2, StemsJoin
    <3> QED BY <3>1, <3>2 DEF Fronted
  <2>3. Stemmed(D, <<Space>>) /\ Stemmed(D, <<Star, Space>>)
    BY SpacingsAre
  <2>4. Stemmed(D, Join(r.subcommand))
    BY <1>3, <1>4, <1>6
  <2>5. Stemmed(D, prefix \o r.command \o <<Space>>)
    BY <2>2, <2>3, StemsJoin
  <2>6. Stemmed(D, prefix \o r.command \o <<Space>> \o o)
    BY <2>1, <2>5, StemsJoin
  <2>7. Stemmed(D, prefix \o r.command \o <<Space>> \o o \o <<Star, Space>>)
    BY <2>3, <2>6, StemsJoin
  <2>8. Stemmed(D, prefix \o r.command \o <<Space>> \o o \o <<Star, Space>> \o Join(r.subcommand))
    BY <2>4, <2>7, StemsJoin
  <2> QED BY <2>8
<1>7. IsFiniteSet(others)
  <2> HIDE DEF f
  <2> QED BY FiniteMap
<1>8. GlobHeads(r, options, prefix) = {first} \cup (IF r.subcommand = <<>> THEN {} ELSE others)
  BY DEF GlobHeads
<1> HIDE DEF first, others
<1>9. IsFiniteSet({first}) /\ IsFiniteSet({first} \cup others)
  BY <1>7, FS_Singleton, FS_Union
<1>10. IsFiniteSet(GlobHeads(r, options, prefix))
  <2>1. CASE r.subcommand = <<>>
    BY <1>8, <1>9, <2>1
  <2>2. CASE r.subcommand # <<>>
    BY <1>8, <1>9, <2>2
  <2> QED BY <2>1, <2>2
<1>11. ASSUME NEW h \in GlobHeads(r, options, prefix) PROVE Stemmed(D, h)
  <2>1. h = first \/ (r.subcommand # <<>> /\ h \in others)
    BY <1>8
  <2>2. CASE h = first
    BY <1>5, <2>2
  <2>3. CASE r.subcommand # <<>> /\ h \in others
    <3>1. PICK o \in options : h = f[o]
      BY <2>3 DEF others
    <3> HIDE DEF f
    <3> QED BY <1>6, <2>3, <3>1
  <2> QED BY <2>1, <2>2, <2>3
<1> QED BY <1>10, <1>11

\* What holds of patterns none of which Uncovered drops to any effect.
Droppable(D, optional, P) ==
  /\ P \in SUBSET Seq(D) /\ IsFiniteSet(P)
  /\ \A p \in P : /\ Apart(p)
                  /\ optional \/ (EndsWithHole(p) /\ HasStar(Front(p)) => BareForm(p) \in P)

\* One more part of a text, whole.
LEMMA Stripped ==
  ASSUME NEW D, NEW u \in Seq(D), NEW v \in Seq(D)
  PROVE  /\ Len(v) = 2 => BareForm(u \o v) = u
         /\ Len(v) = 1 => Front(u \o v) = u
<1> DEFINE w == u \o v
           m == Len(u)
           n == Len(v)
<1>1. m \in Nat /\ n \in Nat
  BY LenProperties
<1>2. w \in Seq(D) /\ Len(w) = m + n /\ \A i \in 1..(m + n) : w[i] = IF i <= m THEN u[i] ELSE v[i - m]
  BY ConcatProperties
<1> HIDE DEF w
<1>3. SubSeq(w, 1, m) = u
  <2>1. \A i \in 1..m : w[i] = u[i] /\ w[i] \in D
    <3>1. \A i \in 1..m : i \in 1..(m + n) /\ i <= m
      BY <1>1
    <3>2. \A i \in 1..m : u[i] \in D
      BY ElementOfSeq
    <3> QED BY <1>2, <3>1, <3>2
  <2>2. SubSeq(w, 1, m) \in Seq(D) /\ Len(SubSeq(w, 1, m)) = m /\ \A i \in 1..m : SubSeq(w, 1, m)[i] = w[i]
    <3>1. m <= Len(w)
      BY <1>1, <1>2
    <3> QED BY <1>1, <2>1, SubSeqProperties
  <2> QED BY <2>1, <2>2, SeqEqual
<1>4. ASSUME n = 2 PROVE BareForm(w) = u
  <2>1. Len(w) - 2 = m
    BY <1>1, <1>2, <1>4
  <2> QED BY <1>3, <2>1 DEF BareForm
<1>5. ASSUME n = 1 PROVE Front(w) = u
  <2>1. Len(w) - 1 = m
    BY <1>1, <1>2, <1>5
  <2> QED BY <1>3, <2>1 DEF Front
<1> QED BY <1>4, <1>5 DEF w

\* A stem does not end with a hole.
LEMMA StemIs ==
  ASSUME NEW D, NEW u, Stemmed(D, u)
  PROVE  u \in Seq(D) /\ Apart(u) /\ ~EndsWithHole(u)
BY DEF Stemmed, EndsWithHole

\* Two characters.
LEMMA TwoAre ==
  ASSUME NEW D, NEW a \in D, NEW b \in D
  PROVE  <<a>> \o <<b>> = <<a, b>>
<1> DEFINE u == <<a>>
           v == <<b>>
           w == <<a, b>>
<1>1. /\ u \in Seq(D) /\ Len(u) = 1 /\ u[1] = a
      /\ v \in Seq(D) /\ Len(v) = 1 /\ v[1] = b
      /\ w \in Seq(D) /\ Len(w) = 2 /\ w[1] = a /\ w[2] = b
  OBVIOUS
<1> HIDE DEF u, v, w
<1>2. u \o v \in Seq(D) /\ Len(u \o v) = 2
      /\ \A i \in 1..2 : (u \o v)[i] = IF i <= 1 THEN u[i] ELSE v[i - 1]
  BY <1>1, ConcatProperties
<1>3. \A i \in 1..2 : (u \o v)[i] = w[i]
  BY <1>1, <1>2
<1>4. u \o v = w
  BY <1>1, <1>2, <1>3, SeqEqual
<1> QED BY <1>4 DEF u, v, w

\* The last two characters of a pattern that ends with a hole.
LEMMA HoleIs ==
  ASSUME NEW D, NEW u \in Seq(D), NEW a \in D, NEW b \in D, EndsWithHole(u \o <<a, b>>)
  PROVE  a = Space
<1> DEFINE v == <<a, b>>
           w == u \o v
<1>1. v \in Seq(D) /\ Len(v) = 2 /\ v[1] = a
  OBVIOUS
<1> HIDE DEF v
<1>2. Len(u) \in Nat /\ Len(w) = Len(u) + 2
      /\ \A i \in 1..(Len(u) + 2) : w[i] = IF i <= Len(u) THEN u[i] ELSE v[i - Len(u)]
  BY <1>1, ConcatProperties, LenProperties
<1> HIDE DEF w
<1>3. PICK m \in Nat : m = Len(u)
  BY <1>2
<1>4. m + 1 \in 1..(m + 2) /\ ~(m + 1 <= m) /\ (m + 1) - m = 1 /\ (m + 2) - 1 = m + 1
  OBVIOUS
<1>5. w[m + 1] = v[1]
  BY <1>2, <1>3, <1>4
<1>6. w[Len(w) - 1] = Space
  BY DEF EndsWithHole, w, v
<1>7. Len(w) - 1 = m + 1
  BY <1>2, <1>3, <1>4
<1> QED BY <1>1, <1>5, <1>6, <1>7

\* A hole in a text and one more space is a hole in the text.
LEMMA SpaceHasNoStar ==
  ASSUME NEW D, Space \in D, NEW s \in Seq(D), HasStar(s \o <<Space>>)
  PROVE  HasStar(s)
<1> DEFINE v == <<Space>>
           w == s \o v
<1>1. v \in Seq(D) /\ Len(v) = 1 /\ v[1] = Space
  OBVIOUS
<1> HIDE DEF v
<1>2. Len(s) \in Nat /\ w \in Seq(D) /\ Len(w) = Len(s) + 1
      /\ \A i \in 1..(Len(s) + 1) : w[i] = IF i <= Len(s) THEN s[i] ELSE v[i - Len(s)]
  BY <1>1, ConcatProperties, LenProperties
<1>3. HasStar(w)
  BY DEF v
<1> HIDE DEF w
<1>4. DOMAIN w = 1..Len(w) /\ DOMAIN s = 1..Len(s)
  BY <1>2, LenProperties
<1>5. PICK i \in 1..Len(w) : w[i] = Star
  BY <1>3, <1>4 DEF HasStar
<1>6. PICK m \in Nat : m = Len(s)
  BY <1>2
<1>7. i \in 1..(m + 1) /\ Len(w) = m + 1
  BY <1>2, <1>5, <1>6
<1>8. i <= m
  <2> SUFFICES ASSUME ~(i <= m) PROVE FALSE
    OBVIOUS
  <2>1. i - m = 1
    BY <1>7
  <2>2. w[i] = v[1]
    BY <1>2, <1>6, <1>7, <2>1
  <2> QED BY <1>1, <1>5, <2>2 DEF Space, Star
<1>9. w[i] = s[i] /\ i \in 1..Len(s)
  BY <1>2, <1>6, <1>7, <1>8
<1> QED BY <1>4, <1>5, <1>9 DEF HasStar

\* A stem with a text behind it, and without that text's last character.
LEMMA TextBehind ==
  ASSUME NEW D, Space \in D, Star \in D, NEW s, Stemmed(D, s), NEW t, Plain(D, t), t # <<Space>>
  PROVE  LET p == s \o <<Star>> \o t \o <<Star>>
             q == s \o <<Star>> \o Front(t)
         IN /\ p \in Seq(D) /\ Apart(p)
            /\ EndsWithHole(p) => Last(t) = Space /\ BareForm(p) = q
            /\ Last(t) = Space => q \in Seq(D) /\ Apart(q) /\ ~EndsWithHole(q)
<1> DEFINE x == s \o <<Star>>
           p == x \o t \o <<Star>>
           q == x \o Front(t)
<1>1. t \in Seq(D) /\ t # <<>> /\ Free(t, Star)
  BY PlainIs DEF Plain
<1>2. Stemmed(D, x \o t) /\ x \in Seq(D)
  BY <1>1, StarsJoin
<1>3. <<>> \in Seq(D) /\ Free(<<>>, Star)
  <2>1. Len(<<>>) = 0
    OBVIOUS
  <2> QED BY <2>1 DEF Free
<1>4. p \in Seq(D) /\ Apart(p)
  <2> HIDE DEF x
  <2> QED BY <1>2, <1>3, StarsJoin
<1>5. PICK b \in Seq(D), e \in D : t = b \o <<e>>
  <2>1. PICK b \in Seq(D), e \in D : t = Append(b, e)
    BY <1>1, SequenceEmptyOrAppend
  <2>2. t = b \o <<e>>
    BY <2>1, AppendIsConcat
  <2> QED BY <2>2
<1>6. <<e>> \in Seq(D) /\ Len(<<e>>) = 1 /\ <<Star>> \in Seq(D) /\ <<e, Star>> \in Seq(D) /\ Len(<<e, Star>>) = 2
      /\ <<e>> \o <<Star>> = <<e, Star>> /\ <<e>>[1] = e
  BY TwoAre
<1>7. Front(t) = b
  BY <1>5, <1>6, Stripped
<1>8. Len(b) \in Nat /\ Len(t) = Len(b) + 1 /\ \A i \in 1..(Len(b) + 1) : t[i] = IF i <= Len(b) THEN b[i] ELSE <<e>>[i - Len(b)]
  BY <1>5, <1>6, ConcatProperties, LenProperties
<1>9. Last(t) = e /\ \A i \in 1..Len(b) : b[i] = t[i]
  <2>1. PICK m \in Nat : m = Len(b)
    BY <1>8
  <2>2. m + 1 \in 1..(m + 1) /\ ~(m + 1 <= m) /\ (m + 1) - m = 1
    OBVIOUS
  <2>3. t[m + 1] = e
    BY <1>6, <1>8, <2>1, <2>2
  <2>4. \A i \in 1..m : i \in 1..(m + 1) /\ i <= m
    OBVIOUS
  <2>5. \A i \in 1..m : b[i] = t[i]
    BY <1>8, <2>1, <2>4
  <2>6. Last(t) = t[m + 1]
    BY <1>8, <2>1 DEF Last
  <2> QED BY <2>1, <2>3, <2>5, <2>6
<1>10. p = (x \o b) \o <<e, Star>> /\ x \o b \in Seq(D)
  <2> HIDE DEF x
  <2>1. x \o b \in Seq(D)
    BY <1>2, ConcatProperties
  <2>2. x \o t = (x \o b) \o <<e>>
    BY <1>2, <1>5, <1>6, ConcatAssociative
  <2>3. ((x \o b) \o <<e>>) \o <<Star>> = (x \o b) \o (<<e>> \o <<Star>>)
    BY <1>6, <2>1, ConcatAssociative
  <2> QED BY <1>6, <2>1, <2>2, <2>3
<1> HIDE DEF x
<1>11. BareForm(p) = q
  BY <1>6, <1>7, <1>10, Stripped
<1>12. EndsWithHole(p) => Last(t) = Space
  BY <1>9, <1>10, HoleIs
<1>13. ASSUME Last(t) = Space PROVE q \in Seq(D) /\ Apart(q) /\ ~EndsWithHole(q)
  <2>1. b # <<>>
    <3> SUFFICES ASSUME b = <<>> PROVE FALSE
      OBVIOUS
    <3>1. t = <<e>>
      BY <1>5, <1>6, ConcatEmptySeq
    <3> QED BY <1>9, <1>13, <3>1
  <2>2. Free(b, Star)
    <3>1. \A i \in 1..Len(b) : i \in 1..Len(t)
      BY <1>8
    <3> QED BY <1>1, <1>9, <3>1 DEF Free
  <2>3. Stemmed(D, q)
    BY <1>7, <2>1, <2>2, StarsJoin DEF x
  <2> QED BY <2>3, StemIs
<1> QED BY <1>4, <1>11, <1>12, <1>13 DEF x

\* A rule as the schema has it: finitely many tails and texts, a text with more
\* in it than one space.
Written(D, V, r) ==
  /\ IsRule(r, V) /\ <<>> \notin r.tail /\ IsFiniteSet(r.tail) /\ IsFiniteSet(r.text)
  /\ \A t \in r.text : Plain(D, t) /\ t # <<Space>>

\* A stem with a tail, a pattern for a text, and one without that text's end.
Gaps == {<<Space>>, <<Space, Star, Space>>}
Tailed(h, s, gap) == h \o gap \o Join(s)
Texted(s, t) == s \o <<Star>> \o t \o <<Star>>
TextEnds(s, t) == s \o <<Star>> \o Front(t)

\* What the patterns of a rule are put together from, its stems.
LEMMA StemsAre ==
  ASSUME NEW D, Space \in D, Star \in D, NEW V, V \subseteq Seq(D \ {Star}) \ {<<>>},
         NEW r, Written(D, V, r), NEW heads, IsFiniteSet(heads), \A h \in heads : Stemmed(D, h)
  PROVE  /\ IsFiniteSet({Tailed(h, s, gap) : h \in heads, s \in r.tail, gap \in Gaps})
         /\ \A u \in {Tailed(h, s, gap) : h \in heads, s \in r.tail, gap \in Gaps} : Stemmed(D, u)
<1> DEFINE S == (heads \X r.tail) \X Gaps
           f == [x \in S |-> Tailed(x[1][1], x[1][2], x[2])]
           stems == {Tailed(h, s, gap) : h \in heads, s \in r.tail, gap \in Gaps}
<1>1. IsFiniteSet(Gaps)
  <2> DEFINE a == <<Space>>
             b == <<Space, Star, Space>>
  <2>1. Gaps = {a} \cup {b}
    BY DEF Gaps
  <2> HIDE DEF a, b
  <2>2. IsFiniteSet({a}) /\ IsFiniteSet({b})
    BY FS_Singleton
  <2> QED BY <2>1, <2>2, FS_Union
<1>2. IsFiniteSet(S)
  <2>1. IsFiniteSet(r.tail)
    BY DEF Written
  <2>2. IsFiniteSet(heads \X r.tail)
    BY <2>1, FS_Product
  <2> QED BY <1>1, <2>2, FS_Product
<1>3. IsFiniteSet({f[x] : x \in S})
  <2> HIDE DEF f, S
  <2> QED BY <1>2, FiniteMap
<1>4. stems = {f[x] : x \in S}
  <2>1. ASSUME NEW x \in S
        PROVE  x[1][1] \in heads /\ x[1][2] \in r.tail /\ x[2] \in Gaps /\ f[x] = Tailed(x[1][1], x[1][2], x[2])
    OBVIOUS
  <2> HIDE DEF f, S
  <2>2. ASSUME NEW a \in stems PROVE a \in {f[x] : x \in S}
    <3>1. PICK h \in heads, s \in r.tail, gap \in Gaps : a = Tailed(h, s, gap)
      OBVIOUS
    <3> DEFINE y == <<<<h, s>>, gap>>
    <3>2. y \in S
      BY DEF S
    <3>3. y[1][1] = h /\ y[1][2] = s /\ y[2] = gap
      OBVIOUS
    <3> HIDE DEF y
    <3>4. f[y] = a
      BY <2>1, <3>1, <3>2, <3>3
    <3> QED BY <3>2, <3>4
  <2>3. ASSUME NEW x \in S PROVE f[x] \in stems
    BY <2>1
  <2> QED BY <2>2, <2>3
<1>5. ASSUME NEW h \in heads, NEW s \in r.tail, NEW gap \in Gaps PROVE Stemmed(D, Tailed(h, s, gap))
  <2>1. s \in Seq(V) /\ s # <<>>
    BY DEF Written, IsRule
  <2>2. s \in Seq(Seq(D \ {Star}))
    BY <2>1, SeqMonotonic
  <2>3. s[1] # <<>>
    <3>1. 1 \in 1..Len(s)
      BY <2>1, EmptySeq, LenProperties
    <3>2. s[1] \in V
      BY <2>1, <3>1, ElementOfSeq
    <3> QED BY <3>2
  <2>4. Stemmed(D, Join(s))
    BY <2>1, <2>2, <2>3, JoinPlain, PlainIs
  <2>5. Stemmed(D, gap)
    BY SpacingsAre DEF Gaps
  <2> QED BY <2>4, <2>5, StemsJoin DEF Tailed
<1>6. \A s \in stems : Stemmed(D, s)
  BY <1>5
<1>7. IsFiniteSet(stems)
  <2> HIDE DEF stems, f, S
  <2> QED BY <1>3, <1>4
<1> QED BY <1>6, <1>7

\* Each pattern of a rule that needs its bare form beside it has it there
\* (targets/permissions.py, glob_variants).
LEMMA VariantsAreDroppable ==
  ASSUME NEW D, Space \in D, Star \in D, NEW V, V \subseteq Seq(D \ {Star}) \ {<<>>},
         NEW r, Written(D, V, r), NEW options \in SUBSET V, IsFiniteSet(options),
         NEW prefix, Fronted(D, prefix), NEW optional \in BOOLEAN
  PROVE  Droppable(D, optional, GlobVariants(r, options, prefix, optional))
<1> DEFINE heads == GlobHeads(r, options, prefix)
           tailed == {Tailed(h, s, gap) : h \in heads, s \in r.tail, gap \in Gaps}
           stems == IF r.tail = {} THEN heads ELSE tailed
           spaced == {t \in r.text : Last(t) = Space}
           P == GlobVariants(r, options, prefix, optional)
<1>1. IsFiniteSet(heads) /\ \A h \in heads : Stemmed(D, h)
  BY HeadsAreStems DEF Written
<1>2. IsFiniteSet(tailed) /\ \A s \in tailed : Stemmed(D, s)
  <2> HIDE DEF heads
  <2>1. IsFiniteSet(heads) /\ (\A h \in heads : Stemmed(D, h)) /\ Written(D, V, r)
    BY <1>1
  <2> QED BY <2>1, StemsAre
<1>3. P = IF r.exact THEN heads
          ELSE IF r.text # {}
          THEN {Texted(s, t) : s \in stems, t \in r.text} \cup {TextEnds(s, t) : s \in stems, t \in spaced}
          ELSE {s \o <<Space, Star>> : s \in stems}
                 \cup (IF optional THEN {} ELSE {s \in stems : HasStar(s)})
  BY DEF GlobVariants, Gaps, Tailed, Texted, TextEnds
<1> SUFFICES Droppable(D, optional, P)
  OBVIOUS
<1> HIDE DEF P, heads, tailed
<1>4. IsFiniteSet(stems) /\ \A s \in stems : Stemmed(D, s)
  BY <1>1, <1>2
<1> HIDE DEF stems
<1>5. IsFiniteSet(r.text) /\ \A t \in r.text : Plain(D, t) /\ t # <<Space>>
  BY DEF Written
<1>6. CASE r.exact
  BY <1>1, <1>3, <1>6, StemIs DEF Droppable
<1>7. CASE ~r.exact /\ r.text # {}
  <2> DEFINE S == stems \X r.text
             U == stems \X spaced
             f == [x \in S |-> Texted(x[1], x[2])]
             g == [x \in U |-> TextEnds(x[1], x[2])]
             A == {Texted(s, t) : s \in stems, t \in r.text}
             B == {TextEnds(s, t) : s \in stems, t \in spaced}
  <2>1. P = A \cup B
    BY <1>3, <1>7
  <2>2. IsFiniteSet(S) /\ IsFiniteSet(U)
    <3>1. spaced \in SUBSET r.text
      OBVIOUS
    <3> HIDE DEF spaced
    <3>2. IsFiniteSet(spaced)
      BY <1>5, <3>1, FS_Subset
    <3> QED BY <1>4, <1>5, <3>2, FS_Product
  <2>3. A = {f[x] : x \in S} /\ B = {g[x] : x \in U}
    <3> HIDE DEF spaced
    <3>1. ASSUME NEW x \in S PROVE x[1] \in stems /\ x[2] \in r.text /\ f[x] = Texted(x[1], x[2])
      OBVIOUS
    <3>2. ASSUME NEW x \in U PROVE x[1] \in stems /\ x[2] \in spaced /\ g[x] = TextEnds(x[1], x[2])
      OBVIOUS
    <3> HIDE DEF S, U, f, g
    <3>3. ASSUME NEW a \in A PROVE a \in {f[x] : x \in S}
      <4>1. PICK s \in stems, t \in r.text : a = Texted(s, t)
        OBVIOUS
      <4> DEFINE y == <<s, t>>
      <4>2. y \in S
        BY DEF S
      <4>3. y[1] = s /\ y[2] = t
        OBVIOUS
      <4> HIDE DEF y
      <4>4. f[y] = a
        BY <3>1, <4>1, <4>2, <4>3
      <4> QED BY <4>2, <4>4
    <3>4. ASSUME NEW x \in S PROVE f[x] \in A
      BY <3>1
    <3>5. ASSUME NEW b \in B PROVE b \in {g[x] : x \in U}
      <4>1. PICK s \in stems, t \in spaced : b = TextEnds(s, t)
        OBVIOUS
      <4> DEFINE y == <<s, t>>
      <4>2. y \in U
        BY DEF U
      <4>3. y[1] = s /\ y[2] = t
        OBVIOUS
      <4> HIDE DEF y
      <4>4. g[y] = b
        BY <3>2, <4>1, <4>2, <4>3
      <4> QED BY <4>2, <4>4
    <3>6. ASSUME NEW x \in U PROVE g[x] \in B
      BY <3>2
    <3> HIDE DEF A, B
    <3>7. A = {f[x] : x \in S}
      BY <3>3, <3>4
    <3>8. B = {g[x] : x \in U}
      BY <3>5, <3>6
    <3> QED BY <3>7, <3>8
  <2>4. IsFiniteSet(A) /\ IsFiniteSet(B)
    <3> HIDE DEF S, U, f, g, A, B
    <3> QED BY <2>2, <2>3, FiniteMap
  <2>5. ASSUME NEW p \in A
        PROVE  p \in Seq(D) /\ Apart(p) /\ (EndsWithHole(p) => BareForm(p) \in B)
    <3>1. PICK s \in stems, t \in r.text : p = Texted(s, t)
      OBVIOUS
    <3>2. Stemmed(D, s) /\ Plain(D, t) /\ t # <<Space>>
      BY <1>4, <1>5
    <3>3. p \in Seq(D) /\ Apart(p)
          /\ (EndsWithHole(p) => Last(t) = Space /\ BareForm(p) = TextEnds(s, t))
      BY <3>1, <3>2, TextBehind DEF Texted, TextEnds
    <3>4. Last(t) = Space => TextEnds(s, t) \in B
      OBVIOUS
    <3> HIDE DEF B
    <3> QED BY <3>3, <3>4
  <2>6. ASSUME NEW p \in B PROVE p \in Seq(D) /\ Apart(p) /\ ~EndsWithHole(p)
    <3>1. PICK s \in stems, t \in spaced : p = TextEnds(s, t)
      OBVIOUS
    <3>2. Stemmed(D, s) /\ Plain(D, t) /\ t # <<Space>> /\ Last(t) = Space
      BY <1>4, <1>5
    <3> QED BY <3>1, <3>2, TextBehind DEF TextEnds
  <2> HIDE DEF A, B
  <2>7. IsFiniteSet(P)
    BY <2>1, <2>4, FS_Union
  <2> QED BY <2>1, <2>5, <2>6, <2>7 DEF Droppable
<1>8. CASE ~r.exact /\ r.text = {}
  <2> DEFINE f == [s \in stems |-> s \o <<Space, Star>>]
             A == {s \o <<Space, Star>> : s \in stems}
             B == IF optional THEN {} ELSE {s \in stems : HasStar(s)}
  <2>1. P = A \cup B
    BY <1>3, <1>8
  <2>2. IsFiniteSet(A)
    <3>1. A = {f[s] : s \in stems}
      OBVIOUS
    <3> HIDE DEF f, A
    <3> QED BY <1>4, <3>1, FiniteMap
  <2>3. IsFiniteSet(B)
    <3>1. B \in SUBSET stems
      OBVIOUS
    <3> HIDE DEF B
    <3> QED BY <1>4, <3>1, FS_Subset
  <2>4. ASSUME NEW p \in A
        PROVE  p \in Seq(D) /\ Apart(p) /\ (optional \/ (HasStar(Front(p)) => BareForm(p) \in B))
    <3>1. PICK s \in stems : p = s \o <<Space, Star>>
      OBVIOUS
    <3>2. Stemmed(D, s) /\ s \in Seq(D)
      BY <1>4, StemIs
    <3>3. /\ <<Space>> \in Seq(D) /\ <<Star>> \in Seq(D) /\ <<Space, Star>> \in Seq(D)
          /\ Len(<<Space, Star>>) = 2 /\ Len(<<Star>>) = 1
      OBVIOUS
    <3>4. Stemmed(D, s \o <<Space>>) /\ s \o <<Space>> \in Seq(D)
      BY <3>2, SpacingsAre, StemsJoin, StemIs
    <3>5. p = s \o <<Space>> \o <<Star>>
      <4>1. <<Space>> \o <<Star>> = <<Space, Star>>
        BY TwoAre
      <4>2. (s \o <<Space>>) \o <<Star>> = s \o (<<Space>> \o <<Star>>)
        BY <3>2, <3>3, ConcatAssociative
      <4> QED BY <3>1, <4>1, <4>2
    <3>6. p \in Seq(D) /\ Apart(p)
      <4>1. <<>> \in Seq(D) /\ Free(<<>>, Star)
        <5>1. Len(<<>>) = 0
          OBVIOUS
        <5> QED BY <5>1 DEF Free
      <4> QED BY <3>4, <3>5, <4>1, StarsJoin
    <3>7. BareForm(p) = s
      BY <3>1, <3>2, <3>3, Stripped
    <3>8. Front(p) = s \o <<Space>>
      BY <3>3, <3>4, <3>5, Stripped
    <3>9. HasStar(Front(p)) => HasStar(s)
      BY <3>2, <3>8, SpaceHasNoStar
    <3> QED BY <3>6, <3>7, <3>9
  <2>5. ASSUME NEW p \in B PROVE p \in Seq(D) /\ Apart(p) /\ ~EndsWithHole(p)
    BY <1>4, StemIs
  <2> HIDE DEF A, B
  <2>6. IsFiniteSet(P)
    BY <2>1, <2>2, <2>3, FS_Union
  <2> QED BY <2>1, <2>4, <2>5, <2>6 DEF Droppable
<1>9. r.exact \in BOOLEAN
  BY DEF Written, IsRule
<1> QED BY <1>6, <1>7, <1>8, <1>9

\* What is put in front of a rule's patterns: words, spaces and holes.
LEMMA PrefixesAre ==
  ASSUME NEW D, Space \in D, Star \in D, NEW V, V \subseteq Seq(D \ {Star}) \ {<<>>},
         IsFiniteSet(Wrappers), Wrappers \subseteq V,
         NEW tool, NEW e, AssignmentsOf(e.rule) \in SUBSET V, IsFiniteSet(AssignmentsOf(e.rule))
  PROVE  /\ IsFiniteSet(CopyPrefixes(tool, e))
         /\ \A prefix \in CopyPrefixes(tool, e) : Fronted(D, prefix)
<1> DEFINE A == {a \o <<Space>> : a \in AssignmentsOf(e.rule)}
           X == IF Peels(tool, e.bucket) THEN WrapperPrefixes \ tool.peeled ELSE WrapperPrefixes
           W == {PrefixText(p) : p \in X}
           f == [a \in AssignmentsOf(e.rule) |-> a \o <<Space>>]
           g == [p \in X |-> PrefixText(p)]
<1>1. Stemmed(D, <<Space>>) /\ Stemmed(D, <<Space, Star, Space>>) /\ \A v \in V : Stemmed(D, v)
  <2>1. \A v \in V : Plain(D, v)
    BY DEF Plain
  <2> QED BY <2>1, PlainIs, SpacingsAre
<1>2. IsFiniteSet(A)
  <2>1. A = {f[a] : a \in AssignmentsOf(e.rule)}
    OBVIOUS
  <2> HIDE DEF A, f
  <2> QED BY <2>1, FiniteMap
<1>3. \A a \in A : Stemmed(D, a)
  <2> SUFFICES ASSUME NEW a \in AssignmentsOf(e.rule) PROVE Stemmed(D, a \o <<Space>>)
    OBVIOUS
  <2> QED BY <1>1, StemsJoin
<1>4. X \subseteq WrapperPrefixes
  OBVIOUS
<1>5. IsFiniteSet(W)
  <2>1. IsFiniteSet({"direct", "arguments"})
    <3> DEFINE a == "direct"
               b == "arguments"
    <3>1. {"direct", "arguments"} = {a} \cup {b}
      OBVIOUS
    <3> HIDE DEF a, b
    <3>2. IsFiniteSet({a}) /\ IsFiniteSet({b})
      BY FS_Singleton
    <3>3. IsFiniteSet({a} \cup {b})
      BY <3>2, FS_Union
    <3> QED BY <3>1, <3>3
  <2>2. IsFiniteSet(WrapperPrefixes)
    BY <2>1, FS_Product DEF WrapperPrefixes
  <2> HIDE DEF X
  <2>3. IsFiniteSet(X)
    BY <1>4, <2>2, FS_Subset
  <2>4. W = {g[p] : p \in X}
    OBVIOUS
  <2> HIDE DEF W, g
  <2> QED BY <2>3, <2>4, FiniteMap
<1> HIDE DEF X
<1>6. \A w \in W : Stemmed(D, w)
  <2> SUFFICES ASSUME NEW p \in X PROVE Stemmed(D, PrefixText(p))
    OBVIOUS
  <2>1. p[1] \in V
    BY <1>4 DEF WrapperPrefixes
  <2>2. Stemmed(D, p[1] \o <<Space>>) /\ Stemmed(D, p[1] \o <<Space, Star, Space>>)
    BY <1>1, <2>1, StemsJoin
  <2>3. PrefixText(p) = p[1] \o <<Space>> \/ PrefixText(p) = p[1] \o <<Space, Star, Space>>
    BY DEF PrefixText
  <2> QED BY <2>2, <2>3
<1>7. CopyPrefixes(tool, e) = {<<>>} \cup (IF Peels(tool, e.bucket) THEN {} ELSE A)
                                     \cup (IF e.bucket = "allow" THEN {} ELSE W)
  BY DEF CopyPrefixes, X
<1> HIDE DEF A, W
<1>8. IsFiniteSet(IF Peels(tool, e.bucket) THEN {} ELSE A) /\ IsFiniteSet(IF e.bucket = "allow" THEN {} ELSE W)
  BY <1>2, <1>5, FS_EmptySet
<1>9. IsFiniteSet(CopyPrefixes(tool, e))
  <2> DEFINE B == IF Peels(tool, e.bucket) THEN {} ELSE A
             C == IF e.bucket = "allow" THEN {} ELSE W
             N == {<<>>}
  <2>1. IsFiniteSet(N)
    BY FS_Singleton
  <2>2. IsFiniteSet(B) /\ IsFiniteSet(C) /\ CopyPrefixes(tool, e) = (N \cup B) \cup C
    BY <1>7, <1>8
  <2> HIDE DEF N, B, C
  <2>3. IsFiniteSet(N \cup B)
    BY <2>1, <2>2, FS_Union
  <2> QED BY <2>2, <2>3, FS_Union
<1>10. ASSUME NEW prefix \in CopyPrefixes(tool, e) PROVE Fronted(D, prefix)
  <2>1. prefix = <<>> \/ prefix \in A \/ prefix \in W
    BY <1>7
  <2> QED BY <1>3, <1>6, <2>1 DEF Fronted
<1> QED BY <1>9, <1>10

\* Patterns of which none is dropped to any effect, put together.
LEMMA DroppableTogether ==
  ASSUME NEW D, NEW optional, NEW F, IsFiniteSet(F), \A P \in F : Droppable(D, optional, P)
  PROVE  Droppable(D, optional, UNION F)
<1>1. \A P \in F : IsFiniteSet(P)
  BY DEF Droppable
<1>2. IsFiniteSet(UNION F)
  BY <1>1, FS_UNION
<1>3. \A p \in UNION F : /\ p \in Seq(D) /\ Apart(p)
                         /\ optional \/ (EndsWithHole(p) /\ HasStar(Front(p)) => BareForm(p) \in UNION F)
  <2> SUFFICES ASSUME NEW P \in F, NEW p \in P
               PROVE  /\ p \in Seq(D) /\ Apart(p)
                      /\ optional \/ (EndsWithHole(p) /\ HasStar(Front(p)) => BareForm(p) \in UNION F)
    OBVIOUS
  <2>1. /\ p \in Seq(D) /\ Apart(p)
        /\ optional \/ (EndsWithHole(p) /\ HasStar(Front(p)) => BareForm(p) \in P)
    BY DEF Droppable
  <2> QED BY <2>1
<1> QED BY <1>2, <1>3 DEF Droppable

\* Finitely many wrappers, and leading words of a rule, over one alphabet.
Lettered(D, V) ==
  /\ Space \in D /\ Star \in D /\ V \subseteq Seq(D \ {Star}) \ {<<>>}
  /\ IsFiniteSet(Wrappers) /\ Wrappers \subseteq V

LeadsOver(V, r) ==
  /\ OptionsOf(r) \in SUBSET V /\ IsFiniteSet(OptionsOf(r))
  /\ AssignmentsOf(r) \in SUBSET V /\ IsFiniteSet(AssignmentsOf(r))

\* The patterns of one entry of the policy.
LEMMA EntryIsDroppable ==
  ASSUME NEW D, NEW V, Lettered(D, V), NEW tool, tool.optionalTrailing \in BOOLEAN,
         NEW e, Written(D, V, e.rule), LeadsOver(V, e.rule)
  PROVE  Droppable(D, tool.optionalTrailing, PatternsOf(tool, e))
<1> DEFINE X == CopyPrefixes(tool, e)
           f == [x \in X |-> GlobVariants(e.rule, OptionsOf(e.rule), x, tool.optionalTrailing)]
           F == {f[x] : x \in X}
<1>1. IsFiniteSet(X) /\ \A x \in X : Fronted(D, x)
  BY PrefixesAre DEF Lettered, LeadsOver
<1>2. PatternsOf(tool, e) = UNION F
  BY DEF PatternsOf
<1> HIDE DEF X
<1>3. \A x \in X : Droppable(D, tool.optionalTrailing, f[x])
  <2> SUFFICES ASSUME NEW x \in X
               PROVE  Droppable(D, tool.optionalTrailing, GlobVariants(e.rule, OptionsOf(e.rule), x, tool.optionalTrailing))
    OBVIOUS
  <2> QED BY <1>1, VariantsAreDroppable DEF Lettered, LeadsOver
<1> HIDE DEF f
<1>4. IsFiniteSet(F)
  BY <1>1, FiniteMap
<1>5. \A P \in F : Droppable(D, tool.optionalTrailing, P)
  BY <1>3
<1> HIDE DEF F
<1> QED BY <1>2, <1>4, <1>5, DroppableTogether

\* Finitely many words over one alphabet in all that a policy is written with.
Admitted(D, V) ==
  /\ Lettered(D, V)
  /\ \A r \in Rules : Written(D, V, r)
  /\ \A p \in Programs : /\ Options[p] \in SUBSET V /\ IsFiniteSet(Options[p])
                         /\ Assignments[p] \in SUBSET V /\ IsFiniteSet(Assignments[p])

\* What the schema admits over some characters: words that are not empty and have
\* no star, a text with more in it than one space, finitely many of each.
SchemaAdmits(C) ==
  /\ \A r \in Rules : /\ IsRule(r, WordsOver(C \ {Star})) /\ <<>> \notin r.tail
                      /\ IsFiniteSet(r.tail) /\ IsFiniteSet(r.text)
                      /\ r.text \subseteq WordsOver((C \cup {Space}) \ {Star}) \ {<<Space>>}
  /\ \A p \in Programs : /\ Options[p] \subseteq WordsOver(C \ {Star}) /\ IsFiniteSet(Options[p])
                         /\ Assignments[p] \subseteq WordsOver(C \ {Star}) /\ IsFiniteSet(Assignments[p])
  /\ Wrappers \subseteq WordsOver(C \ {Star}) /\ IsFiniteSet(Wrappers)

\* What the schema admits.
LEMMA AdmittedIs ==
  ASSUME NEW C, SchemaAdmits(C)
  PROVE  Admitted(C \cup {Space, Star}, WordsOver(C \ {Star}))
<1> DEFINE D == C \cup {Space, Star}
           V == WordsOver(C \ {Star})
<1>1. Space \in D /\ Star \in D
  OBVIOUS
<1>2. V \subseteq Seq(D \ {Star}) \ {<<>>}
  <2>1. Seq(C \ {Star}) \subseteq Seq(D \ {Star})
    BY SeqMonotonic
  <2> QED BY <2>1 DEF WordsOver
<1> USE DEF SchemaAdmits
<1>3. \A r \in Rules : Written(D, V, r)
  <2> SUFFICES ASSUME NEW r \in Rules PROVE Written(D, V, r)
    OBVIOUS
  <2>1. ASSUME NEW t \in r.text PROVE Plain(D, t) /\ t # <<Space>>
    <3>1. t \in Seq((C \cup {Space}) \ {Star}) /\ t # <<>> /\ t # <<Space>>
      BY DEF WordsOver
    <3>2. t \in Seq(D \ {Star})
      BY <3>1, SeqMonotonic
    <3> QED BY <3>1, <3>2 DEF Plain
  <2> QED BY <2>1 DEF Written
<1>4. \A p \in Programs : /\ Options[p] \in SUBSET V /\ IsFiniteSet(Options[p])
                          /\ Assignments[p] \in SUBSET V /\ IsFiniteSet(Assignments[p])
  OBVIOUS
<1>5. Lettered(D, V)
  BY <1>1, <1>2 DEF Lettered
<1> QED BY <1>3, <1>4, <1>5 DEF Admitted

\* Commands over some characters are commands over more.
LEMMA CommandsAre ==
  ASSUME NEW C, Commands \subseteq Seq(Seq(C)), NEW D, C \subseteq D, NEW c \in Commands
  PROVE  c \in Seq(Seq(D))
<1>1. Seq(C) \subseteq Seq(D)
  BY SeqMonotonic
<1> QED BY <1>1, SeqMonotonic

\* The leading options and assignments that a loaded policy knows of a rule.
LEMMA LeadsAre ==
  ASSUME NEW D, NEW V, Admitted(D, V), TypesOK, NEW e \in entries
  PROVE  /\ LeadsOver(V, e.rule)
         /\ AssignmentsOf(e.rule) \subseteq UNION {Assignments[p] : p \in Programs}
<1>1. declared \subseteq Fragments \X Programs
  BY DEF TypesOK, TypeOK, Vocabularies
<1>2. e.rule.command \in {d[2] : d \in declared} => e.rule.command \in Programs
  BY <1>1
<1>3. /\ OptionsOf(e.rule) = {} \/ (e.rule.command \in Programs /\ OptionsOf(e.rule) = Options[e.rule.command])
      /\ AssignmentsOf(e.rule) = {} \/ (e.rule.command \in Programs /\ AssignmentsOf(e.rule) = Assignments[e.rule.command])
  BY <1>2 DEF OptionsOf, AssignmentsOf, VocabularyOf
<1>4. /\ OptionsOf(e.rule) \in SUBSET V /\ IsFiniteSet(OptionsOf(e.rule))
      /\ AssignmentsOf(e.rule) \in SUBSET V /\ IsFiniteSet(AssignmentsOf(e.rule))
  BY <1>3, FS_EmptySet DEF Admitted
<1>5. AssignmentsOf(e.rule) \subseteq UNION {Assignments[p] : p \in Programs}
  BY <1>3
<1> QED BY <1>4, <1>5 DEF LeadsOver

\* What a bucket's patterns suit, one of its entries does.
LEMMA BucketKeeps ==
  ASSUME NEW D, NEW V, Admitted(D, V), TypesOK, NEW tool \in {Claude, OpenCode}, NEW bucket \in Buckets,
         ~(bucket = "allow" /\ unmatched = "allow"), NEW c, Len(Join(c)) \in Nat
  PROVE  (\E p \in BucketPatterns(tool, bucket) : Suits(tool, p, c))
           <=> \E e \in entries : e.bucket = bucket /\ \E p \in PatternsOf(tool, e) : Suits(tool, p, c)
<1> DEFINE X == {e \in entries : e.bucket = bucket}
           F == {PatternsOf(tool, e) : e \in X}
           f == [e \in X |-> PatternsOf(tool, e)]
           P == UNION F
<1>1. tool.optionalTrailing \in BOOLEAN
  <2>1. Claude.optionalTrailing = FALSE /\ OpenCode.optionalTrailing = TRUE
    BY DEF Claude, OpenCode
  <2> QED BY <2>1
<1>2. ASSUME NEW e \in entries PROVE Droppable(D, tool.optionalTrailing, PatternsOf(tool, e))
  <2>1. Written(D, V, e.rule)
    BY DEF Admitted, TypesOK, TypeOK, Entries
  <2>2. LeadsOver(V, e.rule)
    BY LeadsAre
  <2> HIDE DEF X, F, f, P
  <2> QED BY <1>1, <2>1, <2>2, EntryIsDroppable DEF Admitted
<1>3. IsFiniteSet(X)
  <2>1. X \in SUBSET entries
    OBVIOUS
  <2> HIDE DEF X
  <2> QED BY <2>1, FS_Subset DEF TypesOK
<1>4. F = {f[e] : e \in X}
  OBVIOUS
<1>5. \A Q \in F : Droppable(D, tool.optionalTrailing, Q)
  BY <1>2
<1>6. BucketPatterns(tool, bucket) = Uncovered(P)
  BY DEF BucketPatterns
<1>7. ASSUME NEW p PROVE p \in P <=> \E e \in entries : e.bucket = bucket /\ p \in PatternsOf(tool, e)
  OBVIOUS
<1> HIDE DEF X, f, F
<1>8. IsFiniteSet(F)
  BY <1>3, <1>4, FiniteMap
<1>9. Droppable(D, tool.optionalTrailing, P)
  BY <1>5, <1>8, DroppableTogether
<1> HIDE DEF P
<1>10. /\ P \in SUBSET Seq(D) /\ IsFiniteSet(P) /\ \A p \in P : Apart(p)
       /\ \A p \in P : tool.optionalTrailing \/ (EndsWithHole(p) /\ HasStar(Front(p)) => BareForm(p) \in P)
  BY <1>9 DEF Droppable
<1>11. (\E p \in Uncovered(P) : Suits(tool, p, c)) <=> (\E p \in P : Suits(tool, p, c))
  BY <1>10, UncoveredSuits
<1>12. (\E p \in P : Suits(tool, p, c))
         <=> \E e \in entries : e.bucket = bucket /\ \E p \in PatternsOf(tool, e) : Suits(tool, p, c)
  BY <1>7
<1> QED BY <1>6, <1>11, <1>12

\* A command meets a pattern a tool is given in a bucket exactly if it meets one
\* of a rule in that bucket.
CoverKeepsDecisions ==
  \A tool \in {Claude, OpenCode}, bucket \in Buckets, c \in Commands :
    \/ bucket = "allow" /\ unmatched = "allow"
    \/ (\E p \in BucketPatterns(tool, bucket) : Suits(tool, p, c))
         <=> \E e \in entries : e.bucket = bucket /\ \E p \in PatternsOf(tool, e) : Suits(tool, p, c)

\* A covered pattern decides nothing (targets/permissions.py, bucket_patterns):
\* on Claude and OpenCode, dropping the patterns that a wider one covers changes
\* what no bucket matches, whatever the rules, vocabularies, wrappers and
\* commands are. The rules and words are those the schema admits: not empty and
\* without stars, a text with more in it than one space.
THEOREM CoveredDecidesNothing ==
  ASSUME NEW C, SchemaAdmits(C), Commands \subseteq Seq(Seq(C))
  PROVE  Spec => []CoverKeepsDecisions
<1> DEFINE D == C \cup {Space, Star}
           V == WordsOver(C \ {Star})
<1>1. Admitted(D, V)
  BY AdmittedIs
<1>2. ASSUME NEW c \in Commands PROVE Len(Join(c)) \in Nat
  <2>1. C \subseteq D /\ Space \in D
    OBVIOUS
  <2> HIDE DEF D
  <2>2. c \in Seq(Seq(D))
    BY <2>1, CommandsAre
  <2> QED BY <2>1, <2>2, JoinText
<1>3. TypesOK => CoverKeepsDecisions
  <2> HIDE DEF D, V
  <2> SUFFICES ASSUME TypesOK, NEW tool \in {Claude, OpenCode}, NEW bucket \in Buckets, NEW c \in Commands,
                      ~(bucket = "allow" /\ unmatched = "allow")
               PROVE  (\E p \in BucketPatterns(tool, bucket) : Suits(tool, p, c))
                        <=> \E e \in entries : e.bucket = bucket /\ \E p \in PatternsOf(tool, e) : Suits(tool, p, c)
    BY DEF CoverKeepsDecisions
  <2> QED BY <1>1, <1>2, BucketKeeps
<1> QED BY <1>3, TypesCorrect, PTL

-----------------------------------------------------------------------------
(* What the globs of a rule reach.                                         *)

\* Joined words begin as the first of them does.
LEMMA JoinBegins ==
  ASSUME NEW D, Space \in D, NEW c \in Seq(Seq(D)), c # <<>>, NEW o \in Seq(D), IsPrefix(o, c[1])
  PROVE  \E x \in Seq(D) : Join(c) = Cat(o, x)
<1>1. c[1] \in Seq(D) /\ Join(c) \in Seq(D)
  BY JoinFirst
<1>2. PICK y \in Seq(D) : c[1] = Cat(o, y)
  <2>1. PICK w \in Seq(D) : w = c[1]
    BY <1>1
  <2>2. Len(o) \in 0..Len(w) /\ SubSeq(w, 1, Len(o)) = o
    <3>1. Len(o) \in Nat /\ Len(w) \in Nat
      BY LenProperties
    <3> QED BY <2>1, <3>1 DEF IsPrefix
  <2>3. PICK k \in 0..Len(w) : k = Len(o)
    BY <2>2
  <2>4. w = SubSeq(w, 1, k) \o SubSeq(w, k + 1, Len(w)) /\ SubSeq(w, k + 1, Len(w)) \in Seq(D)
    BY Cut
  <2>5. w = o \o SubSeq(w, k + 1, Len(w))
    BY <2>2, <2>3, <2>4
  <2> QED BY <2>1, <2>4, <2>5 DEF Cat
<1>3. CASE Len(c) = 1
  <2>1. Join(c) = c[1]
    BY <1>3, JoinFirst
  <2> QED BY <1>2, <2>1
<1>4. CASE Len(c) # 1
  <2>1. PICK b \in Seq(D) : Join(c) = Between(c[1], b)
    BY <1>4, JoinFirst
  <2>2. Cat(Blank, b) \in Seq(D)
    BY BetweenIs
  <2>3. Join(c) = Cat(o, Cat(y, Cat(Blank, b))) /\ Cat(y, Cat(Blank, b)) \in Seq(D)
    <3>1. PICK e \in Seq(D) : e = Cat(Blank, b)
      BY <2>2
    <3>2. Join(c) = Cat(Cat(o, y), e)
      BY <1>2, <2>1, <3>1 DEF Between
    <3> QED BY <3>1, <3>2, Texts
  <2> QED BY <2>3
<1> QED BY <1>3, <1>4

\* The glob for a head behind an option, part by part.
LEMMA OptionReaches ==
  ASSUME NEW D, Space \in D, Star \in D, NEW prefix \in Seq(D), NEW t \in Seq(D), Glob(prefix, t),
         NEW w \in Seq(D), NEW o \in Seq(D), NEW x \in Seq(D), NEW s \in Seq(D)
  PROVE  LET h == prefix \o w \o <<Space>> \o o \o <<Star, Space>> \o s
         IN h \in Seq(D) /\ Glob(h, Cat(t, Between(Between(w, Cat(o, x)), s)))
<1>1. Blank \in Seq(D) /\ <<Star>> \in Seq(D) /\ Cat(<<Star>>, Blank) \in Seq(D) /\ Cat(x, Blank) \in Seq(D)
  <2>1. Blank \in Seq(D) /\ <<Star>> \in Seq(D)
    BY DEF Blank
  <2> QED BY <2>1, Texts
<1>2. Glob(<<Star>>, x) /\ Glob(Blank, Blank) /\ Glob(w, w) /\ Glob(o, o) /\ Glob(s, s)
  BY <1>1, GlobItself
<1>3. PICK g \in Seq(D), y \in Seq(D) : g = Cat(<<Star>>, Blank) /\ y = Cat(x, Blank) /\ Glob(g, y)
  BY <1>1, <1>2, GlobsJoin
<1>4. PICK p1 \in Seq(D), t1 \in Seq(D) : p1 = Cat(prefix, w) /\ t1 = Cat(t, w) /\ Glob(p1, t1)
  <2>1. Cat(prefix, w) \in Seq(D) /\ Cat(t, w) \in Seq(D)
    BY Texts
  <2>2. Glob(Cat(prefix, w), Cat(t, w))
    BY <1>2, GlobsJoin
  <2> QED BY <2>1, <2>2
<1>5. PICK p2 \in Seq(D), t2 \in Seq(D) : p2 = Cat(p1, Blank) /\ t2 = Cat(t1, Blank) /\ Glob(p2, t2)
  <2>1. Cat(p1, Blank) \in Seq(D) /\ Cat(t1, Blank) \in Seq(D)
    BY <1>1, Texts
  <2>2. Glob(Cat(p1, Blank), Cat(t1, Blank))
    BY <1>1, <1>2, <1>4, GlobsJoin
  <2> QED BY <2>1, <2>2
<1>6. PICK p3 \in Seq(D), t3 \in Seq(D) : p3 = Cat(p2, o) /\ t3 = Cat(t2, o) /\ Glob(p3, t3)
  <2>1. Cat(p2, o) \in Seq(D) /\ Cat(t2, o) \in Seq(D)
    BY Texts
  <2>2. Glob(Cat(p2, o), Cat(t2, o))
    BY <1>2, <1>5, GlobsJoin
  <2> QED BY <2>1, <2>2
<1>7. PICK p4 \in Seq(D), t4 \in Seq(D) : p4 = Cat(p3, g) /\ t4 = Cat(t3, y) /\ Glob(p4, t4)
  <2>1. Cat(p3, g) \in Seq(D) /\ Cat(t3, y) \in Seq(D)
    BY Texts
  <2>2. Glob(Cat(p3, g), Cat(t3, y))
    BY <1>3, <1>6, GlobsJoin
  <2> QED BY <2>1, <2>2
<1>8. Cat(p4, s) \in Seq(D) /\ Glob(Cat(p4, s), Cat(t4, s))
  BY <1>2, <1>7, GlobsJoin, Texts
<1>9. prefix \o w \o <<Space>> \o o \o <<Star, Space>> \o s = Cat(p4, s)
  <2>1. g = <<Star, Space>>
    BY <1>3, TwoAre DEF Cat, Blank
  <2> QED BY <2>1, <1>4, <1>5, <1>6, <1>7 DEF Cat, Blank
<1>10. Cat(t4, s) = Cat(t, Between(Between(w, Cat(o, x)), s))
  <2> DEFINE e == Cat(Blank, s)
             f == Cat(x, e)
             i == Cat(o, f)
             j == Cat(Blank, i)
             k == Cat(w, j)
  <2>1. e \in Seq(D) /\ f \in Seq(D) /\ i \in Seq(D) /\ j \in Seq(D) /\ k \in Seq(D)
    <3>1. e \in Seq(D)
      BY <1>1, Texts
    <3> HIDE DEF e
    <3>2. f \in Seq(D)
      BY <3>1, Texts
    <3> HIDE DEF f
    <3>3. i \in Seq(D)
      BY <3>2, Texts
    <3> HIDE DEF i
    <3>4. j \in Seq(D)
      BY <1>1, <3>3, Texts
    <3> HIDE DEF j
    <3>5. k \in Seq(D)
      BY <3>4, Texts
    <3> QED BY <3>1, <3>2, <3>3, <3>4, <3>5
  <2> HIDE DEF e, f, i, j, k
  <2>2. Cat(y, s) = f
    BY <1>1, <1>3, Texts DEF e, f
  <2>3. Cat(t4, s) = Cat(t3, f)
    BY <1>7, <2>2, Texts
  <2>4. Cat(t3, f) = Cat(t2, i)
    BY <1>6, <2>1, Texts DEF i
  <2>5. Cat(t2, i) = Cat(t1, j)
    <3>1. Cat(Cat(t1, Blank), i) = Cat(t1, Cat(Blank, i))
      <4>1. i \in Seq(D) /\ Blank \in Seq(D)
        BY <1>1, <2>1
      <4> QED BY <4>1, Texts
    <3> QED BY <1>5, <3>1 DEF j
  <2>6. Cat(t1, j) = Cat(t, k)
    BY <1>4, <2>1, Texts DEF k
  <2>7. Between(Between(w, Cat(o, x)), s) = k
    <3>1. PICK ox \in Seq(D) : ox = Cat(o, x)
      BY Texts
    <3>2. Between(Between(w, ox), s) = Between(w, Between(ox, s))
      BY BetweenIs
    <3>3. Between(ox, s) = i
      BY <2>1, <3>1, Texts DEF Between, e, f, i
    <3>4. Between(w, i) = k
      BY DEF Between, j, k
    <3> QED BY <3>1, <3>2, <3>3, <3>4
  <2> QED BY <2>3, <2>4, <2>5, <2>6, <2>7
<1> QED BY <1>8, <1>9, <1>10

\* Where a head stands, one of its globs reaches as far.
LEMMA HeadReaches ==
  ASSUME NEW D, Space \in D, Star \in D, NEW V, V \subseteq Seq(D), NEW r, IsRule(r, V),
         NEW options \in SUBSET Seq(D), NEW d \in Seq(Seq(D)), NEW n \in 1..Len(d),
         HeadStandsAt(r, d, options, n),
         NEW prefix \in Seq(D), NEW t \in Seq(D), Glob(prefix, t)
  PROVE  \E h \in GlobHeads(r, options, prefix) :
           h \in Seq(D) /\ Glob(h, Cat(t, Join(UpTo(d, n))))
<1> DEFINE sub == r.subcommand
           first == HeadOf(r)
           a == UpTo(d, n)
<1>1. /\ first \in Seq(Seq(D)) /\ Len(first) = Len(sub) + 1 /\ first[1] = r.command
      /\ \A i \in 1..Len(sub) : first[i + 1] = sub[i]
      /\ sub \in Seq(Seq(D)) /\ r.command \in Seq(D)
  <2>1. IsRule(r, Seq(D))
    <3>1. Seq(V) \subseteq Seq(Seq(D))
      BY SeqMonotonic
    <3> QED BY <3>1 DEF IsRule
  <2> QED BY <2>1, HeadWords DEF IsRule
<1>2. a \in Seq(Seq(D)) /\ a # <<>> /\ Len(a) = n /\ (\A i \in 1..n : a[i] = d[i]) /\ Join(a) \in Seq(D)
  BY JoinCut
<1>3. PICK z \in Nat : z = Len(sub)
  BY <1>1, LenProperties
<1>4. n \in Nat /\ 1 <= n
  <2>1. Len(d) \in Nat
    BY LenProperties
  <2> QED BY <2>1
<1>5. /\ d[1] = r.command
      /\ \A i \in 1..z : d[(n - z) + i] = sub[i]
      /\ n = z + 1 \/ (z > 0 /\ n >= z + 2 /\ \E o \in options : IsPrefix(o, d[2]))
  BY <1>3 DEF HeadStandsAt, SubcommandEndsAt
<1>6. prefix \o Join(first) \in GlobHeads(r, options, prefix)
  BY DEF GlobHeads
<1>7. sub # <<>> => \A o \in options :
        prefix \o r.command \o <<Space>> \o o \o <<Star, Space>> \o Join(sub) \in GlobHeads(r, options, prefix)
  BY DEF GlobHeads
<1> HIDE DEF sub, first, a
<1>8. CASE n = z + 1
  <2>1. \A i \in 1..n : a[i] = first[i]
    <3> SUFFICES ASSUME NEW i \in 1..n PROVE d[i] = first[i]
      BY <1>2
    <3>1. CASE i = 1
      BY <1>1, <1>5, <3>1
    <3>2. CASE i # 1
      <4>1. PICK k \in 1..z : i = k + 1
        <5>1. i - 1 \in 1..z /\ i = (i - 1) + 1
          BY <1>4, <1>8, <3>2
        <5> QED BY <5>1
      <4>2. (n - z) + k = i
        BY <1>8, <4>1
      <4>3. d[i] = sub[k]
        BY <1>5, <4>2
      <4>4. first[i] = sub[k]
        BY <1>1, <1>3, <4>1
      <4> QED BY <4>3, <4>4
    <3> QED BY <3>1, <3>2
  <2>2. a = first
    BY <1>1, <1>2, <1>3, <1>8, <2>1, SeqEqual
  <2>3. Glob(Join(a), Join(a))
    BY <1>2, GlobItself
  <2>4. Cat(prefix, Join(a)) \in Seq(D) /\ Glob(Cat(prefix, Join(a)), Cat(t, Join(a)))
    BY <1>2, <2>3, GlobsJoin, Texts
  <2>5. Cat(prefix, Join(a)) \in GlobHeads(r, options, prefix)
    BY <1>6, <2>2 DEF Cat
  <2> QED BY <2>4, <2>5 DEF a
<1>9. CASE z > 0 /\ n >= z + 2 /\ \E o \in options : IsPrefix(o, d[2])
  <2>1. PICK o \in options : IsPrefix(o, d[2])
    BY <1>9
  <2>2. PICK m \in Nat : m + z = n /\ m >= 2
    <3>1. n - z \in Nat /\ (n - z) + z = n /\ n - z >= 2
      BY <1>3, <1>4, <1>9
    <3> QED BY <3>1
  <2>3. m \in 1..Len(a) /\ m < Len(a)
    <3>1. m \in 1..n /\ m < n
      BY <1>4, <1>9, <2>2
    <3> QED BY <1>2, <3>1
  <2> DEFINE u == UpTo(a, m)
             v == From(a, m + 1)
  <2>4. /\ u \in Seq(Seq(D)) /\ u # <<>> /\ Len(u) = m /\ (\A i \in 1..m : u[i] = a[i]) /\ Join(u) \in Seq(D)
        /\ v \in Seq(Seq(D)) /\ Len(v) = Len(a) - m /\ (\A i \in 1..(Len(a) - m) : v[i] = a[m + i])
        /\ Join(v) \in Seq(D) /\ Join(a) = Between(Join(u), Join(v))
    <3>1. PICK b \in Seq(Seq(D)) : b = a
      BY <1>2
    <3>2. PICK k \in 1..Len(b) : k = m /\ k < Len(b)
      BY <2>3, <3>1
    <3>3. /\ UpTo(b, k) \in Seq(Seq(D)) /\ UpTo(b, k) # <<>> /\ Len(UpTo(b, k)) = k
          /\ \A i \in 1..k : UpTo(b, k)[i] = b[i]
          /\ Join(UpTo(b, k)) \in Seq(D)
      BY JoinCut
    <3>4. From(b, k + 1) \in Seq(Seq(D))
      BY JoinCut
    <3>5. Len(From(b, k + 1)) = Len(b) - k
      BY JoinCut
    <3>6. \A i \in 1..(Len(b) - k) : From(b, k + 1)[i] = b[k + i]
      BY JoinCut
    <3>7. Join(From(b, k + 1)) \in Seq(D) /\ Join(b) = Between(Join(UpTo(b, k)), Join(From(b, k + 1)))
      BY <3>2, JoinCut
    <3> QED BY <3>1, <3>2, <3>3, <3>7, <3>4, <3>5, <3>6
  <2> HIDE DEF u, v
  <2>5. Len(a) - m = z
    BY <1>2, <1>3, <2>2
  <2>6. v = sub
    <3>1. \A i \in 1..z : m + i \in 1..n /\ (n - z) + i = m + i
      BY <1>4, <2>2
    <3>2. ASSUME NEW i \in 1..z PROVE v[i] = sub[i]
      <4>1. v[i] = a[m + i] /\ a[m + i] = d[m + i]
        BY <1>2, <2>4, <2>5, <3>1
      <4>2. d[m + i] = sub[i]
        BY <1>5, <3>1
      <4> QED BY <4>1, <4>2
    <3>3. Len(v) = Len(sub) /\ \A i \in 1..Len(v) : v[i] = sub[i]
      BY <1>3, <2>4, <2>5, <3>2
    <3>4. v \in Seq(Seq(D)) /\ sub \in Seq(Seq(D))
      BY <1>1, <2>4
    <3> QED BY <3>3, <3>4, SeqEqual
  <2> DEFINE q == From(u, 2)
  <2>7. /\ q \in Seq(Seq(D)) /\ q # <<>> /\ Join(q) \in Seq(D) /\ Len(q) = Len(u) - 1
        /\ \A i \in 1..(Len(u) - 1) : q[i] = u[1 + i]
        /\ Join(u) = Between(u[1], Join(q))
    <3>1. Len(u) # 1
      BY <2>2, <2>4
    <3> QED BY <2>4, <3>1, JoinFirst
  <2> HIDE DEF q
  <2>8. u[1] = r.command /\ q[1] = d[2]
    <3>1. 1 \in 1..m /\ 2 \in 1..m /\ 1 \in 1..(m - 1) /\ 1 + 1 = 2 /\ 1 \in 1..n /\ 2 \in 1..n
      BY <1>4, <1>9, <2>2
    <3>2. u[1] = d[1] /\ u[2] = d[2]
      BY <1>2, <2>4, <3>1
    <3>3. q[1] = u[2]
      BY <2>4, <2>7, <3>1
    <3> QED BY <1>5, <3>2, <3>3
  <2>9. PICK x \in Seq(D) : Join(q) = Cat(o, x)
    <3>1. o \in Seq(D) /\ IsPrefix(o, q[1])
      BY <2>1, <2>8
    <3> QED BY <2>7, <3>1, JoinBegins
  <2>10. Join(a) = Between(Between(r.command, Cat(o, x)), Join(sub))
    BY <2>4, <2>6, <2>7, <2>8, <2>9
  <2> DEFINE h == prefix \o r.command \o <<Space>> \o o \o <<Star, Space>> \o Join(sub)
  <2>11. h \in Seq(D) /\ Glob(h, Cat(t, Between(Between(r.command, Cat(o, x)), Join(sub))))
    <3>1. r.command \in Seq(D) /\ o \in Seq(D) /\ Join(sub) \in Seq(D)
      BY <1>1, <2>4, <2>6
    <3> QED BY <3>1, OptionReaches
  <2>12. h \in GlobHeads(r, options, prefix)
    <3>1. sub # <<>>
      BY <1>1, <1>3, <1>9, EmptySeq
    <3> QED BY <1>7, <3>1
  <2> HIDE DEF h
  <2> QED BY <2>10, <2>11, <2>12 DEF a
<1> QED BY <1>5, <1>8, <1>9

\* A stem with a final hole suits a command that is what the stem matches, with
\* or without more words, except where the bare stem does.
LEMMA StemSuits ==
  ASSUME NEW D, Space \in D, Star \in D, NEW u \in Seq(D), NEW x \in Seq(D), Glob(u, x),
         NEW tool, NEW c, Join(c) = x \/ \E y \in Seq(D) : Join(c) = Between(x, y)
  PROVE  \/ Suits(tool, u \o <<Space, Star>>, c)
         \/ ~tool.optionalTrailing /\ HasStar(u) /\ Suits(tool, u, c)
<1> DEFINE p == u \o <<Space, Star>>
           v == <<Space, Star>>
<1>1. Blank \in Seq(D) /\ <<Star>> \in Seq(D) /\ Len(<<Star>>) = 1 /\ v \in Seq(D) /\ Len(v) = 2
  BY DEF Blank
<1>2. v = Cat(Blank, <<Star>>)
  BY TwoAre DEF Cat, Blank
<1>3. Glob(Blank, Blank) /\ \A y \in Seq(D) : Glob(<<Star>>, y)
  BY <1>1, GlobItself
<1>4. CASE \E y \in Seq(D) : Join(c) = Between(x, y)
  <2>1. PICK y \in Seq(D) : Join(c) = Between(x, y)
    BY <1>4
  <2>2. Cat(Blank, y) \in Seq(D) /\ Glob(v, Cat(Blank, y))
    <3>1. Glob(<<Star>>, y)
      BY <1>3
    <3>2. Glob(Cat(Blank, <<Star>>), Cat(Blank, y))
      BY <1>1, <1>3, <3>1, GlobsJoin
    <3> QED BY <1>1, <1>2, <3>2, Texts
  <2>3. PICK e \in Seq(D) : e = Cat(Blank, y) /\ Glob(v, e)
    BY <2>2
  <2>4. PICK w \in Seq(D) : w = v
    BY <1>1
  <2>5. Glob(Cat(u, w), Cat(x, e))
    BY <2>3, <2>4, GlobsJoin
  <2>6. Glob(p, Join(c))
    BY <2>1, <2>3, <2>4, <2>5 DEF Cat, Between
  <2> QED BY <2>6 DEF Suits
<1>5. CASE Join(c) = x
  <2>1. BareForm(p) = u
    BY <1>1, Stripped
  <2>2. p = Cat(Cat(u, Blank), <<Star>>) /\ Cat(u, Blank) \in Seq(D)
    <3>1. Cat(Cat(u, Blank), <<Star>>) = Cat(u, Cat(Blank, <<Star>>))
      <4>1. PICK w \in Seq(D), k \in Seq(D) : w = <<Star>> /\ k = Blank
        BY <1>1
      <4>2. Cat(Cat(u, k), w) = Cat(u, Cat(k, w))
        BY Texts
      <4> QED BY <4>1, <4>2
    <3>2. p = Cat(u, Cat(Blank, <<Star>>))
      BY <1>2 DEF Cat
    <3> QED BY <1>1, <3>1, <3>2, Texts
  <2>3. Front(p) = Cat(u, Blank)
    <3>1. PICK w \in Seq(D) : w = Cat(u, Blank)
      BY <2>2
    <3>2. Front(w \o <<Star>>) = w
      BY <1>1, Stripped
    <3> QED BY <2>2, <3>1, <3>2 DEF Cat
  <2>4. HasStar(Front(p)) => HasStar(u)
    <3>1. Front(p) = u \o <<Space>>
      BY <2>3 DEF Cat, Blank
    <3> HIDE DEF p
    <3> QED BY <3>1, SpaceHasNoStar
  <2>5. EndsWithHole(p)
    <3>1. p \in Seq(D) /\ Len(p) = Len(u) + 2 /\ Len(u) \in Nat
      BY <1>1, Parts
    <3>2. \A i \in 1..2 : p[Len(u) + i] = v[i]
      BY <1>1, Parts
    <3>3. p[Len(u) + 1] = Space /\ p[Len(u) + 2] = Star
      BY <3>2
    <3> HIDE DEF p
    <3>4. Len(p) >= 2 /\ Len(p) - 1 = Len(u) + 1
      BY <3>1
    <3> QED BY <3>1, <3>3, <3>4 DEF EndsWithHole
  <2>6. Glob(SubSeq(p, 1, Len(p) - 2), Join(c)) /\ Glob(u, Join(c))
    BY <1>5, <2>1 DEF BareForm
  <2> HIDE DEF p, v
  <2>7. CASE tool.optionalTrailing \/ ~HasStar(u)
    BY <2>4, <2>5, <2>6, <2>7 DEF Suits, p
  <2>8. CASE ~(tool.optionalTrailing \/ ~HasStar(u))
    BY <2>6, <2>8 DEF Suits
  <2> QED BY <2>7, <2>8
<1> QED BY <1>4, <1>5

\* Where a text occurs, one of the globs for it reaches it.
LEMMA TextReaches ==
  ASSUME NEW D, Space \in D, Star \in D, NEW h \in Seq(D), NEW x \in Seq(D), Glob(h, x),
         NEW t \in Seq(D), t # <<>>, NEW rest \in Seq(D), Occurs(t, rest \o <<Space>>)
  PROVE  \/ Glob(Texted(h, t), Cat(x, rest))
         \/ Last(t) = Space /\ Glob(TextEnds(h, t), Cat(x, rest))
<1> DEFINE w == rest \o <<Space>>
<1>1. Blank \in Seq(D) /\ <<Star>> \in Seq(D)
  BY DEF Blank
<1>2. \A y \in Seq(D) : Glob(<<Star>>, y) /\ Glob(y, y)
  BY <1>1, GlobItself
<1>3. PICK g \in Seq(D) : g = Cat(h, <<Star>>)
  BY <1>1, Texts
<1>4. \A y \in Seq(D) : Cat(x, y) \in Seq(D) /\ Glob(g, Cat(x, y))
  <2> SUFFICES ASSUME NEW y \in Seq(D) PROVE Cat(x, y) \in Seq(D) /\ Glob(g, Cat(x, y))
    OBVIOUS
  <2>1. Glob(<<Star>>, y)
    BY <1>2
  <2> QED BY <1>1, <1>3, <2>1, GlobsJoin, Texts
<1>5. w \in Seq(D) /\ Len(w) = Len(rest) + 1 /\ w = Cat(rest, Blank) /\ w[Len(rest) + 1] = Space
  <2>0. <<Space>> \in Seq(D) /\ Len(<<Space>>) = 1
    OBVIOUS
  <2>1. w \in Seq(D) /\ Len(w) = Len(rest) + 1
    BY <2>0, Parts
  <2>2. \A i \in 1..1 : w[Len(rest) + i] = <<Space>>[i]
    BY <2>0, Parts
  <2>3. w[Len(rest) + 1] = Space
    BY <2>2
  <2> QED BY <2>1, <2>3 DEF Cat, Blank
<1> HIDE DEF w
<1>6. PICK i \in 1..(Len(w) - Len(t) + 1) : SubSeq(w, i, i + Len(t) - 1) = t
  BY DEF Occurs, w
<1>7. PICK m \in Nat, l \in Nat : m = Len(rest) /\ l = Len(t) /\ l # 0
  BY EmptySeq, LenProperties
<1>8. PICK j \in Nat : j + 1 = i /\ j + l <= m + 1
  <2>1. i - 1 \in Nat /\ (i - 1) + 1 = i /\ (i - 1) + l <= m + 1
    BY <1>5, <1>6, <1>7
  <2> QED BY <2>1
<1> DEFINE a == SubSeq(w, 1, j)
           b == SubSeq(w, j + 1, Len(w))
<1>9. w = Cat(a, b) /\ a \in Seq(D) /\ b \in Seq(D) /\ Len(b) = (m + 1) - j /\ \A k \in 1..((m + 1) - j) : b[k] = w[j + k]
  <2>1. j \in 0..Len(w) /\ Len(w) - j = (m + 1) - j
    BY <1>5, <1>7, <1>8
  <2>2. w = Cat(a, b)
    BY <1>5, <2>1, Cut DEF Cat
  <2>3. a \in Seq(D) /\ b \in Seq(D) /\ Len(b) = Len(w) - j /\ \A k \in 1..(Len(w) - j) : b[k] = w[j + k]
    BY <1>5, <2>1, Cut
  <2> HIDE DEF a, b
  <2> QED BY <2>1, <2>2, <2>3
<1> HIDE DEF a, b
<1>10. PICK k \in 0..Len(b) : k = l
  <2>1. l \in 0..((m + 1) - j)
    BY <1>8
  <2> QED BY <1>9, <2>1
<1> DEFINE s == SubSeq(b, 1, k)
           e == SubSeq(b, k + 1, Len(b))
<1>11. /\ b = Cat(s, e) /\ s \in Seq(D) /\ Len(s) = k /\ e \in Seq(D) /\ Len(e) = Len(b) - k
       /\ \A n \in 1..k : s[n] = b[n]
  BY <1>9, Cut DEF Cat
<1> HIDE DEF s, e
<1>12. s = t
  <2>1. i + Len(t) - 1 = j + l
    BY <1>7, <1>8
  <2>2. SubSeq(w, i, j + l) = t
    BY <1>6, <2>1
  <2>3. \A n \in 1..l : t[n] = w[j + n]
    <3>1. \A n \in i..(j + l) : w[n] \in D
      <4>1. \A n \in i..(j + l) : n \in 1..Len(w)
        BY <1>5, <1>7, <1>8
      <4> QED BY <1>5, <4>1, ElementOfSeq
    <3>2. i \in Int /\ j + l \in Int
      BY <1>8
    <3> DEFINE q == SubSeq(w, i, j + l)
    <3>3. \A n \in 1..((j + l) - i + 1) : q[n] = w[i + n - 1]
      BY <3>1, <3>2, SubSeqProperties
    <3> HIDE DEF q
    <3>4. (j + l) - i + 1 = l /\ \A n \in 1..l : i + n - 1 = j + n
      BY <1>8
    <3>5. q = t
      BY <2>2 DEF q
    <3> QED BY <3>3, <3>4, <3>5
  <2>4. \A n \in 1..l : n \in 1..((m + 1) - j)
    BY <1>8
  <2>5. \A n \in 1..l : s[n] = t[n]
    BY <1>9, <1>10, <1>11, <2>3, <2>4
  <2> QED BY <1>7, <1>10, <1>11, <2>5, SeqEqual
<1>13. Cat(rest, Blank) = Cat(a, Cat(t, e))
  BY <1>5, <1>9, <1>11, <1>12
<1>14. CASE e = <<>>
  <2>1. Cat(rest, Blank) = Cat(a, t)
    BY <1>13, <1>14, Texts
  <2>2. Len(a) <= Len(rest)
    <3>1. a = SubSeq(w, 1, j) /\ Len(a) = j
      <4>1. j \in 0..Len(w)
        BY <1>5, <1>7, <1>8
      <4> QED BY <1>5, <4>1, Cut DEF a
    <3> QED BY <1>7, <1>8, <3>1
  <2>3. PICK z \in Seq(D) : rest = Cat(a, z) /\ t = Cat(z, Blank)
    BY <1>1, <1>9, <2>1, <2>2, TwoCuts
  <2>4. Front(t) = z /\ Last(t) = Space
    <3>1. t = z \o <<Space>>
      BY <2>3 DEF Cat, Blank
    <3>2. <<Space>> \in Seq(D) /\ Len(<<Space>>) = 1
      OBVIOUS
    <3>3. Front(z \o <<Space>>) = z
      BY <3>2, Stripped
    <3>4. Len(z \o <<Space>>) = Len(z) + 1 /\ \A n \in 1..1 : (z \o <<Space>>)[Len(z) + n] = <<Space>>[n]
      BY <3>2, Parts
    <3>5. (z \o <<Space>>)[Len(z) + 1] = Space
      BY <3>4
    <3>6. t[Len(t)] = Space
      BY <3>1, <3>4, <3>5
    <3> QED BY <3>1, <3>3, <3>6 DEF Last
  <2>5. Glob(Cat(g, z), Cat(Cat(x, a), z))
    <3>1. Cat(x, a) \in Seq(D) /\ Glob(g, Cat(x, a)) /\ Glob(z, z)
      BY <1>2, <1>4, <1>9
    <3> QED BY <3>1, GlobsJoin
  <2>6. Cat(Cat(x, a), z) = Cat(x, rest)
    BY <1>9, <2>3, Texts
  <2>7. Cat(g, z) = TextEnds(h, t)
    BY <1>3, <2>4 DEF Cat, TextEnds
  <2> QED BY <2>4, <2>5, <2>6, <2>7
<1>15. CASE e # <<>>
  <2>1. PICK at \in Seq(D) : at = Cat(a, t)
    BY <1>9, Texts
  <2>2. Cat(rest, Blank) = Cat(at, e)
    BY <1>9, <1>11, <1>13, <2>1, Texts
  <2>3. Len(at) <= Len(rest)
    <3>1. Len(at) + Len(e) = Len(rest) + 1 /\ Len(e) # 0 /\ Len(at) \in Nat /\ Len(e) \in Nat
      <4>1. Len(Cat(at, e)) = Len(at) + Len(e)
        BY <1>11, Parts DEF Cat
      <4>2. Len(Cat(rest, Blank)) = Len(rest) + 1
        BY <1>5
      <4> QED BY <1>11, <1>15, <2>2, <4>1, <4>2, EmptySeq, LenProperties
    <3>2. PICK n1 \in Nat, n2 \in Nat : n1 = Len(at) /\ n2 = Len(e)
      BY <3>1
    <3>3. n1 + n2 = m + 1 /\ n2 # 0
      BY <1>7, <3>1, <3>2
    <3>4. n1 <= m
      BY <3>3
    <3> QED BY <1>7, <3>2, <3>4
  <2>4. PICK z \in Seq(D) : rest = Cat(at, z)
    BY <1>1, <1>11, <2>2, <2>3, TwoCuts
  <2>5. PICK p1 \in Seq(D), x1 \in Seq(D) : p1 = Cat(g, t) /\ x1 = Cat(Cat(x, a), t) /\ Glob(p1, x1)
    <3>1. Cat(x, a) \in Seq(D) /\ Glob(g, Cat(x, a)) /\ Glob(t, t)
      BY <1>2, <1>4, <1>9
    <3>2. Glob(Cat(g, t), Cat(Cat(x, a), t))
      BY <3>1, GlobsJoin
    <3>3. Cat(g, t) \in Seq(D) /\ Cat(Cat(x, a), t) \in Seq(D)
      BY <3>1, Texts
    <3> QED BY <3>2, <3>3
  <2>6. Glob(Cat(p1, <<Star>>), Cat(x1, z))
    <3>1. Glob(<<Star>>, z)
      BY <1>2
    <3> QED BY <1>1, <2>5, <3>1, GlobsJoin
  <2>7. Cat(x1, z) = Cat(x, rest)
    <3>1. x1 = Cat(x, at)
      BY <1>9, <2>1, <2>5, Texts
    <3> QED BY <2>4, <3>1, Texts
  <2>8. Cat(p1, <<Star>>) = Texted(h, t)
    BY <1>3, <2>5 DEF Cat, Texted
  <2> QED BY <2>6, <2>7, <2>8
<1> QED BY <1>14, <1>15

\* A gap in a glob, for one space or for words between two.
LEMMA GapReaches ==
  ASSUME NEW D, Space \in D, Star \in D, NEW h \in Seq(D), NEW x \in Seq(D), Glob(h, x), NEW q \in Seq(D)
  PROVE  /\ h \o <<Space>> \o q \in Seq(D) /\ Glob(h \o <<Space>> \o q, Between(x, q))
         /\ h \o <<Space, Star, Space>> \o q \in Seq(D)
         /\ \A y \in Seq(D) : Glob(h \o <<Space, Star, Space>> \o q, Between(Between(x, y), q))
<1>1. PICK b \in Seq(D), s \in Seq(D) : b = Blank /\ s = <<Star>>
  <2>1. Blank \in Seq(D) /\ <<Star>> \in Seq(D)
    BY DEF Blank
  <2> QED BY <2>1
<1>2. Glob(b, b) /\ Glob(q, q) /\ \A y \in Seq(D) : Glob(s, y)
  BY <1>1, GlobItself
<1>3. PICK g \in Seq(D), z \in Seq(D) : g = Cat(h, b) /\ z = Cat(x, b) /\ Glob(g, z)
  <2>1. Cat(h, b) \in Seq(D) /\ Cat(x, b) \in Seq(D)
    BY Texts
  <2>2. Glob(Cat(h, b), Cat(x, b))
    BY <1>2, GlobsJoin
  <2> QED BY <2>1, <2>2
<1>4. h \o <<Space>> \o q = Cat(g, q)
  BY <1>1, <1>3 DEF Cat, Blank
<1>5. Cat(g, q) \in Seq(D) /\ Glob(Cat(g, q), Cat(z, q))
  BY <1>2, <1>3, GlobsJoin, Texts
<1>6. Cat(z, q) = Between(x, q)
  <2>1. Cat(Cat(x, b), q) = Cat(x, Cat(b, q))
    BY Texts
  <2> QED BY <1>1, <1>3, <2>1 DEF Between
<1>7. PICK g2 \in Seq(D) : g2 = Cat(g, s)
  BY Texts
<1>8. PICK g3 \in Seq(D) : g3 = Cat(g2, b)
  BY Texts
<1>9. h \o <<Space, Star, Space>> \o q = Cat(g3, q)
  <2>1. <<Space, Star, Space>> = <<Space>> \o <<Star>> \o <<Space>>
    OBVIOUS
  <2>2. <<Space, Star, Space>> = Cat(Cat(b, s), b)
    BY <1>1, <2>1 DEF Cat, Blank
  <2>3. Cat(b, s) \in Seq(D)
    BY Texts
  <2>4. Cat(h, Cat(Cat(b, s), b)) = Cat(Cat(h, Cat(b, s)), b)
    BY <2>3, Texts
  <2>5. Cat(h, Cat(b, s)) = g2
    BY <1>3, <1>7, Texts
  <2>6. Cat(h, <<Space, Star, Space>>) = g3
    BY <1>8, <2>2, <2>4, <2>5
  <2> QED BY <2>6 DEF Cat
<1>10. Cat(g3, q) \in Seq(D)
  BY Texts
<1>11. ASSUME NEW y \in Seq(D) PROVE Glob(Cat(g3, q), Between(Between(x, y), q))
  <2>1. PICK z2 \in Seq(D) : z2 = Cat(z, y) /\ Glob(g2, z2)
    <3>1. Cat(z, y) \in Seq(D)
      BY Texts
    <3>2. Glob(s, y)
      BY <1>2
    <3>3. Glob(Cat(g, s), Cat(z, y))
      BY <1>3, <3>2, GlobsJoin
    <3> QED BY <1>7, <3>1, <3>3
  <2>2. PICK z3 \in Seq(D) : z3 = Cat(z2, b) /\ Glob(g3, z3)
    <3>1. Cat(z2, b) \in Seq(D)
      BY Texts
    <3>2. Glob(Cat(g2, b), Cat(z2, b))
      BY <1>2, <2>1, GlobsJoin
    <3> QED BY <1>8, <3>1, <3>2
  <2>3. Glob(Cat(g3, q), Cat(z3, q))
    BY <1>2, <2>2, GlobsJoin
  <2>4. Between(x, y) = z2
    <3>1. Cat(Cat(x, b), y) = Cat(x, Cat(b, y))
      BY Texts
    <3> QED BY <1>1, <1>3, <2>1, <3>1 DEF Between
  <2>5. Between(z2, q) = Cat(z3, q)
    <3>1. Cat(Cat(z2, b), q) = Cat(z2, Cat(b, q))
      BY Texts
    <3> QED BY <1>1, <2>2, <3>1 DEF Between
  <2> QED BY <2>3, <2>4, <2>5
<1> QED BY <1>4, <1>5, <1>6, <1>9, <1>10, <1>11

\* The words up to a place, of those up to a later one.
LEMMA UpToWithin ==
  ASSUME NEW D, Space \in D, NEW c \in Seq(Seq(D)), NEW k \in 1..Len(c), NEW j \in 1..k
  PROVE  UpTo(UpTo(c, k), j) = UpTo(c, j) /\ j \in 1..Len(c)
<1>1. PICK b \in Seq(Seq(D)) : b = UpTo(c, k)
  BY JoinCut
<1>2. Len(b) = k /\ \A i \in 1..k : b[i] = c[i]
  <2>1. Len(UpTo(c, k)) = k
    BY JoinCut
  <2>2. \A i \in 1..k : UpTo(c, k)[i] = c[i]
    BY JoinCut
  <2> QED BY <1>1, <2>1, <2>2
<1>3. k \in Nat /\ j \in Nat /\ j \in 1..Len(c) /\ j \in 1..Len(b) /\ \A i \in 1..j : i \in 1..k
  <2>1. PICK n \in Nat : n = Len(c)
    BY LenProperties
  <2>2. j \in 1..n /\ k \in Nat /\ j \in Nat
    BY <2>1
  <2> QED BY <1>2, <2>1, <2>2
<1>4. UpTo(b, j) \in Seq(Seq(D)) /\ Len(UpTo(b, j)) = j /\ \A i \in 1..j : UpTo(b, j)[i] = b[i]
  BY <1>3, JoinCut
<1>5. UpTo(c, j) \in Seq(Seq(D)) /\ Len(UpTo(c, j)) = j /\ \A i \in 1..j : UpTo(c, j)[i] = c[i]
  BY <1>3, JoinCut
<1>6. \A i \in 1..j : UpTo(b, j)[i] = UpTo(c, j)[i]
  BY <1>2, <1>3, <1>4, <1>5
<1>7. UpTo(b, j) = UpTo(c, j)
  BY <1>4, <1>5, <1>6, SeqEqual
<1> QED BY <1>1, <1>3, <1>7

\* Words that stand in a command end a beginning of it.
LEMMA StandsIn ==
  ASSUME NEW D, Space \in D, NEW d \in Seq(Seq(D)), NEW s \in Seq(Seq(D)), s # <<>>,
         NEW j \in Nat, j >= 1, j + Len(s) <= Len(d), SubSeq(d, j + 1, j + Len(s)) = s
  PROVE  LET k == j + Len(s)
         IN k \in 1..Len(d) /\ j \in 1..k /\ Join(UpTo(d, k)) = Between(Join(UpTo(d, j)), Join(s))
<1>1. PICK l \in Nat, n \in Nat : l = Len(s) /\ n = Len(d) /\ l # 0
  BY EmptySeq, LenProperties
<1>2. PICK k \in 1..Len(d) : k = j + l
  <2>1. j + l \in 1..n
    BY <1>1
  <2> QED BY <1>1, <2>1
<1>3. PICK b \in Seq(Seq(D)) : b = UpTo(d, k)
  BY JoinCut
<1>4. Len(b) = k /\ \A i \in 1..k : b[i] = d[i]
  <2>1. Len(UpTo(d, k)) = k
    BY JoinCut
  <2>2. \A i \in 1..k : UpTo(d, k)[i] = d[i]
    BY JoinCut
  <2> QED BY <1>3, <2>1, <2>2
<1>5. j \in 1..k /\ j < k /\ k - j = l
  BY <1>1, <1>2
<1>6. PICK o \in 1..Len(b) : o = j /\ o < Len(b)
  BY <1>4, <1>5
<1>7. From(b, o + 1) \in Seq(Seq(D))
  BY JoinCut
<1>8. Len(From(b, o + 1)) = Len(b) - o
  BY JoinCut
<1>9. \A i \in 1..(Len(b) - o) : From(b, o + 1)[i] = b[o + i]
  BY JoinCut
<1>10. Join(b) = Between(Join(UpTo(b, o)), Join(From(b, o + 1)))
  BY <1>6, JoinCut
<1>11. \A i \in 1..l : d[j + i] = s[i]
  <2>1. SubSeq(s, 1, l) = s
    BY <1>1, SubSeqFull
  <2>2. SubSeq(d, j + 1, j + l) = SubSeq(s, 1, l)
    BY <1>1, <2>1
  <2>3. j + l <= Len(d) /\ l <= Len(s)
    BY <1>1
  <2> QED BY <2>2, <2>3, SameStretch
<1>12. PICK f \in Seq(Seq(D)) : f = From(b, o + 1)
  BY <1>7
<1>13. Len(f) = l
  BY <1>4, <1>5, <1>6, <1>8, <1>12
<1>14. \A i \in 1..l : f[i] = b[j + i]
  BY <1>4, <1>5, <1>6, <1>9, <1>12
<1>15. \A i \in 1..l : j + i \in 1..k
  BY <1>2
<1>16. \A i \in 1..l : f[i] = s[i]
  BY <1>4, <1>11, <1>14, <1>15
<1>17. f = s
  BY <1>1, <1>13, <1>16, SeqEqual
<1>18. UpTo(b, o) = UpTo(d, j)
  BY <1>3, <1>5, <1>6, UpToWithin
<1> QED BY <1>1, <1>2, <1>3, <1>5, <1>10, <1>12, <1>17, <1>18

\* What a beginning of a command reaches, more words may follow.
LEMMA MoreFollows ==
  ASSUME NEW D, Space \in D, NEW d \in Seq(Seq(D)), NEW k \in 1..Len(d), NEW t \in Seq(D)
  PROVE  /\ Cat(t, Join(UpTo(d, k))) \in Seq(D)
         /\ \/ Cat(t, Join(d)) = Cat(t, Join(UpTo(d, k)))
            \/ \E y \in Seq(D) : Cat(t, Join(d)) = Between(Cat(t, Join(UpTo(d, k))), y)
<1>1. PICK a \in Seq(D) : a = Join(UpTo(d, k))
  BY JoinCut
<1>2. Cat(t, a) \in Seq(D)
  BY Texts
<1>3. CASE k = Len(d)
  <2>1. UpTo(d, k) = d
    BY <1>3, JoinCut
  <2> QED BY <1>1, <1>2, <2>1
<1>4. CASE k # Len(d)
  <2>1. k < Len(d)
    <3>1. PICK n \in Nat : n = Len(d)
      BY LenProperties
    <3> QED BY <1>4, <3>1
  <2>2. PICK y \in Seq(D) : Join(d) = Between(a, y)
    BY <1>1, <2>1, JoinCut
  <2>3. Cat(t, Between(a, y)) = Between(Cat(t, a), y)
    BY BetweenIs
  <2> QED BY <1>1, <1>2, <2>2, <2>3
<1> QED BY <1>3, <1>4

\* A text is what a pattern matched, or has a space and more behind it.
Continues(D, text, z) == text = z \/ \E y \in Seq(D) : text = Between(z, y)

\* Where a tail follows a head, a glob for both reaches as far.
LEMMA TailReaches ==
  ASSUME NEW D, Space \in D, Star \in D, NEW d \in Seq(Seq(D)), NEW n \in 1..Len(d), NEW t \in Seq(D),
         NEW h \in Seq(D), Glob(h, Cat(t, Join(UpTo(d, n)))),
         NEW s \in Seq(Seq(D)), s # <<>>, NEW j \in Nat, n <= j, j + Len(s) <= Len(d),
         SubSeq(d, j + 1, j + Len(s)) = s
  PROVE  \E gap \in Gaps, z \in Seq(D) :
           Tailed(h, s, gap) \in Seq(D) /\ Glob(Tailed(h, s, gap), z) /\ Continues(D, Cat(t, Join(d)), z)
<1>1. j >= 1
  <2>1. PICK m \in Nat : m = Len(d)
    BY LenProperties
  <2>2. n \in 1..m
    BY <2>1
  <2> QED BY <2>2
<1>2. PICK k : k = j + Len(s)
  OBVIOUS
<1>3. k \in 1..Len(d) /\ j \in 1..k /\ Join(UpTo(d, k)) = Between(Join(UpTo(d, j)), Join(s))
  BY <1>1, <1>2, StandsIn
<1>4. PICK q \in Seq(D) : q = Join(s)
  BY SpacedIsJoin
<1>5. PICK a \in Seq(D), x \in Seq(D) : a = Join(UpTo(d, n)) /\ x = Cat(t, a) /\ Glob(h, x)
  <2>1. Join(UpTo(d, n)) \in Seq(D)
    BY JoinCut
  <2>2. Cat(t, Join(UpTo(d, n))) \in Seq(D)
    BY <2>1, Texts
  <2> QED BY <2>1, <2>2
<1>6. PICK z \in Seq(D) : z = Cat(t, Join(UpTo(d, k)))
  BY <1>3, MoreFollows
<1>7. Continues(D, Cat(t, Join(d)), z)
  BY <1>3, <1>6, MoreFollows DEF Continues
<1>8. Tailed(h, s, <<Space>>) = h \o <<Space>> \o q /\ Tailed(h, s, <<Space, Star, Space>>) = h \o <<Space, Star, Space>> \o q
  BY <1>4 DEF Tailed
<1>9. <<Space>> \in Gaps /\ <<Space, Star, Space>> \in Gaps
  BY DEF Gaps
<1>10. CASE j = n
  <2>1. z = Cat(t, Between(a, q))
    BY <1>3, <1>4, <1>5, <1>6, <1>10
  <2>2. Cat(t, Between(a, q)) = Between(Cat(t, a), q)
    BY BetweenIs
  <2>3. z = Between(x, q)
    BY <1>5, <2>1, <2>2
  <2>4. h \o <<Space>> \o q \in Seq(D) /\ Glob(h \o <<Space>> \o q, Between(x, q))
    BY <1>5, GapReaches
  <2> DEFINE p == Tailed(h, s, <<Space>>)
  <2>5. p \in Seq(D) /\ Glob(p, z)
    BY <1>8, <2>3, <2>4
  <2> QED BY <1>7, <1>9, <2>5
<1>11. CASE j # n
  <2>1. PICK o \in 1..Len(d) : o = j
    <3>1. PICK m \in Nat : m = Len(d)
      BY LenProperties
    <3>2. j \in 1..m
      BY <1>3, <3>1
    <3> QED BY <3>1, <3>2
  <2>2. PICK b \in Seq(Seq(D)) : b = UpTo(d, o)
    BY JoinCut
  <2>3. Len(b) = o
    <3>1. Len(UpTo(d, o)) = o
      BY JoinCut
    <3> QED BY <2>2, <3>1
  <2>4. PICK i \in 1..Len(b) : i = n /\ i < Len(b)
    <3>1. n \in 1..o /\ n < o
      <4>1. PICK m \in Nat : m = Len(d)
        BY LenProperties
      <4>2. n \in 1..m
        BY <4>1
      <4> QED BY <1>11, <2>1, <4>2
    <3> QED BY <2>3, <3>1
  <2>5. UpTo(b, i) = UpTo(d, n)
    BY <2>2, <2>3, <2>4, UpToWithin
  <2>6. PICK y \in Seq(D) : Join(b) = Between(Join(UpTo(b, i)), y)
    BY <2>4, JoinCut
  <2>7. Join(UpTo(d, j)) = Between(a, y)
    BY <1>5, <2>1, <2>2, <2>5, <2>6
  <2>8. z = Cat(t, Between(Between(a, y), q))
    BY <1>3, <1>4, <1>6, <2>7
  <2>9. z = Between(Between(x, y), q)
    <3>1. PICK u \in Seq(D) : u = Between(a, y)
      BY BetweenIs
    <3>2. Cat(t, Between(u, q)) = Between(Cat(t, u), q)
      BY BetweenIs
    <3>3. Cat(t, u) = Between(x, y)
      <4>1. Cat(t, Between(a, y)) = Between(Cat(t, a), y)
        BY BetweenIs
      <4> QED BY <1>5, <3>1, <4>1
    <3> QED BY <2>8, <3>1, <3>2, <3>3
  <2>10. h \o <<Space, Star, Space>> \o q \in Seq(D)
         /\ Glob(h \o <<Space, Star, Space>> \o q, Between(Between(x, y), q))
    BY <1>5, GapReaches
  <2> DEFINE p == Tailed(h, s, <<Space, Star, Space>>)
  <2>11. p \in Seq(D) /\ Glob(p, z)
    BY <1>8, <2>9, <2>10
  <2> QED BY <1>7, <1>9, <2>11
<1> QED BY <1>10, <1>11

\* The stems of a rule's globs.
StemsOf(r, options, prefix) ==
  LET heads == GlobHeads(r, options, prefix)
  IN IF r.tail = {} THEN heads ELSE {Tailed(h, s, gap) : h \in heads, s \in r.tail, gap \in Gaps}

\* Where a rule's head stands and its tail follows, some stem reaches as far.
LEMMA StemReaches ==
  ASSUME NEW D, Space \in D, Star \in D, NEW V, V \subseteq Seq(D), NEW r, IsRule(r, V), <<>> \notin r.tail,
         NEW options \in SUBSET Seq(D), NEW d \in Seq(Seq(D)), NEW n \in 1..Len(d),
         HeadStandsAt(r, d, options, n), TailFollows(r, d, n),
         NEW prefix \in Seq(D), NEW t \in Seq(D), Glob(prefix, t)
  PROVE  \E u \in StemsOf(r, options, prefix), z \in Seq(D) :
           u \in Seq(D) /\ Glob(u, z) /\ Continues(D, Cat(t, Join(d)), z)
<1> DEFINE heads == GlobHeads(r, options, prefix)
<1>1. PICK h \in heads : h \in Seq(D) /\ Glob(h, Cat(t, Join(UpTo(d, n))))
  BY HeadReaches
<1> DEFINE tailed == {Tailed(h1, s1, gap1) : h1 \in heads, s1 \in r.tail, gap1 \in Gaps}
           Met(u) == \E z \in Seq(D) : u \in Seq(D) /\ Glob(u, z) /\ Continues(D, Cat(t, Join(d)), z)
<1>2. StemsOf(r, options, prefix) = IF r.tail = {} THEN heads ELSE tailed
  BY DEF StemsOf
<1> SUFFICES \E u \in StemsOf(r, options, prefix) : Met(u)
  OBVIOUS
<1> HIDE DEF heads, tailed
<1>3. CASE r.tail = {}
  <2>1. PICK z \in Seq(D) : z = Cat(t, Join(UpTo(d, n))) /\ Continues(D, Cat(t, Join(d)), z)
    BY MoreFollows DEF Continues
  <2>2. Met(h)
    BY <1>1, <2>1
  <2> QED BY <1>2, <1>1, <1>3, <2>2
<1>4. CASE r.tail # {}
  <2>1. PICK s \in r.tail : \E i \in (n + 1)..(Len(d) - Len(s) + 1) : SubSeq(d, i, i + Len(s) - 1) = s
    BY <1>4 DEF TailFollows
  <2>2. PICK i \in (n + 1)..(Len(d) - Len(s) + 1) : SubSeq(d, i, i + Len(s) - 1) = s
    BY <2>1
  <2>3. s \in Seq(Seq(D)) /\ s # <<>>
    <3>1. Seq(V) \subseteq Seq(Seq(D))
      BY SeqMonotonic
    <3> QED BY <3>1 DEF IsRule
  <2>4. PICK l \in Nat, m \in Nat : l = Len(s) /\ m = Len(d)
    BY <2>3, LenProperties
  <2>5. PICK j \in Nat : j + 1 = i /\ n <= j /\ j + l <= m /\ i + l - 1 = j + l
    <3>1. n \in Nat /\ i \in (n + 1)..(m - l + 1)
      BY <2>4
    <3>2. i - 1 \in Nat /\ (i - 1) + 1 = i /\ n <= i - 1 /\ (i - 1) + l <= m /\ i + l - 1 = (i - 1) + l
      BY <3>1
    <3> QED BY <3>2
  <2>6. SubSeq(d, j + 1, j + Len(s)) = s /\ j + Len(s) <= Len(d) /\ n <= j
    BY <2>2, <2>4, <2>5
  <2>7. PICK g \in Seq(D), w \in Seq(Seq(D)) : g = h /\ w = s
    BY <1>1, <2>3
  <2>8. Glob(g, Cat(t, Join(UpTo(d, n)))) /\ w # <<>> /\ SubSeq(d, j + 1, j + Len(w)) = w /\ j + Len(w) <= Len(d) /\ n <= j
    BY <1>1, <2>3, <2>6, <2>7
  <2>9. \E gap \in Gaps, z \in Seq(D) :
          Tailed(g, w, gap) \in Seq(D) /\ Glob(Tailed(g, w, gap), z) /\ Continues(D, Cat(t, Join(d)), z)
    BY <2>8, TailReaches
  <2>10. PICK gap \in Gaps : Met(Tailed(h, s, gap))
    BY <2>7, <2>9
  <2>11. Tailed(h, s, gap) \in tailed
    BY DEF tailed
  <2> QED BY <1>2, <1>4, <2>10, <2>11
<1> QED BY <1>3, <1>4

\* What may follow the word at a place, with the space before it.
Behind(d, n) == IF n < Len(d) THEN <<Space>> \o Join(From(d, n + 1)) ELSE <<>>

\* A command is what comes up to a place, and what is behind it.
LEMMA BehindJoins ==
  ASSUME NEW D, Space \in D, NEW d \in Seq(Seq(D)), NEW n \in 1..Len(d)
  PROVE  Behind(d, n) \in Seq(D) /\ Join(d) = Cat(Join(UpTo(d, n)), Behind(d, n))
<1>1. PICK a \in Seq(D) : a = Join(UpTo(d, n))
  BY JoinCut
<1>2. CASE n < Len(d)
  <2>1. PICK b \in Seq(D) : b = Join(From(d, n + 1)) /\ Join(d) = Between(a, b)
    BY <1>1, <1>2, JoinCut
  <2>2. Behind(d, n) = Cat(Blank, b)
    BY <1>2, <2>1 DEF Behind, Cat, Blank
  <2>3. Cat(Blank, b) \in Seq(D)
    BY BetweenIs
  <2> QED BY <1>1, <2>1, <2>2, <2>3 DEF Between
<1>3. CASE ~(n < Len(d))
  <2>1. Behind(d, n) = <<>> /\ <<>> \in Seq(D)
    BY <1>3 DEF Behind
  <2>2. n = Len(d)
    <3>1. PICK m \in Nat : m = Len(d)
      BY LenProperties
    <3> QED BY <1>3, <3>1
  <2>3. UpTo(d, n) = d
    BY <2>2, JoinCut
  <2>4. Cat(a, <<>>) = a
    BY Texts
  <2> QED BY <1>1, <2>1, <2>3, <2>4
<1> QED BY <1>2, <1>3

\* Words and texts of a rule, and what its fields exclude.
RuleOver(D, V, r) ==
  /\ V \subseteq Seq(D) /\ IsRule(r, V) /\ <<>> \notin r.tail
  /\ \A x \in r.text : x \in Seq(D) /\ x # <<>>
  /\ r.exact => r.tail = {} /\ r.text = {}
  /\ r.tail = {} \/ r.text = {}

\* What a rule matches, where it stands.
LEMMA BareStands ==
  ASSUME NEW D, NEW V, NEW r, RuleOver(D, V, r), NEW options,
         NEW d \in Seq(Seq(D)), MatchesBare(r, d, options, TRUE)
  PROVE  \E n \in 1..Len(d) :
           /\ HeadStandsAt(r, d, options, n)
           /\ r.text = {} => TailFollows(r, d, n)
           /\ r.exact => n = Len(d)
           /\ r.text # {} => \E x \in r.text : Occurs(x, Behind(d, n) \o <<Space>>)
<1>1. IsRule(r, Seq(D))
  <2>1. V \subseteq Seq(D)
    BY DEF RuleOver
  <2>2. Seq(V) \subseteq Seq(Seq(D))
    BY <2>1, SeqMonotonic
  <2> QED BY <2>1, <2>2 DEF RuleOver, IsRule
<1>2. PICK n \in DOMAIN d :
        /\ HeadEndsAt(r, d, options, n) /\ HeadIsWhole(r, d, n)
        /\ IF r.text # {}
           THEN LET rest == From(d[n], Len(Last(HeadOf(r))) + 1) \o Behind(d, n)
                IN \E x \in r.text : Occurs(x, rest \o <<Space>>)
           ELSE (r.exact => n = Len(d)) /\ TailFollows(r, d, n)
  BY DEF MatchesBare, TailFollows, Behind
<1>3. n \in 1..Len(d)
  BY LenProperties
<1>4. HeadStandsAt(r, d, options, n)
  BY <1>1, <1>2, <1>3, HeadPlaces
<1>5. From(d[n], Len(Last(HeadOf(r))) + 1) = <<>>
  <2>1. PICK w \in Seq(D) : w = d[n] /\ w = Last(HeadOf(r))
    BY <1>2, <1>3, LenOfWord DEF HeadIsWhole
  <2>2. PICK m \in 0..Len(w) : m = Len(w)
    BY LenProperties
  <2>3. SubSeq(w, m + 1, Len(w)) \in Seq(D) /\ Len(SubSeq(w, m + 1, Len(w))) = Len(w) - m
    BY Cut
  <2>4. Len(w) - m = 0
    BY <2>2
  <2>5. SubSeq(w, m + 1, Len(w)) = <<>>
    BY <2>3, <2>4, EmptySeq
  <2> QED BY <2>1, <2>2, <2>5 DEF From
<1>6. ASSUME r.text # {} PROVE \E x \in r.text : Occurs(x, Behind(d, n) \o <<Space>>)
  <2>1. <<>> \o Behind(d, n) = Behind(d, n)
    <3>1. PICK y : y = Behind(d, n) /\ (y = <<>> \/ \E z : y = <<Space>> \o z)
      BY DEF Behind
    <3> QED BY <3>1
  <2> QED BY <1>2, <1>5, <1>6, <2>1
<1>7. r.exact => n = Len(d)
  BY <1>2 DEF RuleOver
<1> QED BY <1>2, <1>3, <1>4, <1>6, <1>7

\* What a rule matches, behind what its prefix matches, one of its globs suits.
LEMMA BareReaches ==
  ASSUME NEW D, Space \in D, Star \in D, NEW V, NEW r, RuleOver(D, V, r),
         NEW options \in SUBSET Seq(D), NEW d \in Seq(Seq(D)), MatchesBare(r, d, options, TRUE),
         NEW prefix \in Seq(D), NEW t \in Seq(D), Glob(prefix, t),
         NEW tool, NEW c, Join(c) = Cat(t, Join(d))
  PROVE  \E p \in GlobVariants(r, options, prefix, tool.optionalTrailing) : Suits(tool, p, c)
<1> DEFINE heads == GlobHeads(r, options, prefix)
           stems == StemsOf(r, options, prefix)
           spaced == {x \in r.text : Last(x) = Space}
           P == GlobVariants(r, options, prefix, tool.optionalTrailing)
<1>1. P = IF r.exact THEN heads
          ELSE IF r.text # {}
          THEN {Texted(s, x) : s \in stems, x \in r.text} \cup {TextEnds(s, x) : s \in stems, x \in spaced}
          ELSE {s \o <<Space, Star>> : s \in stems}
                 \cup (IF tool.optionalTrailing THEN {} ELSE {s \in stems : HasStar(s)})
  BY DEF GlobVariants, StemsOf, Gaps, Tailed, Texted, TextEnds
<1> SUFFICES \E p \in P : Suits(tool, p, c)
  OBVIOUS
<1>2. PICK n \in 1..Len(d) :
        /\ HeadStandsAt(r, d, options, n)
        /\ r.text = {} => TailFollows(r, d, n)
        /\ r.exact => n = Len(d)
        /\ r.text # {} => \E x \in r.text : Occurs(x, Behind(d, n) \o <<Space>>)
  BY BareStands
<1>3. V \subseteq Seq(D) /\ IsRule(r, V) /\ <<>> \notin r.tail /\ (r.exact => r.tail = {} /\ r.text = {})
      /\ (r.tail = {} \/ r.text = {}) /\ \A x \in r.text : x \in Seq(D) /\ x # <<>>
  BY DEF RuleOver
<1>4. PICK h \in heads : h \in Seq(D) /\ Glob(h, Cat(t, Join(UpTo(d, n))))
  BY <1>2, <1>3, HeadReaches
<1>5. PICK a \in Seq(D), z \in Seq(D), g \in Seq(D) : a = Join(UpTo(d, n)) /\ z = Cat(t, a) /\ g = h /\ Glob(g, z)
  <2>1. PICK a \in Seq(D) : a = Join(UpTo(d, n))
    BY JoinCut
  <2>2. Cat(t, a) \in Seq(D)
    BY Texts
  <2> QED BY <1>4, <2>1, <2>2
<1> HIDE DEF P, heads
<1>6. CASE r.exact
  <2>1. UpTo(d, n) = d
    BY <1>2, <1>6, JoinCut
  <2>2. Glob(h, Join(c))
    BY <1>5, <2>1
  <2> QED BY <1>1, <1>4, <1>6, <2>2 DEF Suits
<1>7. CASE ~r.exact /\ r.text # {}
  <2>1. PICK x \in r.text : Occurs(x, Behind(d, n) \o <<Space>>)
    BY <1>2, <1>7
  <2>2. PICK rest \in Seq(D) : rest = Behind(d, n) /\ Join(d) = Cat(a, rest)
    BY <1>5, BehindJoins
  <2>3. Join(c) = Cat(z, rest)
    BY <1>5, <2>2, Texts
  <2>4. PICK y \in Seq(D) : y = x /\ y # <<>>
    BY <1>3
  <2>5. Glob(Texted(g, y), Cat(z, rest)) \/ (Last(y) = Space /\ Glob(TextEnds(g, y), Cat(z, rest)))
    <3>1. Occurs(y, rest \o <<Space>>)
      BY <2>1, <2>2, <2>4
    <3> QED BY <1>5, <2>4, <3>1, TextReaches
  <2>6. h \in stems
    BY <1>3, <1>4, <1>7 DEF StemsOf, heads
  <2> HIDE DEF stems
  <2>7. CASE Glob(Texted(g, y), Cat(z, rest))
    <3>1. Texted(h, x) \in P
      BY <1>1, <1>7, <2>6
    <3>2. Suits(tool, Texted(h, x), c)
      BY <1>5, <2>3, <2>4, <2>7 DEF Suits
    <3> QED BY <3>1, <3>2
  <2>8. CASE Last(y) = Space /\ Glob(TextEnds(g, y), Cat(z, rest))
    <3>1. x \in spaced
      BY <2>4, <2>8
    <3> HIDE DEF spaced
    <3>2. TextEnds(h, x) \in P
      BY <1>1, <1>7, <2>6, <3>1
    <3>3. Suits(tool, TextEnds(h, x), c)
      BY <1>5, <2>3, <2>4, <2>8 DEF Suits
    <3> QED BY <3>2, <3>3
  <2> QED BY <2>5, <2>7, <2>8
<1>8. CASE ~r.exact /\ r.text = {}
  <2>1. TailFollows(r, d, n)
    BY <1>2, <1>8
  <2>2. PICK u \in stems, q \in Seq(D) : u \in Seq(D) /\ Glob(u, q) /\ Continues(D, Cat(t, Join(d)), q)
    BY <1>2, <1>3, <2>1, StemReaches
  <2> HIDE DEF stems
  <2>3. PICK v \in Seq(D) : v = u
    BY <2>2
  <2>4. Glob(v, q) /\ (Join(c) = q \/ \E y \in Seq(D) : Join(c) = Between(q, y))
    BY <2>2, <2>3 DEF Continues
  <2>5. \/ Suits(tool, v \o <<Space, Star>>, c)
        \/ ~tool.optionalTrailing /\ HasStar(v) /\ Suits(tool, v, c)
    BY <2>4, StemSuits
  <2>6. CASE Suits(tool, v \o <<Space, Star>>, c)
    <3> DEFINE holed == {s \o <<Space, Star>> : s \in stems}
               bare == IF tool.optionalTrailing THEN {} ELSE {s \in stems : HasStar(s)}
    <3>1. P = holed \cup bare
      BY <1>1, <1>8
    <3>2. u \o <<Space, Star>> \in holed
      OBVIOUS
    <3> HIDE DEF holed, bare
    <3>3. u \o <<Space, Star>> \in P
      BY <3>1, <3>2
    <3> QED BY <2>3, <2>6, <3>3
  <2>7. CASE ~tool.optionalTrailing /\ HasStar(v) /\ Suits(tool, v, c)
    <3>1. u \in P
      BY <1>1, <1>8, <2>3, <2>7
    <3> QED BY <2>3, <2>7, <3>1
  <2> QED BY <2>5, <2>6, <2>7
<1>9. r.exact \in BOOLEAN
  BY <1>3 DEF IsRule
<1> QED BY <1>6, <1>7, <1>8, <1>9

\* What a tool sees of a command for a bucket: all of it or, where it peels,
\* also what it leaves of it.
SeenAt(tool, bucket, c) == IF Peels(tool, bucket) THEN SeenFrom(tool.peeled, c) ELSE {1}
Seen(tool, bucket, c) == {From(c, j) : j \in SeenAt(tool, bucket, c)}

\* The end of a command from a position on, and an end of that.
LEMMA EndFrom ==
  ASSUME NEW W, NEW c \in Seq(W), NEW i \in 1..Len(c)
  PROVE  /\ From(c, i) \in Seq(W) /\ Len(From(c, i)) = Len(c) - i + 1
         /\ \A x \in 1..(Len(c) - i + 1) : From(c, i)[x] = c[i + x - 1]
         /\ \A k \in 1..(Len(c) - i + 1) : From(From(c, i), k) = From(c, i + k - 1)
<1>1. Len(c) \in Nat /\ \A x \in i..Len(c) : c[x] \in W
  BY LenProperties, ElementOfSeq
<1> DEFINE u == SubSeq(c, i, Len(c))
<1>2. i \in Int /\ Len(c) \in Int /\ i <= Len(c)
  BY <1>1
<1>3. /\ u \in Seq(W) /\ Len(u) = IF i <= Len(c) THEN Len(c) - i + 1 ELSE 0
      /\ \A x \in 1..(Len(c) - i + 1) : u[x] = c[i + x - 1]
  BY <1>1, <1>2, SubSeqProperties
<1>4. ASSUME NEW k \in 1..(Len(c) - i + 1) PROVE From(u, k) = From(c, i + k - 1)
  <2>1. Len(c) \in 1..Len(c) /\ Len(c) - i + 1 \in 1..(Len(c) - i + 1)
    BY <1>1, <1>2
  <2>2. SubSeq(SubSeq(c, i, Len(c)), k, Len(c) - i + 1) = SubSeq(c, i + k - 1, i + (Len(c) - i + 1) - 1)
    BY <2>1, SubSeqOfSubSeq
  <2>3. i + (Len(c) - i + 1) - 1 = Len(c)
    BY <1>1
  <2>4. Len(u) = Len(c) - i + 1
    BY <1>2, <1>3
  <2> QED BY <2>2, <2>3, <2>4 DEF From
<1>5. From(c, i) = u
  BY DEF From
<1> HIDE DEF u
<1> QED BY <1>2, <1>3, <1>4, <1>5

\* A tool sees the command that it is given.
LEMMA SeenWhole ==
  ASSUME NEW W, NEW c \in Seq(W), c # <<>>, NEW peeled
  PROVE  /\ 1 \in SeenFrom(peeled, c) /\ SeenFrom(peeled, c) \subseteq 1..Len(c)
         /\ From(c, 1) = c /\ Len(c) \in Nat /\ 1 \in 1..Len(c)
         /\ peeled = {} => SeenFrom(peeled, c) = {1}
<1>1. PICK n \in Nat : n = Len(c) /\ n # 0 /\ DOMAIN c = 1..n
  BY LenProperties, EmptySeq
<1>2. From(c, 1) = c
  BY SubSeqFull DEF From
<1>3. 1 \in SeenFrom(peeled, c)
  <2>1. 1 \in DOMAIN c /\ {1} \in SUBSET (1..1) /\ {1} \ {1} = {}
    BY <1>1
  <2> QED BY <2>1 DEF SeenFrom
<1>4. SeenFrom(peeled, c) \subseteq DOMAIN c
  BY DEF SeenFrom
<1>5. ASSUME peeled = {}, NEW j \in SeenFrom(peeled, c), j # 1 PROVE FALSE
  <2>1. \E i, k : Sheds(peeled, c, i, k)
    BY <1>5 DEF SeenFrom
  <2> QED BY <1>5, <2>1 DEF Sheds
<1> QED BY <1>1, <1>2, <1>3, <1>4, <1>5

\* What a tool sees and sheds a little more of, it sees the rest of.
LEMMA SeenMore ==
  ASSUME NEW W, NEW c \in Seq(W), NEW peeled, NEW i \in SeenFrom(peeled, c),
         NEW k \in 2..Len(From(c, i)), Sheds(peeled, From(c, i), 1, k)
  PROVE  \E j \in SeenFrom(peeled, c) : From(From(c, i), k) = From(c, j)
<1>1. PICK n \in Nat : n = Len(c) /\ DOMAIN c = 1..n
  BY LenProperties
<1>2. PICK steps \in SUBSET (1..i) : /\ {1, i} \subseteq steps
        /\ \A x \in steps \ {1} : \E y \in steps : y < x /\ Sheds(peeled, c, y, x)
  BY DEF SeenFrom
<1>3. i \in 1..n
  BY <1>1 DEF SeenFrom
<1>4. /\ Len(From(c, i)) = n - i + 1
      /\ \A x \in 1..(n - i + 1) : From(c, i)[x] = c[i + x - 1]
      /\ \A x \in 1..(n - i + 1) : From(From(c, i), x) = From(c, i + x - 1)
  BY <1>1, <1>3, EndFrom
<1> DEFINE j == i + k - 1
<1>5. k \in 1..(n - i + 1) /\ 1 \in 1..(n - i + 1) /\ i + 1 - 1 = i /\ k \in Nat
  BY <1>3, <1>4
<1>6. j \in 1..n /\ i < j /\ i \in Nat /\ (j = i + 1 <=> k = 2) /\ j \in Nat
  BY <1>3, <1>4
<1>7. From(c, i)[1] = c[i] /\ From(From(c, i), k) = From(c, j)
  BY <1>4, <1>5
<1> HIDE DEF j
<1>8. Sheds(peeled, c, i, j)
  <2>1. k = 1 + 1 <=> j = i + 1
    BY <1>5, <1>6
  <2> QED BY <1>7, <2>1 DEF Sheds
<1>9. j \in SeenFrom(peeled, c)
  <2> DEFINE more == steps \cup {j}
  <2>1. more \in SUBSET (1..j) /\ {1, j} \subseteq more
    BY <1>2, <1>3, <1>6
  <2>2. ASSUME NEW x \in more \ {1} PROVE \E y \in more : y < x /\ Sheds(peeled, c, y, x)
    <3>1. CASE x = j
      BY <1>2, <1>6, <1>8, <3>1
    <3>2. CASE x \in steps
      BY <1>2, <2>2, <3>2
    <3> QED BY <2>2, <3>1, <3>2
  <2> HIDE DEF more
  <2> QED BY <1>1, <1>6, <2>1, <2>2 DEF SeenFrom
<1> QED BY <1>7, <1>9

\* All words but the first.
LEMMA TailIsFrom ==
  ASSUME NEW D, Space \in D, NEW c \in Seq(Seq(D)), Len(c) > 1
  PROVE  Tail(c) = From(c, 2) /\ c # <<>> /\ Len(c) # 1 /\ From(c, 2) \in Seq(Seq(D))
<1>1. c # <<>> /\ Len(c) # 1
  <2>1. PICK n \in Nat : n = Len(c)
    BY LenProperties
  <2>2. n # 0 /\ n # 1
    <3>1. n > 1
      BY <2>1
    <3>2. \A x \in Nat : x > 1 => x # 0 /\ x # 1
      OBVIOUS
    <3> QED BY <3>1, <3>2
  <2> QED BY <2>1, <2>2, EmptySeq
<1>2. PICK f \in Seq(Seq(D)) : /\ f = From(c, 2) /\ Len(f) = Len(c) - 1
                               /\ \A i \in 1..(Len(c) - 1) : f[i] = c[1 + i]
  BY <1>1, JoinFirst
<1>3. PICK t \in Seq(Seq(D)) : /\ t = Tail(c) /\ Len(t) = Len(c) - 1
                               /\ \A i \in 1..(Len(c) - 1) : t[i] = c[i + 1]
  BY <1>1, TailIs
<1>4. \A i \in 1..(Len(c) - 1) : 1 + i = i + 1
  OBVIOUS
<1>5. \A i \in 1..Len(f) : f[i] = t[i]
  BY <1>2, <1>3, <1>4
<1>6. f = t
  BY <1>2, <1>3, <1>5, SeqEqual
<1> QED BY <1>1, <1>2, <1>3, <1>6

\* A command behind its first word is matched behind that word and a space.
LEMMA BehindOne ==
  ASSUME NEW D, Space \in D, NEW c \in Seq(Seq(D)), Len(c) > 1
  PROVE  \E t \in Seq(D) : /\ t = c[1] \o <<Space>> /\ Glob(c[1] \o <<Space>>, t)
                           /\ Join(c) = Cat(t, Join(From(c, 2)))
<1>1. c # <<>> /\ Len(c) # 1
  BY TailIsFrom
<1>2. PICK w \in Seq(D), j \in Seq(D) : w = c[1] /\ j = Join(From(c, 2)) /\ Join(c) = Between(w, j)
  BY <1>1, JoinFirst
<1>3. PICK b \in Seq(D) : b = Blank
  BY BetweenIs
<1>4. PICK t \in Seq(D) : t = Cat(w, b)
  BY Texts
<1>5. Cat(Cat(w, b), j) = Cat(w, Cat(b, j))
  BY Texts
<1>6. Join(c) = Cat(t, j)
  BY <1>2, <1>3, <1>4, <1>5 DEF Between
<1>7. t = c[1] \o <<Space>>
  BY <1>2, <1>3, <1>4 DEF Cat, Blank
<1>8. Glob(t, t)
  BY GlobItself
<1> QED BY <1>2, <1>6, <1>7, <1>8

\* A command further behind its first word is matched behind that word and a
\* hole.
LEMMA BehindMore ==
  ASSUME NEW D, Space \in D, Star \in D, NEW c \in Seq(Seq(D)), NEW i \in 1..Len(c), i > 2
  PROVE  c[1] \o <<Space, Star, Space>> \in Seq(D) /\ From(c, i) \in Seq(Seq(D))
         /\ \E t \in Seq(D) : /\ Glob(c[1] \o <<Space, Star, Space>>, t)
                              /\ Join(c) = Cat(t, Join(From(c, i)))
<1>1. PICK k \in 1..Len(c) : k + 1 = i /\ k < Len(c) /\ k > 1 /\ 1 \in 1..k
  <2>1. PICK n \in Nat : n = Len(c)
    BY LenProperties
  <2>2. i - 1 \in 1..n /\ (i - 1) + 1 = i /\ i - 1 < n /\ i - 1 > 1 /\ 1 \in 1..(i - 1)
    BY <2>1
  <2> QED BY <2>1, <2>2
<1>2. PICK u \in Seq(Seq(D)) : u = UpTo(c, k)
  BY JoinCut
<1>3. Len(u) = k
  <2>1. Len(UpTo(c, k)) = k
    BY JoinCut
  <2> QED BY <1>2, <2>1
<1>4. u[1] = c[1]
  <2>1. \A x \in 1..k : UpTo(c, k)[x] = c[x]
    BY JoinCut
  <2> QED BY <1>1, <1>2, <2>1
<1>5. PICK j \in Seq(D) : j = Join(From(c, i)) /\ Join(c) = Between(Join(u), j)
  <2>1. Join(From(c, k + 1)) \in Seq(D) /\ Join(c) = Between(Join(UpTo(c, k)), Join(From(c, k + 1)))
    BY <1>1, JoinCut
  <2> QED BY <1>1, <1>2, <2>1
<1>6. From(c, i) \in Seq(Seq(D))
  <2>1. From(c, k + 1) \in Seq(Seq(D))
    BY JoinCut
  <2> QED BY <1>1, <2>1
<1>7. u # <<>> /\ Len(u) # 1
  <2>1. Len(u) > 1
    BY <1>1, <1>3
  <2> QED BY <2>1, TailIsFrom
<1>8. PICK w \in Seq(D), y \in Seq(D) : w = c[1] /\ Join(u) = Between(w, y)
  BY <1>4, <1>7, JoinFirst
<1>9. PICK p \in Seq(D) : p = w \o <<Space, Star, Space>> /\ Glob(p, Between(Between(w, y), <<>>))
  <2>1. PICK e \in Seq(D) : e = <<>>
    <3>1. <<>> \in Seq(D)
      OBVIOUS
    <3> QED BY <3>1
  <2>2. Glob(w, w)
    BY GlobItself
  <2>3. w \o <<Space, Star, Space>> \o e \in Seq(D)
    BY <2>2, GapReaches
  <2>4. Glob(w \o <<Space, Star, Space>> \o e, Between(Between(w, y), e))
    BY <2>2, GapReaches
  <2>5. w \o <<Space, Star, Space>> \in Seq(D)
    OBVIOUS
  <2>6. Cat(w \o <<Space, Star, Space>>, e) = w \o <<Space, Star, Space>>
    BY <2>1, <2>5, Texts
  <2>7. w \o <<Space, Star, Space>> \o e = w \o <<Space, Star, Space>>
    BY <2>6 DEF Cat
  <2> QED BY <2>1, <2>4, <2>5, <2>7
<1>10. PICK b \in Seq(D), v \in Seq(D) : b = Blank /\ v = Between(w, y)
  BY BetweenIs
<1>11. PICK t \in Seq(D) : t = Cat(v, b)
  BY Texts
<1>12. Between(v, <<>>) = t
  <2>1. Cat(b, <<>>) = b
    BY Texts
  <2> QED BY <1>10, <1>11, <2>1 DEF Between
<1>13. Cat(Cat(v, b), j) = Cat(v, Cat(b, j))
  BY Texts
<1>14. Join(c) = Cat(t, j)
  BY <1>5, <1>8, <1>10, <1>11, <1>13 DEF Between
<1> QED BY <1>5, <1>6, <1>8, <1>9, <1>10, <1>12, <1>14

\* What a rule of the policy matches, one of the patterns for it suits, where
\* the tool peels perhaps only what it leaves of the command.
LEMMA EntryReaches ==
  ASSUME NEW D, Space \in D, Star \in D, NEW V, NEW e, RuleOver(D, V, e.rule), e.bucket \in Buckets,
         OptionsOf(e.rule) \in SUBSET Seq(D), AssignmentsOf(e.rule) \in SUBSET Seq(D),
         AssignmentsOf(e.rule) \subseteq UNION {Assignments[p] : p \in Programs},
         NEW tool, NEW whole \in Seq(Seq(D)), NEW at \in SeenAt(tool, e.bucket, whole),
         NEW c \in Seq(Seq(D)), c = From(whole, at),
         Matches(e, c, OptionsOf(e.rule), AssignmentsOf(e.rule), TRUE)
  PROVE  \E s \in Seen(tool, e.bucket, whole) : \E p \in PatternsOf(tool, e) : Suits(tool, p, s)
<1> DEFINE r == e.rule
           Met(s) == \E p \in PatternsOf(tool, e) : Suits(tool, p, s)
<1>1. ASSUME NEW prefix \in CopyPrefixes(tool, e), prefix \in Seq(D), NEW t \in Seq(D), Glob(prefix, t),
             NEW d \in Seq(Seq(D)), MatchesBare(r, d, OptionsOf(r), TRUE), NEW s, Join(s) = Cat(t, Join(d))
      PROVE  Met(s)
  <2>1. \E p \in GlobVariants(r, OptionsOf(r), prefix, tool.optionalTrailing) : Suits(tool, p, s)
    BY <1>1, BareReaches
  <2> QED BY <2>1 DEF PatternsOf
<1>2. <<>> \in CopyPrefixes(tool, e)
  BY DEF CopyPrefixes
<1>3. <<>> \in Seq(D) /\ Glob(<<>>, <<>>)
  <2>1. PICK z \in Seq(D) : z = <<>>
    <3>1. <<>> \in Seq(D)
      OBVIOUS
    <3> QED BY <3>1
  <2>2. Glob(z, z)
    BY GlobItself
  <2> QED BY <2>1, <2>2
<1>4. ASSUME NEW d \in Seq(Seq(D)), MatchesBare(r, d, OptionsOf(r), TRUE) PROVE Met(d)
  <2>1. CASE d = <<>>
    <3>1. DOMAIN d = {}
      BY <2>1
    <3> QED BY <1>4, <3>1 DEF MatchesBare
  <2>2. CASE d # <<>>
    <3>1. Join(d) \in Seq(D)
      BY <2>2, JoinFirst
    <3>2. Join(d) = Cat(<<>>, Join(d))
      BY <3>1, Texts
    <3> HIDE DEF Met, r
    <3> QED BY <1>1, <1>2, <1>3, <1>4, <3>2
  <2> QED BY <2>1, <2>2
<1>5. c \in Seen(tool, e.bucket, whole)
  BY DEF Seen
<1>9. ASSUME Peels(tool, e.bucket), NEW k \in 2..Len(c), Sheds(tool.peeled, c, 1, k)
      PROVE  From(c, k) \in Seen(tool, e.bucket, whole)
  <2>1. at \in SeenFrom(tool.peeled, whole)
    BY <1>9 DEF SeenAt
  <2>2. \E j \in SeenFrom(tool.peeled, whole) : From(c, k) = From(whole, j)
    BY <1>9, <2>1, SeenMore
  <2> QED BY <1>9, <2>2 DEF Seen, SeenAt
<1>6. CASE MatchesBare(r, c, OptionsOf(r), TRUE)
  BY <1>4, <1>5, <1>6
<1>7. CASE c[1] \in AssignmentsOf(r) /\ Len(c) > 1 /\ MatchesBare(r, Tail(c), OptionsOf(r), TRUE)
  <2>1. Tail(c) = From(c, 2) /\ From(c, 2) \in Seq(Seq(D))
    BY <1>7, TailIsFrom
  <2>2. CASE Peels(tool, e.bucket)
    <3>1. Sheds(tool.peeled, c, 1, 2)
      <4>1. c[1] \in UNION {Assignments[p] : p \in Programs} /\ tool.peeled # {}
        BY <1>7, <2>2 DEF Peels
      <4>2. 2 = 1 + 1
        OBVIOUS
      <4> QED BY <4>1, <4>2 DEF Sheds
    <3>2. Tail(c) \in Seen(tool, e.bucket, whole)
      <4>1. 2 \in 2..Len(c)
        BY <1>7, LenProperties
      <4> QED BY <1>9, <2>1, <2>2, <3>1, <4>1
    <3>3. Met(Tail(c))
      BY <1>4, <1>7, <2>1
    <3> QED BY <3>2, <3>3
  <2>3. CASE ~Peels(tool, e.bucket)
    <3>1. c[1] \o <<Space>> \in CopyPrefixes(tool, e)
      BY <1>7, <2>3 DEF CopyPrefixes
    <3>2. PICK t \in Seq(D) : /\ t = c[1] \o <<Space>> /\ Glob(c[1] \o <<Space>>, t)
                              /\ Join(c) = Cat(t, Join(From(c, 2)))
      BY <1>7, BehindOne
    <3>3. t \in CopyPrefixes(tool, e) /\ Glob(t, t) /\ Join(c) = Cat(t, Join(From(c, 2)))
      BY <3>1, <3>2
    <3>4. MatchesBare(r, From(c, 2), OptionsOf(r), TRUE)
      BY <1>7, <2>1
    <3> HIDE DEF Met, r
    <3>5. Met(c)
      BY <1>1, <2>1, <3>3, <3>4
    <3> QED BY <1>5, <3>5 DEF Met
  <2> QED BY <2>2, <2>3
<1>8. CASE e.bucket # "allow" /\ c[1] \in Wrappers /\ \E i \in 2..Len(c) : MatchesBare(r, From(c, i), OptionsOf(r), TRUE)
  <2>1. PICK i \in 2..Len(c) : MatchesBare(r, From(c, i), OptionsOf(r), TRUE)
    BY <1>8
  <2> DEFINE pair == <<c[1], IF i = 2 THEN "direct" ELSE "arguments">>
  <2>2. pair \in WrapperPrefixes
    BY <1>8 DEF WrapperPrefixes
  <2>3. /\ i = 2 => Len(c) > 1 /\ PrefixText(pair) = c[1] \o <<Space>>
        /\ i # 2 => i \in 1..Len(c) /\ i > 2 /\ PrefixText(pair) = c[1] \o <<Space, Star, Space>>
    <3>1. PICK n \in Nat : n = Len(c)
      BY LenProperties
    <3>2. i \in 2..n
      BY <3>1
    <3>3. (i = 2 => n > 1) /\ (i # 2 => i \in 1..n /\ i > 2)
      BY <3>2
    <3>4. i = 2 => pair[2] = "direct" /\ pair[1] = c[1]
      OBVIOUS
    <3>5. i # 2 => pair[2] = "arguments" /\ pair[1] = c[1]
      OBVIOUS
    <3> HIDE DEF pair
    <3> QED BY <3>1, <3>3, <3>4, <3>5 DEF PrefixText
  <2>4. PICK d \in Seq(Seq(D)) : d = From(c, i)
    BY <2>3, TailIsFrom, BehindMore
  <2>5. CASE Peels(tool, e.bucket) /\ pair \in tool.peeled
    <3>1. Sheds(tool.peeled, c, 1, i)
      <4>1. i = 1 + 1 <=> i = 2
        OBVIOUS
      <4> QED BY <2>5, <4>1 DEF Sheds
    <3>2. d \in Seen(tool, e.bucket, whole)
      BY <1>9, <2>4, <2>5, <3>1
    <3>3. Met(d)
      BY <1>4, <2>1, <2>4
    <3> QED BY <3>2, <3>3
  <2>6. CASE ~(Peels(tool, e.bucket) /\ pair \in tool.peeled)
    <3> HIDE DEF pair
    <3>1. PrefixText(pair) \in CopyPrefixes(tool, e)
      <4>1. pair \in IF Peels(tool, e.bucket) THEN WrapperPrefixes \ tool.peeled ELSE WrapperPrefixes
        BY <2>2, <2>6
      <4> QED BY <1>8, <4>1 DEF CopyPrefixes
    <3>2. PICK q \in Seq(D), t \in Seq(D) : q = PrefixText(pair) /\ Glob(q, t) /\ Join(c) = Cat(t, Join(d))
      <4>1. CASE i = 2
        <5>1. PICK t \in Seq(D) : /\ t = c[1] \o <<Space>> /\ Glob(c[1] \o <<Space>>, t)
                                  /\ Join(c) = Cat(t, Join(From(c, 2)))
          BY <2>3, <4>1, BehindOne
        <5> QED BY <2>3, <2>4, <4>1, <5>1
      <4>2. CASE i # 2
        <5>1. c[1] \o <<Space, Star, Space>> \in Seq(D)
          BY <2>3, <4>2, BehindMore
        <5>2. PICK t \in Seq(D) : /\ Glob(c[1] \o <<Space, Star, Space>>, t)
                                  /\ Join(c) = Cat(t, Join(From(c, i)))
          BY <2>3, <4>2, BehindMore
        <5> QED BY <2>3, <2>4, <4>2, <5>1, <5>2
      <4> QED BY <4>1, <4>2
    <3>3. q \in CopyPrefixes(tool, e) /\ MatchesBare(r, d, OptionsOf(r), TRUE)
      BY <2>1, <2>4, <3>1, <3>2
    <3> HIDE DEF Met, r
    <3>4. Met(c)
      BY <1>1, <3>2, <3>3
    <3> QED BY <1>5, <3>4 DEF Met
  <2> QED BY <2>5, <2>6
<1> QED BY <1>6, <1>7, <1>8 DEF Matches

\* A variant of a rule's globs for fewer options is one for more.
LEMMA VariantsGrow ==
  ASSUME NEW r, NEW some, NEW all, some \subseteq all, NEW prefix, NEW optional, NEW p \in GlobVariants(r, some, prefix, optional)
  PROVE  p \in GlobVariants(r, all, prefix, FALSE)
<1> DEFINE hs == GlobHeads(r, some, prefix)
           ha == GlobHeads(r, all, prefix)
           ss == StemsOf(r, some, prefix)
           sa == StemsOf(r, all, prefix)
           spaced == {x \in r.text : Last(x) = Space}
           Ts(S) == {Texted(s, x) : s \in S, x \in r.text}
           Es(S) == {TextEnds(s, x) : s \in S, x \in spaced}
           Ws(S) == {s \o <<Space, Star>> : s \in S}
           Bs(S) == {s \in S : HasStar(s)}
           Ls(S) == {Tailed(h, s, gap) : h \in S, s \in r.tail, gap \in Gaps}
<1>1. hs \subseteq ha
  BY DEF GlobHeads
<1>2. GlobVariants(r, some, prefix, optional) =
            IF r.exact THEN hs
            ELSE IF r.text # {} THEN Ts(ss) \cup Es(ss)
            ELSE Ws(ss) \cup (IF optional THEN {} ELSE Bs(ss))
  BY DEF GlobVariants, StemsOf, Gaps, Tailed, Texted, TextEnds
<1>3. GlobVariants(r, all, prefix, FALSE) =
            IF r.exact THEN ha
            ELSE IF r.text # {} THEN Ts(sa) \cup Es(sa)
            ELSE Ws(sa) \cup Bs(sa)
  BY DEF GlobVariants, StemsOf, Gaps, Tailed, Texted, TextEnds
<1>4. ss = (IF r.tail = {} THEN hs ELSE Ls(hs)) /\ sa = (IF r.tail = {} THEN ha ELSE Ls(ha))
  BY DEF StemsOf
<1> HIDE DEF hs, ha, ss, sa, spaced
<1>5. Ls(hs) \subseteq Ls(ha)
  BY <1>1
<1>6. ss \subseteq sa
  <2> HIDE DEF Ls
  <2> QED BY <1>1, <1>4, <1>5
<1>7. Ts(ss) \subseteq Ts(sa)
  BY <1>6
<1>8. Es(ss) \subseteq Es(sa)
  BY <1>6
<1>9. Ws(ss) \subseteq Ws(sa)
  BY <1>6
<1>10. Bs(ss) \subseteq Bs(sa)
  BY <1>6
<1> HIDE DEF Ts, Es, Ws, Bs
<1> QED BY <1>1, <1>2, <1>3, <1>7, <1>8, <1>9, <1>10

\* What can stand before the pattern of any rule.
AllPrefixes == {<<>>} \cup {PrefixText(p) : p \in WrapperPrefixes}
                      \cup {a \o <<Space>> : a \in UNION {Assignments[p] : p \in Programs}}

\* Whatever a tool is given is one of the patterns any policy can emit.
LEMMA PatternsAreOfAll ==
  ASSUME TypesOK, NEW tool, NEW bucket \in Buckets, NEW p \in BucketPatterns(tool, bucket)
  PROVE  p \in AllPatterns
<1>1. PICK e \in entries : p \in PatternsOf(tool, e)
  <2>1. p \in Uncovered(UNION {PatternsOf(tool, e) : e \in {f \in entries : f.bucket = bucket}})
    BY DEF BucketPatterns
  <2>2. p \in UNION {PatternsOf(tool, e) : e \in {f \in entries : f.bucket = bucket}}
    BY <2>1 DEF Uncovered
  <2> QED BY <2>2
<1>2. PICK prefix \in CopyPrefixes(tool, e) : p \in GlobVariants(e.rule, OptionsOf(e.rule), prefix, tool.optionalTrailing)
  BY <1>1 DEF PatternsOf
<1>3. e.rule \in Rules
  BY DEF TypesOK, TypeOK, Entries
<1>4. OptionsOf(e.rule) \subseteq Options[e.rule.command]
  BY DEF OptionsOf, VocabularyOf
<1>5. p \in GlobVariants(e.rule, Options[e.rule.command], prefix, FALSE)
  BY <1>2, <1>4, VariantsGrow
<1>6. prefix \in AllPrefixes
  <2>1. AssignmentsOf(e.rule) \subseteq UNION {Assignments[q] : q \in Programs}
    <3>1. declared \subseteq Fragments \X Programs
      BY DEF TypesOK, TypeOK, Vocabularies
    <3>2. e.rule.command \in {d[2] : d \in declared} => e.rule.command \in Programs
      BY <3>1
    <3> QED BY <3>2 DEF AssignmentsOf, VocabularyOf
  <2>2. {a \o <<Space>> : a \in AssignmentsOf(e.rule)} \subseteq {a \o <<Space>> : a \in UNION {Assignments[q] : q \in Programs}}
    BY <2>1
  <2>3. prefix \in {<<>>} \cup {PrefixText(q) : q \in WrapperPrefixes} \cup {a \o <<Space>> : a \in AssignmentsOf(e.rule)}
    BY DEF CopyPrefixes
  <2> QED BY <2>2, <2>3 DEF AllPrefixes
<1> DEFINE any(r, q) == GlobVariants(r, Options[r.command], q, FALSE)
           F == {any(r, q) : r \in Rules, q \in AllPrefixes}
<1>7. AllPatterns = UNION F
  BY DEF AllPatterns, AllPrefixes
<1>8. p \in any(e.rule, prefix)
  BY <1>5
<1> HIDE DEF any
<1>9. any(e.rule, prefix) \in F
  BY <1>3, <1>6
<1> HIDE DEF F
<1> QED BY <1>7, <1>8, <1>9

\* A rule of a loaded policy.
LEMMA LoadedRuleIs ==
  ASSUME NEW D, NEW V, Admitted(D, V), TypesOK, Loaded, NEW e \in entries
  PROVE  RuleOver(D, V, e.rule)
<1>1. Written(D, V, e.rule)
  BY DEF Admitted, TypesOK, TypeOK, Entries
<1>2. ~IllFormed(e)
  BY DEF TypesOK, TypeOK, Loaded, Valid
<1>3. V \subseteq Seq(D)
  <2>1. V \subseteq Seq(D \ {Star})
    BY DEF Admitted, Lettered
  <2> QED BY <2>1, SeqMonotonic
<1>4. ASSUME NEW x \in e.rule.text PROVE x \in Seq(D) /\ x # <<>>
  <2>1. x \in Seq(D \ {Star}) /\ x # <<>>
    BY <1>1 DEF Written, Plain
  <2> QED BY <2>1, SeqMonotonic
<1>5. IsRule(e.rule, V) /\ <<>> \notin e.rule.tail
  BY <1>1 DEF Written
<1>6. e.rule.exact => e.rule.tail = {} /\ e.rule.text = {}
  BY <1>2 DEF IllFormed
<1>7. e.rule.tail = {} \/ e.rule.text = {}
  BY <1>2 DEF IllFormed
<1> QED BY <1>3, <1>4, <1>5, <1>6, <1>7 DEF RuleOver

\* What a tool sees of a command is text, and one of the texts looked up; it is
\* all of the command unless the tool peels.
LEMMA SeenIs ==
  ASSUME NEW D, Space \in D, NEW tool, NEW bucket, NEW c \in Seq(Seq(D)), c # <<>>, c \in Commands, NEW s \in Seen(tool, bucket, c)
  PROVE  s \in Spelled /\ Len(Join(s)) \in Nat /\ (s = c \/ (Peels(tool, bucket) /\ s \in Strip(tool.peeled, c)))
<1>1. /\ 1 \in 1..Len(c) /\ From(c, 1) = c /\ Len(c) \in Nat
      /\ SeenFrom(tool.peeled, c) \subseteq 1..Len(c)
  BY SeenWhole
<1>2. PICK j \in SeenAt(tool, bucket, c) : s = From(c, j)
  BY DEF Seen
<1>3. s = c \/ (Peels(tool, bucket) /\ s \in Strip(tool.peeled, c))
  BY <1>1, <1>2 DEF SeenAt, Strip
<1>4. j \in 1..Len(c)
  BY <1>1, <1>2 DEF SeenAt
<1>5. s \in Spelled
  <2> DEFINE F(d) == {From(d, i) : i \in DOMAIN d}
  <2>1. s \in F(c)
    <3>1. DOMAIN c = 1..Len(c)
      BY LenProperties
    <3> QED BY <1>2, <1>4, <3>1
  <2>2. Spelled = UNION {F(d) : d \in Commands}
    BY DEF Spelled
  <2> HIDE DEF F
  <2> QED BY <2>1, <2>2
<1>6. s \in Seq(Seq(D))
  BY <1>2, <1>4, EndFrom
<1> QED BY <1>3, <1>5, <1>6, JoinText

\* The texts a tool sees, one of which a pattern of the bucket hits.
HitSeen(tool, bucket, c) == \E s \in Seen(tool, bucket, c) : Hit(tool, BucketPatterns(tool, bucket), s)

\* A pattern of a bucket hits what the pattern of one of its entries suits.
LEMMA HitIs ==
  ASSUME NEW D, NEW V, Admitted(D, V), TypesOK, NEW tool \in {Claude, OpenCode}, NEW bucket \in Buckets,
         ~(bucket = "allow" /\ unmatched = "allow"), NEW s \in Spelled, Len(Join(s)) \in Nat
  PROVE  Hit(tool, BucketPatterns(tool, bucket), s)
           <=> \E e \in entries : e.bucket = bucket /\ \E p \in PatternsOf(tool, e) : Suits(tool, p, s)
<1> DEFINE o == tool.optionalTrailing
<1>1. o \in BOOLEAN
  <2>1. Claude.optionalTrailing = FALSE /\ OpenCode.optionalTrailing = TRUE
    BY DEF Claude, OpenCode
  <2> QED BY <2>1
<1>2. \A p : Suits([optionalTrailing |-> o], p, s) <=> Suits(tool, p, s)
  BY DEF Suits
<1>3. Hit(tool, BucketPatterns(tool, bucket), s) <=> \E p \in BucketPatterns(tool, bucket) : s \in Suited[o][p]
  BY DEF Hit
<1> HIDE DEF o
<1>4. \A p \in AllPatterns : s \in Suited[o][p] <=> Suits([optionalTrailing |-> o], p, s)
  BY <1>1 DEF Suited
<1>5. Hit(tool, BucketPatterns(tool, bucket), s) <=> \E p \in BucketPatterns(tool, bucket) : Suits(tool, p, s)
  BY <1>2, <1>3, <1>4, PatternsAreOfAll
<1> QED BY <1>5, BucketKeeps

\* The vocabulary that is known of a program.
LEMMA KnownIs ==
  ASSUME TypesOK, NEW e \in entries, NEW tool \in {Claude, OpenCode}, NEW c \in Commands, NEW pinned \in BOOLEAN
  PROVE  InForce(tool, e, c, pinned) <=>
           \/ Matches(e, c, OptionsOf(e.rule), AssignmentsOf(e.rule), pinned)
           \/ /\ Peels(tool, e.bucket)
              /\ \E s \in Strip(tool.peeled, c) : Matches(e, s, OptionsOf(e.rule), {}, pinned)
<1> DEFINE known == Known(e.rule.command)
           asked == [bucket |-> e.bucket, rule |-> e.rule]
           denied == [bucket |-> "deny", rule |-> e.rule]
           options == IF known THEN Options[e.rule.command] ELSE {}
           assignments == IF known THEN Assignments[e.rule.command] ELSE {}
<1>1. known \in BOOLEAN /\ e.rule \in Rules /\ e.bucket \in Buckets
  BY DEF TypesOK, TypeOK, Entries, Known
<1>2. options = OptionsOf(e.rule) /\ assignments = AssignmentsOf(e.rule)
  BY DEF OptionsOf, AssignmentsOf, VocabularyOf, Known
<1>3. /\ asked.rule = e.rule /\ asked.bucket = e.bucket
      /\ denied.rule = e.rule /\ denied.bucket = "deny"
  OBVIOUS
<1>4. tool.peeled \in {ClaudePeeled, UnwrapPeeled}
  BY DEF Claude, OpenCode
<1>5. StripTable[tool.peeled][c] = Strip(tool.peeled, c)
  BY <1>4 DEF StripTable
<1>6. c \in Reached[e.rule][e.bucket][known][pinned] <=> Matches(asked, c, options, assignments, pinned)
  <2> HIDE DEF known
  <2> QED BY <1>1 DEF Reached
<1>7. c \in ReachedBehind[tool.peeled][e.rule][known][pinned] <=>
        \E s \in StripTable[tool.peeled][c] : Matches(denied, s, options, {}, pinned)
  <2> HIDE DEF known
  <2> QED BY <1>1, <1>4 DEF ReachedBehind
<1> HIDE DEF asked, denied, options, assignments
<1>8. Matches(asked, c, options, assignments, pinned) <=> Matches(e, c, options, assignments, pinned)
  BY <1>3 DEF Matches
<1>9. Peels(tool, e.bucket) => \A s : Matches(denied, s, options, {}, pinned) <=> Matches(e, s, options, {}, pinned)
  BY <1>3 DEF Matches, Peels
<1> QED BY <1>2, <1>5, <1>6, <1>7, <1>8, <1>9 DEF InForce

\* What an entry of a loaded policy is in force for, a pattern of its bucket
\* hits.
LEMMA ForceIsHit ==
  ASSUME NEW D, NEW V, Admitted(D, V), TypesOK, Loaded, NEW tool \in {Claude, OpenCode}, NEW e \in entries,
         ~(e.bucket = "allow" /\ unmatched = "allow"), NEW c \in Commands, c \in Seq(Seq(D)), c # <<>>,
         InForce(tool, e, c, TRUE)
  PROVE  HitSeen(tool, e.bucket, c)
<1> DEFINE options == OptionsOf(e.rule)
           assignments == AssignmentsOf(e.rule)
<1>1. Space \in D /\ Star \in D /\ V \subseteq Seq(D)
  <2>1. Space \in D /\ Star \in D /\ V \subseteq Seq(D \ {Star})
    BY DEF Admitted, Lettered
  <2> QED BY <2>1, SeqMonotonic
<1>2. RuleOver(D, V, e.rule)
  BY LoadedRuleIs
<1>3. e.bucket \in Buckets
  BY DEF TypesOK, TypeOK, Entries
<1>4. LeadsOver(V, e.rule) /\ assignments \subseteq UNION {Assignments[p] : p \in Programs}
  BY LeadsAre
<1>5. options \in SUBSET Seq(D) /\ assignments \in SUBSET Seq(D)
  BY <1>1, <1>4 DEF LeadsOver
<1>6. /\ 1 \in SeenFrom(tool.peeled, c) /\ From(c, 1) = c
      /\ SeenFrom(tool.peeled, c) \subseteq 1..Len(c)
  BY SeenWhole
<1>7. PICK at \in SeenAt(tool, e.bucket, c) : From(c, at) \in Seq(Seq(D)) /\ Matches(e, From(c, at), options, assignments, TRUE)
  <2>1. CASE Matches(e, c, options, assignments, TRUE)
    BY <1>6, <2>1 DEF SeenAt
  <2>2. CASE Peels(tool, e.bucket) /\ \E s \in Strip(tool.peeled, c) : Matches(e, s, options, {}, TRUE)
    <3>1. PICK j \in SeenFrom(tool.peeled, c) : Matches(e, From(c, j), options, {}, TRUE)
      BY <2>2 DEF Strip
    <3>2. Matches(e, From(c, j), options, assignments, TRUE)
      BY <3>1 DEF Matches
    <3>3. From(c, j) \in Seq(Seq(D))
      BY <1>6, EndFrom
    <3> QED BY <2>2, <3>2, <3>3 DEF SeenAt
  <2>3. Matches(e, c, options, assignments, TRUE)
          \/ (Peels(tool, e.bucket) /\ \E s \in Strip(tool.peeled, c) : Matches(e, s, options, {}, TRUE))
    <3>1. TRUE \in BOOLEAN
      OBVIOUS
    <3> QED BY <3>1, KnownIs
  <2> QED BY <2>1, <2>2, <2>3
<1>8. PICK s \in Seen(tool, e.bucket, c) : \E p \in PatternsOf(tool, e) : Suits(tool, p, s)
  <2>1. PICK d \in Seq(Seq(D)) : d = From(c, at)
    BY <1>7
  <2>2. Matches(e, d, OptionsOf(e.rule), AssignmentsOf(e.rule), TRUE)
    BY <1>7, <2>1
  <2> QED BY <1>1, <1>2, <1>3, <1>4, <1>5, <2>1, <2>2, EntryReaches
<1>9. s \in Spelled /\ Len(Join(s)) \in Nat
  BY <1>1, SeenIs
<1>10. Hit(tool, BucketPatterns(tool, e.bucket), s)
  <2>1. \E f \in entries : f.bucket = e.bucket /\ \E p \in PatternsOf(tool, f) : Suits(tool, p, s)
    BY <1>8
  <2> QED BY <1>3, <1>9, <2>1, HitIs
<1> QED BY <1>10 DEF HitSeen

\* Every ask or deny that matches a command is obeyed, however Claude and
\* OpenCode read their rules.
GuardsDecide ==
  Loaded => \A c \in Commands : \A e \in Matching(c) :
    /\ Strictness[ClaudeDecision(c, Emitted(Claude))] >= Strictness[e.bucket]
    /\ Strictness[OpenCodeDecision(c, ShellRules(Emitted(OpenCode)))] >= Strictness[e.bucket]

\* The decisions in the order of their strictness.
LEMMA Stricter ==
  Strictness["allow"] = 0 /\ Strictness["ask"] = 1 /\ Strictness["deny"] = 2
BY DEF Strictness

\* What the hits of a tool's patterns make it decide.
Ruled(tool, c) ==
  IF HitSeen(tool, "deny", c) THEN "deny"
  ELSE IF HitSeen(tool, "ask", c) THEN "ask"
  ELSE IF unmatched = "allow" \/ HitSeen(tool, "allow", c) THEN "allow"
  ELSE "ask"

\* What a tool sees of a command for each of its buckets.
LEMMA SeenFor ==
  ASSUME NEW W, NEW c \in Seq(W), c # <<>>, c \in Commands
  PROVE  /\ \A tool \in {Claude, OpenCode} :
              /\ Seen(tool, "deny", c) = Peelings(tool, c) /\ c \in Seen(tool, "deny", c)
              /\ Seen(tool, "allow", c) = {c}
         /\ Seen(Claude, "ask", c) = Peelings(Claude, c) /\ Seen(OpenCode, "ask", c) = {c}
<1>1. From(c, 1) = c /\ \A peeled : 1 \in SeenFrom(peeled, c) /\ (peeled = {} => SeenFrom(peeled, c) = {1})
  BY SeenWhole
<1>2. ASSUME NEW tool \in {Claude, OpenCode} PROVE Peelings(tool, c) = Strip(tool.peeled, c)
  <2>1. tool.peeled \in {ClaudePeeled, UnwrapPeeled}
    BY DEF Claude, OpenCode
  <2> QED BY <2>1 DEF Peelings, StripTable
<1>3. ASSUME NEW tool, NEW bucket, Peels(tool, bucket) <=> tool.peeled # {}
      PROVE  Seen(tool, bucket, c) = Strip(tool.peeled, c) /\ c \in Seen(tool, bucket, c)
  BY <1>1, <1>3 DEF Seen, SeenAt, Strip
<1>4. ASSUME NEW tool, NEW bucket, ~Peels(tool, bucket) PROVE Seen(tool, bucket, c) = {c}
  BY <1>1, <1>4 DEF Seen, SeenAt
<1>5. \A tool : (Peels(tool, "deny") <=> tool.peeled # {}) /\ ~Peels(tool, "allow")
  BY DEF Peels
<1>6. (Peels(Claude, "ask") <=> Claude.peeled # {}) /\ ~Peels(OpenCode, "ask")
  BY DEF Peels, Claude, OpenCode
<1> QED BY <1>2, <1>3, <1>4, <1>5, <1>6

\* Claude's guards come before its allows.
LEMMA ClaudeRules ==
  ASSUME NEW W, NEW c \in Seq(W), c # <<>>, c \in Commands
  PROVE  ClaudeDecision(c, Emitted(Claude)) = Ruled(Claude, c)
<1> DEFINE patterns == Emitted(Claude)
<1>1. \A b \in {"deny", "ask", "allow"} : patterns[b] = BucketPatterns(Claude, b)
  BY DEF Emitted
<1>2. \A b \in {"deny", "ask"} : (\E s \in Peelings(Claude, c) : Hit(Claude, patterns[b], s)) <=> HitSeen(Claude, b, c)
  <2>1. Seen(Claude, "deny", c) = Peelings(Claude, c) /\ Seen(Claude, "ask", c) = Peelings(Claude, c)
    BY SeenFor
  <2> HIDE DEF patterns
  <2> QED BY <1>1, <2>1 DEF HitSeen
<1>3. Hit(Claude, patterns["allow"], c) <=> HitSeen(Claude, "allow", c)
  <2>1. Seen(Claude, "allow", c) = {c}
    BY SeenFor
  <2> HIDE DEF patterns
  <2> QED BY <1>1, <2>1 DEF HitSeen
<1> HIDE DEF patterns
<1>4. ClaudeDecision(c, patterns) = Ruled(Claude, c)
  BY <1>2, <1>3 DEF ClaudeDecision, Ruled
<1> QED BY <1>4 DEF patterns

\* The last match of OpenCode's list is the strictest one.
LEMMA LastMatchIs ==
  ASSUME NEW s, NEW list, list = ShellRules(Emitted(OpenCode))
  PROVE  LastMatch(list, s) = IF Hit(OpenCode, BucketPatterns(OpenCode, "deny"), s) THEN "deny"
                              ELSE IF Hit(OpenCode, BucketPatterns(OpenCode, "ask"), s) THEN "ask"
                              ELSE IF Hit(OpenCode, BucketPatterns(OpenCode, "allow"), s) THEN "allow"
                              ELSE unmatched
<1> DEFINE Hits(i) == list[i].catchAll \/ Hit(OpenCode, list[i].patterns, s)
           IsLast(i) == Hits(i) /\ \A j \in (i + 1)..Len(list) : ~Hits(j)
           n == CHOOSE i \in DOMAIN list : IsLast(i)
<1>1. /\ Len(list) = 4 /\ DOMAIN list = 1..4 /\ list[1].catchAll /\ list[1].effect = unmatched
      /\ ~list[2].catchAll /\ list[2].effect = "allow" /\ list[2].patterns = BucketPatterns(OpenCode, "allow")
      /\ ~list[3].catchAll /\ list[3].effect = "ask" /\ list[3].patterns = BucketPatterns(OpenCode, "ask")
      /\ ~list[4].catchAll /\ list[4].effect = "deny" /\ list[4].patterns = BucketPatterns(OpenCode, "deny")
  BY DEF ShellRules, Emitted
<1>2. LastMatch(list, s) = list[n].effect
  BY DEF LastMatch
<1>3. /\ Hits(4) <=> Hit(OpenCode, BucketPatterns(OpenCode, "deny"), s)
      /\ Hits(3) <=> Hit(OpenCode, BucketPatterns(OpenCode, "ask"), s)
      /\ Hits(2) <=> Hit(OpenCode, BucketPatterns(OpenCode, "allow"), s)
      /\ Hits(1)
  BY <1>1
<1> HIDE DEF Hits
<1>4. ASSUME NEW m \in 1..4, Hits(m), \A j \in 1..4 : j > m => ~Hits(j) PROVE n = m
  <2>1. IsLast(m)
    <3>1. (m + 1)..4 \subseteq 1..4 /\ \A j \in (m + 1)..4 : j > m
      OBVIOUS
    <3> QED BY <1>1, <1>4, <3>1
  <2>2. ASSUME NEW i \in 1..4, IsLast(i) PROVE i = m
    <3>1. ~(i > m)
      BY <1>4, <2>2
    <3>2. ~(m > i)
      <4>1. m > i => m \in (i + 1)..4
        OBVIOUS
      <4> QED BY <1>1, <1>4, <2>2, <4>1
    <3> QED BY <3>1, <3>2
  <2> HIDE DEF IsLast
  <2> QED BY <1>1, <2>1, <2>2
<1> HIDE DEF n
<1>5. \A j \in 1..4 : j > 4 => ~Hits(j)
  OBVIOUS
<1>6. ~Hits(4) => \A j \in 1..4 : j > 3 => ~Hits(j)
  <2>1. \A j \in 1..4 : j > 3 => j = 4
    OBVIOUS
  <2> QED BY <2>1
<1>7. ~Hits(4) /\ ~Hits(3) => \A j \in 1..4 : j > 2 => ~Hits(j)
  <2>1. \A j \in 1..4 : j > 2 => j = 4 \/ j = 3
    OBVIOUS
  <2> QED BY <2>1
<1>8. ~Hits(4) /\ ~Hits(3) /\ ~Hits(2) => \A j \in 1..4 : j > 1 => ~Hits(j)
  <2>1. \A j \in 1..4 : j > 1 => j = 4 \/ j = 3 \/ j = 2
    OBVIOUS
  <2> QED BY <2>1
<1>9. /\ Hits(4) => n = 4
      /\ Hits(3) /\ ~Hits(4) => n = 3
      /\ Hits(2) /\ ~Hits(4) /\ ~Hits(3) => n = 2
      /\ ~Hits(4) /\ ~Hits(3) /\ ~Hits(2) => n = 1
  BY <1>3, <1>4, <1>5, <1>6, <1>7, <1>8
<1> QED BY <1>1, <1>2, <1>3, <1>9

\* OpenCode's denies come last, and the plugin looks only for them.
LEMMA OpenCodeRules ==
  ASSUME NEW W, NEW c \in Seq(W), c # <<>>, c \in Commands, unmatched \in {"ask", "allow"}
  PROVE  OpenCodeDecision(c, ShellRules(Emitted(OpenCode))) = Ruled(OpenCode, c)
<1> DEFINE list == ShellRules(Emitted(OpenCode))
           Hits(b, s) == Hit(OpenCode, BucketPatterns(OpenCode, b), s)
<1>1. \A s : LastMatch(list, s) = IF Hits("deny", s) THEN "deny" ELSE IF Hits("ask", s) THEN "ask"
                                  ELSE IF Hits("allow", s) THEN "allow" ELSE unmatched
  BY LastMatchIs
<1>2. \A b, s : Hits(b, s) \in BOOLEAN
  BY DEF Hit
<1>3. /\ Seen(OpenCode, "deny", c) = Peelings(OpenCode, c) /\ c \in Peelings(OpenCode, c)
      /\ Seen(OpenCode, "ask", c) = {c} /\ Seen(OpenCode, "allow", c) = {c}
  BY SeenFor
<1>4. /\ HitSeen(OpenCode, "deny", c) <=> \E s \in Peelings(OpenCode, c) : Hits("deny", s)
      /\ HitSeen(OpenCode, "ask", c) <=> Hits("ask", c)
      /\ HitSeen(OpenCode, "allow", c) <=> Hits("allow", c)
  BY <1>3 DEF HitSeen
<1>5. unmatched = "allow" => ~Hits("allow", c)
  BY DEF Hit, BucketPatterns
<1> HIDE DEF list, Hits
<1>6. \A s : LastMatch(list, s) = "deny" <=> Hits("deny", s)
  BY <1>1, <1>2
<1>7. OpenCodeDecision(c, list) = Ruled(OpenCode, c)
  <2>1. OpenCodeDecision(c, list) = IF HitSeen(OpenCode, "deny", c) THEN "deny" ELSE LastMatch(list, c)
    BY <1>4, <1>6 DEF OpenCodeDecision
  <2>2. ~HitSeen(OpenCode, "deny", c) => ~Hits("deny", c)
    BY <1>3, <1>4
  <2> QED BY <1>1, <1>2, <1>4, <1>5, <2>1, <2>2 DEF Ruled
<1> QED BY <1>7 DEF list

\* No tool decides less strictly than a guard that matches (targets/claude.py,
\* _permission_values; targets/opencode.py, _permissions): whatever rules, vocabularies,
\* wrappers and commands there are, an ask or deny the policy has for a command,
\* behind options, assignments and wrappers too, is in force on Claude and on
\* OpenCode. The rules and words are those the schema admits.
THEOREM GuardsAreNeverLoosened ==
  ASSUME NEW C, SchemaAdmits(C), Commands \subseteq Seq(Seq(C)), <<>> \notin Commands
  PROVE  Spec => []GuardsDecide
<1> DEFINE D == C \cup {Space, Star}
           V == WordsOver(C \ {Star})
<1>1. Admitted(D, V)
  BY AdmittedIs
<1>2. \A c \in Commands : c \in Seq(Seq(D)) /\ c # <<>>
  <2>1. C \subseteq D
    OBVIOUS
  <2> HIDE DEF D
  <2> QED BY <2>1, CommandsAre
<1> HIDE DEF D, V
<1>3. TypesOK => GuardsDecide
  <2> SUFFICES ASSUME TypesOK, Loaded, NEW c \in Commands, NEW e \in entries, EntryMatches(e, c)
               PROVE  /\ Strictness[ClaudeDecision(c, Emitted(Claude))] >= Strictness[e.bucket]
                      /\ Strictness[OpenCodeDecision(c, ShellRules(Emitted(OpenCode)))] >= Strictness[e.bucket]
    BY DEF GuardsDecide, Matching
  <2>1. e.bucket \in Buckets /\ unmatched \in {"ask", "allow"} /\ c \in Seq(Seq(D)) /\ c # <<>>
    BY <1>2 DEF TypesOK, TypeOK, Entries
  <2>2. ASSUME NEW tool \in {Claude, OpenCode} PROVE Strictness[Ruled(tool, c)] >= Strictness[e.bucket]
    <3>1. e.bucket # "allow" => HitSeen(tool, e.bucket, c)
      <4>1. InForce(tool, e, c, TRUE)
        BY DEF InForce, EntryMatches
      <4> QED BY <1>1, <2>1, <4>1, ForceIsHit
    <3>2. Ruled(tool, c) \in {"allow", "ask", "deny"}
      BY DEF Ruled
    <3>3. e.bucket = "deny" => Ruled(tool, c) = "deny"
      BY <3>1 DEF Ruled
    <3>4. e.bucket = "ask" => Ruled(tool, c) \in {"ask", "deny"}
      BY <3>1 DEF Ruled
    <3> QED BY <2>1, <3>2, <3>3, <3>4, Stricter DEF Buckets
  <2>3. ClaudeDecision(c, Emitted(Claude)) = Ruled(Claude, c)
    BY <2>1, ClaudeRules
  <2>4. OpenCodeDecision(c, ShellRules(Emitted(OpenCode))) = Ruled(OpenCode, c)
    BY <2>1, OpenCodeRules
  <2> QED BY <2>2, <2>3, <2>4
<1> QED BY <1>3, TypesCorrect, PTL

-----------------------------------------------------------------------------
(* What the globs of a rule reach, told in words.                          *)

\* What stands behind a word: a space and the words after it, if there are any.
After(v) == IF v = <<>> THEN <<>> ELSE Cat(Blank, Join(v))

\* Words and a last one, over words the last of which begins with that one; x is
\* what is left of those.
Reads(D, H, c, x) ==
  \E g \in Seq(Seq(D)), l \in Seq(D), w \in Seq(D), y \in Seq(D), v \in Seq(Seq(D)) :
    H = g \o <<l>> /\ c = g \o (<<w>> \o v) /\ w = Cat(l, y) /\ x = Cat(y, After(v)) /\ Free(y, Space)

\* One more word in front of both.
LEMMA ReadsMore ==
  ASSUME NEW D, NEW h \in Seq(D), NEW H, NEW c, NEW x, Reads(D, H, c, x)
  PROVE  Reads(D, <<h>> \o H, <<h>> \o c, x)
<1>1. PICK g \in Seq(Seq(D)), l \in Seq(D), w \in Seq(D), y \in Seq(D), v \in Seq(Seq(D)) :
        H = g \o <<l>> /\ c = g \o (<<w>> \o v) /\ w = Cat(l, y) /\ x = Cat(y, After(v)) /\ Free(y, Space)
  BY DEF Reads
<1>2. PICK sh \in Seq(Seq(D)), sl \in Seq(Seq(D)), sw \in Seq(Seq(D)) : sh = <<h>> /\ sl = <<l>> /\ sw = <<w>>
  <2>1. <<h>> \in Seq(Seq(D)) /\ <<l>> \in Seq(Seq(D)) /\ <<w>> \in Seq(Seq(D))
    OBVIOUS
  <2> QED BY <2>1
<1>3. PICK wv \in Seq(Seq(D)) : wv = Cat(sw, v)
  BY Texts
<1>4. Cat(sh, g) \in Seq(Seq(D)) /\ Cat(Cat(sh, g), sl) = Cat(sh, Cat(g, sl)) /\ Cat(Cat(sh, g), wv) = Cat(sh, Cat(g, wv))
  BY Texts
<1>5. sh \o H = Cat(sh, g) \o <<l>> /\ sh \o c = Cat(sh, g) \o (<<w>> \o v)
  BY <1>1, <1>2, <1>3, <1>4 DEF Cat
<1> QED BY <1>1, <1>2, <1>4, <1>5 DEF Reads

\* The last word begins the next one.
LEMMA ReadsOne ==
  ASSUME NEW D, Space \in D, NEW l \in Seq(D), Free(l, Space), NEW c, Worded(D, c), NEW x \in Seq(D), Join(c) = Cat(l, x)
  PROVE  Reads(D, <<l>>, c, x)
<1>1. PICK w \in Seq(D) : w = c[1] /\ Free(w, Space)
  BY FirstWord
<1>2. PICK e \in Seq(Seq(D)) : e = <<>>
  <2>1. <<>> \in Seq(Seq(D))
    OBVIOUS
  <2> QED BY <2>1
<1>3. PICK sl \in Seq(Seq(D)), sw \in Seq(Seq(D)) : sl = <<l>> /\ sw = <<w>>
  <2>1. <<l>> \in Seq(Seq(D)) /\ <<w>> \in Seq(Seq(D))
    OBVIOUS
  <2> QED BY <2>1
<1>4. ASSUME NEW v \in Seq(Seq(D)), NEW y \in Seq(D), c = Cat(sw, v), w = Cat(l, y), x = Cat(y, After(v))
      PROVE  Reads(D, <<l>>, c, x)
  <2>1. Cat(e, sl) = sl /\ Cat(sw, v) \in Seq(Seq(D))
    BY <1>2, Texts
  <2>2. Cat(e, Cat(sw, v)) = Cat(sw, v)
    BY <1>2, <2>1, Texts
  <2>3. <<l>> = e \o <<l>> /\ c = e \o (<<w>> \o v)
    BY <1>3, <1>4, <2>1, <2>2 DEF Cat
  <2>4. Free(y, Space)
    <3>1. PICK n \in Nat, m \in Nat, k \in Nat : n = Len(l) /\ m = Len(y) /\ k = Len(w)
      BY LenProperties
    <3>2. k = n + m /\ \A i \in 1..m : w[n + i] = y[i]
      BY <1>4, <3>1, Parts DEF Cat
    <3>3. \A i \in 1..k : w[i] # Space
      BY <1>1, <3>1 DEF Free
    <3>4. \A i \in 1..m : n + i \in 1..k
      BY <3>2
    <3> QED BY <3>1, <3>2, <3>3, <3>4 DEF Free
  <2> QED BY <1>2, <1>4, <2>3, <2>4 DEF Reads
<1>5. CASE c = <<w>> /\ Join(c) = w
  <2>1. Cat(sw, e) = c /\ After(e) = <<>> /\ Cat(x, <<>>) = x
    BY <1>2, <1>3, <1>5, Texts DEF After
  <2>2. w = Cat(l, x) /\ x = Cat(x, After(e))
    BY <1>5, <2>1
  <2> QED BY <1>4, <2>1, <2>2
<1>6. CASE Headed(D, c, w)
  <2>1. PICK r : /\ Worded(D, r) /\ c = <<w>> \o r /\ Len(r) + 1 = Len(c) /\ Join(r) \in Seq(D)
                 /\ Join(c) = Between(w, Join(r))
    BY <1>6 DEF Headed
  <2>2. PICK s \in Seq(D), b \in Seq(D) : s = Join(r) /\ b = Cat(Blank, s) /\ b = After(r)
    <3>1. PICK s \in Seq(D) : s = Join(r)
      BY <2>1
    <3>2. Cat(Blank, s) \in Seq(D)
      BY BetweenIs
    <3>3. After(r) = Cat(Blank, s)
      BY <2>1, <3>1 DEF After, Worded
    <3> QED BY <3>1, <3>2, <3>3
  <2>3. Cat(l, x) = Cat(w, b)
    BY <2>1, <2>2 DEF Between
  <2>4. PICK n \in Nat, m \in Nat : n = Len(l) /\ m = Len(w)
    BY LenProperties
  <2>5. CASE n <= m
    <3>1. PICK y \in Seq(D) : w = Cat(l, y) /\ x = Cat(y, b)
      BY <2>3, <2>4, <2>5, TwoCuts
    <3>2. c = Cat(sw, r) /\ r \in Seq(Seq(D))
      BY <1>3, <2>1 DEF Cat, Worded
    <3> QED BY <1>4, <2>2, <3>1, <3>2
  <2>6. CASE ~(n <= m)
    <3>1. Len(w) <= Len(l)
      BY <2>4, <2>6
    <3>2. PICK z \in Seq(D) : l = Cat(w, z) /\ b = Cat(z, x)
      BY <2>3, <3>1, TwoCuts
    <3>3. z # <<>>
      <4> SUFFICES ASSUME z = <<>> PROVE FALSE
        OBVIOUS
      <4>1. l = w
        BY <3>2, Texts
      <4> QED BY <2>4, <2>6, <4>1
    <3>4. b[1] = Space
      BY <2>2, OneBlock DEF Cat, Blank
    <3>5. z[1] = Space
      BY <3>2, <3>3, <3>4, FirstOf
    <3>6. PICK q \in Seq(D) : z = Cat(Blank, q)
      BY <3>3, <3>5, SpaceFirst
    <3>7. l = Between(w, q)
      BY <3>2, <3>6 DEF Between
    <3> QED BY <3>7, FirstSpace
  <2> QED BY <2>5, <2>6
<1>7. (c = <<w>> /\ Join(c) = w) \/ Headed(D, c, w)
  BY <1>1, FirstWord
<1> QED BY <1>5, <1>6, <1>7

\* Joined words that begin others joined begin them word by word.
BeginAtLength(D, n) ==
  \A H : Worded(D, H) /\ Len(H) = n =>
    \A c : Worded(D, c) => \A x \in Seq(D) : Join(c) = Cat(Join(H), x) => Reads(D, H, c, x)

\* Words that begin a command, whatever its length.
LEMMA WordsBegin ==
  ASSUME NEW D, Space \in D, NEW H, Worded(D, H), NEW c, Worded(D, c), NEW x \in Seq(D), Join(c) = Cat(Join(H), x)
  PROVE  Reads(D, H, c, x)
<1> DEFINE T == {n \in Nat : BeginAtLength(D, n)}
<1>1. 0 \in T
  <2> SUFFICES ASSUME NEW G, Worded(D, G), Len(G) = 0 PROVE FALSE
    BY DEF BeginAtLength
  <2> QED BY EmptySeq DEF Worded
<1>2. ASSUME NEW n \in Nat, n \in T PROVE n + 1 \in T
  <2> SUFFICES ASSUME NEW G, Worded(D, G), Len(G) = n + 1, NEW d, Worded(D, d), NEW t \in Seq(D), Join(d) = Cat(Join(G), t)
               PROVE  Reads(D, G, d, t)
    BY DEF BeginAtLength
  <2>1. PICK h \in Seq(D) : h = G[1] /\ Free(h, Space)
    BY FirstWord
  <2>2. CASE G = <<h>> /\ Join(G) = h
    BY <2>1, <2>2, ReadsOne
  <2>3. CASE Headed(D, G, h)
    <3>1. PICK r : /\ Worded(D, r) /\ G = <<h>> \o r /\ Len(r) + 1 = Len(G) /\ Join(r) \in Seq(D)
                   /\ Join(G) = Between(h, Join(r))
      BY <2>3 DEF Headed
    <3>2. PICK s \in Seq(D) : s = Join(r)
      BY <3>1
    <3>3. PICK y \in Seq(D) : y = Cat(s, t)
      BY Texts
    <3>4. Join(d) = Between(h, y)
      <4>1. Cat(Between(h, s), t) = Between(h, Cat(s, t))
        BY BetweenIs
      <4> QED BY <3>1, <3>2, <3>3, <4>1
    <3>5. PICK w \in Seq(D) : w = d[1] /\ Free(w, Space)
      BY FirstWord
    <3>6. (d = <<w>> /\ Join(d) = w) \/ Headed(D, d, w)
      BY <3>5, FirstWord
    <3>7. Join(d) # w
      BY <3>4, <3>5, FirstSpace
    <3>8. PICK q : Worded(D, q) /\ d = <<w>> \o q /\ Join(q) \in Seq(D) /\ Join(d) = Between(w, Join(q))
      BY <3>6, <3>7 DEF Headed
    <3>9. PICK e \in Seq(D) : e = Join(q)
      BY <3>8
    <3>10. Between(w, e) = Between(h, y)
      BY <3>4, <3>8, <3>9
    <3>11. w = h /\ e = y
      <4>1. (w = h /\ e = y) \/ \E z \in Seq(D) : w = Between(h, z) /\ y = Between(z, e)
        BY <2>1, <3>10, FirstSpace
      <4>2. \A z \in Seq(D) : Between(h, z) # w
        BY <3>5, FirstSpace
      <4> QED BY <4>1, <4>2
    <3>12. Reads(D, r, q, t)
      <4>1. Len(r) = n
        <5>1. PICK m \in Nat : m = Len(r)
          BY <3>1, LenProperties DEF Worded
        <5> QED BY <3>1, <5>1
      <4>2. BeginAtLength(D, n)
        BY <1>2
      <4>3. Join(q) = Cat(Join(r), t)
        BY <3>2, <3>3, <3>9, <3>11
      <4> QED BY <3>1, <3>8, <4>1, <4>2, <4>3 DEF BeginAtLength
    <3> QED BY <2>1, <3>1, <3>8, <3>11, <3>12, ReadsMore
  <2>4. (G = <<h>> /\ Join(G) = h) \/ Headed(D, G, h)
    BY <2>1, FirstWord
  <2> QED BY <2>2, <2>3, <2>4
<1> HIDE DEF T
<1>3. Nat \subseteq T
  BY <1>1, <1>2, NatSetInduction
<1>4. Len(H) \in T
  BY <1>3, LenProperties DEF Worded
<1> QED BY <1>4 DEF T, BeginAtLength

\* What a command has behind a word begun at a place in it: the rest of the word
\* there and the words after it, and only these if nothing or a space comes next.
Rests(D, w, c, n, x) ==
  /\ x = From(c[n], Len(w) + 1) \o Behind(c, n)
  /\ x = <<>> \/ (\E z \in Seq(D) : x = Cat(Blank, z)) => c[n] = w /\ x = Behind(c, n)

\* All but the last of some words, from a place in a command on.
AllButLast(c, a, H, h) == \A i \in 1..(h - 1) : c[a + i] = H[i]

\* The place where words that are read end, in all of a command.
LEMMA ReadsAt ==
  ASSUME NEW D, Space \in D, NEW u \in Seq(Seq(D)), NEW d \in Seq(Seq(D)), NEW H \in Seq(Seq(D)), NEW x \in Seq(D),
         Reads(D, H, d, x), NEW c, c = Cat(u, d), NEW a \in Nat, NEW h \in Nat, Sized(u, a), Sized(H, h), NEW n, n = a + h
  PROVE  /\ c \in Seq(Seq(D)) /\ h # 0 /\ n \in 1..Len(c)
         /\ AllButLast(c, a, H, h)
         /\ H[h] \in Seq(D) /\ c[n] \in Seq(D) /\ IsPrefix(H[h], c[n])
         /\ Rests(D, H[h], c, n, x)
<1>1. PICK g \in Seq(Seq(D)), l \in Seq(D), w \in Seq(D), y \in Seq(D), v \in Seq(Seq(D)) :
        H = g \o <<l>> /\ d = g \o (<<w>> \o v) /\ w = Cat(l, y) /\ x = Cat(y, After(v)) /\ Free(y, Space)
  BY DEF Reads
<1>2. PICK sl \in Seq(Seq(D)), sw \in Seq(Seq(D)) :
        sl = <<l>> /\ sw = <<w>> /\ Sized(sl, 1) /\ Sized(sw, 1) /\ sl[1] = l /\ sw[1] = w
  <2>1. <<l>> \in Seq(Seq(D)) /\ <<w>> \in Seq(Seq(D))
    OBVIOUS
  <2>2. Len(<<l>>) = 1 /\ Len(<<w>>) = 1 /\ <<l>>[1] = l /\ <<w>>[1] = w
    OBVIOUS
  <2> QED BY <2>1, <2>2 DEF Sized
<1>3. Sized(sl, 1) /\ Sized(sw, 1)
  BY <1>2
<1>4. PICK b \in Nat, m \in Nat : Sized(g, b) /\ Sized(v, m)
  BY LenProperties DEF Sized
<1>5. /\ H \in Seq(Seq(D)) /\ Len(H) = b + 1 /\ H[b + 1] = l
      /\ \A i \in 1..b : H[i] = g[i]
  <2>1. /\ Cat(g, sl) \in Seq(Seq(D)) /\ Len(Cat(g, sl)) = b + 1
        /\ \A i \in 1..b : Cat(g, sl)[i] = g[i]
        /\ \A i \in 1..1 : Cat(g, sl)[b + i] = sl[i]
    BY <1>4, <1>3, CatIs
  <2>2. 1 \in 1..1
    OBVIOUS
  <2>3. H = Cat(g, sl)
    BY <1>1, <1>2 DEF Cat
  <2> QED BY <1>2, <2>1, <2>2, <2>3
<1>6. PICK r \in Seq(Seq(D)) : /\ r = Cat(sw, v) /\ Sized(r, 1 + m) /\ r[1] = w
                               /\ \A i \in 1..m : r[1 + i] = v[i]
  <2>1. /\ Cat(sw, v) \in Seq(Seq(D)) /\ Len(Cat(sw, v)) = 1 + m
        /\ \A i \in 1..1 : Cat(sw, v)[i] = sw[i]
        /\ \A i \in 1..m : Cat(sw, v)[1 + i] = v[i]
    BY <1>4, <1>3, CatIs
  <2>2. 1 \in 1..1
    OBVIOUS
  <2> QED BY <1>2, <2>1, <2>2 DEF Sized
<1>7. PICK e \in Seq(Seq(D)) : /\ e = d /\ Sized(e, b + (1 + m))
                               /\ \A i \in 1..b : e[i] = g[i]
                               /\ \A i \in 1..(1 + m) : e[b + i] = r[i]
  <2>1. PICK k \in Nat : k = 1 + m /\ Sized(r, k)
    <3>1. 1 + m \in Nat /\ Sized(r, 1 + m)
      BY <1>6
    <3> QED BY <3>1
  <2>2. Sized(r, k)
    BY <2>1
  <2>3. /\ Cat(g, r) \in Seq(Seq(D)) /\ Len(Cat(g, r)) = b + k
        /\ \A i \in 1..b : Cat(g, r)[i] = g[i]
        /\ \A i \in 1..k : Cat(g, r)[b + i] = r[i]
    BY <1>4, <2>2, CatIs
  <2>4. /\ Cat(g, r) \in Seq(Seq(D)) /\ Len(Cat(g, r)) = b + (1 + m)
        /\ \A i \in 1..b : Cat(g, r)[i] = g[i]
        /\ \A i \in 1..(1 + m) : Cat(g, r)[b + i] = r[i]
    BY <2>1, <2>3
  <2>5. d = Cat(g, r)
    BY <1>1, <1>2, <1>6 DEF Cat
  <2> QED BY <2>4, <2>5 DEF Sized
<1>8. /\ c \in Seq(Seq(D)) /\ Len(c) = a + (b + (1 + m))
      /\ \A i \in 1..(b + (1 + m)) : c[a + i] = e[i]
  <2>1. b + (1 + m) \in Nat /\ Sized(e, b + (1 + m))
    BY <1>7
  <2>2. /\ Cat(u, e) \in Seq(Seq(D)) /\ Len(Cat(u, e)) = a + (b + (1 + m))
        /\ \A i \in 1..(b + (1 + m)) : Cat(u, e)[a + i] = e[i]
    BY <2>1, CatIs
  <2>3. c = Cat(u, e)
    BY <1>7
  <2> QED BY <2>2, <2>3
<1>9. n = a + (b + 1) /\ n \in 1..Len(c) /\ n \in Nat
  <2>1. h = b + 1
    BY <1>5 DEF Sized
  <2>2. a + (b + 1) \in 1..(a + (b + (1 + m)))
    OBVIOUS
  <2> QED BY <1>8, <2>1, <2>2
<1>10. c[n] = w
  <2>1. b + 1 \in 1..(b + (1 + m)) /\ 1 \in 1..(1 + m)
    OBVIOUS
  <2>2. c[a + (b + 1)] = e[b + 1] /\ e[b + 1] = r[1]
    BY <1>7, <1>8, <2>1
  <2> QED BY <1>6, <1>9, <2>2
<1>11. \A i \in 1..b : c[a + i] = H[i]
  <2> SUFFICES ASSUME NEW i \in 1..b PROVE c[a + i] = H[i]
    OBVIOUS
  <2>1. i \in 1..(b + (1 + m))
    OBVIOUS
  <2> QED BY <1>5, <1>7, <1>8, <2>1
<1>12. IsPrefix(l, w)
  <2>1. \A i \in 1..Len(l) : (l \o y)[i] = l[i]
    BY Parts
  <2>2. Len(l \o y) = Len(l) + Len(y) /\ Len(l) \in Nat /\ Len(y) \in Nat
    BY Parts
  <2>3. PICK p \in Nat, q \in Nat : p = Len(l) /\ q = Len(y)
    BY <2>2
  <2>4. 0 + Len(l) <= Len(w) /\ \A i \in 1..Len(l) : w[0 + i] = l[i]
    BY <1>1, <2>1, <2>2, <2>3 DEF Cat
  <2>5. StandsBehind(l, w, 0)
    BY <2>4 DEF StandsBehind
  <2> QED BY <2>5, PrefixIs
<1>13. From(w, Len(l) + 1) = y
  <2>1. PICK p \in Nat, q \in Nat : p = Len(l) /\ q = Len(y)
    BY LenProperties
  <2>2. Len(w) = p + q /\ \A i \in 1..q : w[p + i] = y[i]
    BY <1>1, <2>1, Parts DEF Cat
  <2>3. p \in 0..Len(w) /\ Len(w) - p = q
    BY <2>1, <2>2
  <2>4. /\ SubSeq(w, p + 1, Len(w)) \in Seq(D) /\ Len(SubSeq(w, p + 1, Len(w))) = q
        /\ \A i \in 1..q : SubSeq(w, p + 1, Len(w))[i] = w[p + i]
    BY <2>3, Cut
  <2>5. SubSeq(w, p + 1, Len(w)) = y
    <3>1. PICK t \in Seq(D) : t = SubSeq(w, p + 1, Len(w)) /\ Len(t) = q /\ \A i \in 1..q : t[i] = w[p + i]
      BY <2>4
    <3>2. t = y
      BY <2>1, <2>2, <3>1, SeqEqual
    <3> QED BY <3>1, <3>2
  <2> QED BY <2>1, <2>5 DEF From
<1>14. After(v) = Behind(c, n)
  <2>1. n < Len(c) <=> m # 0
    BY <1>8, <1>9
  <2>2. v = <<>> <=> m = 0
    BY <1>4, EmptySeq DEF Sized
  <2>3. From(c, n + 1) = v
    <3>1. /\ From(c, n + 1) \in Seq(Seq(D)) /\ Len(From(c, n + 1)) = Len(c) - n
          /\ \A i \in 1..(Len(c) - n) : From(c, n + 1)[i] = c[n + i]
      BY <1>8, <1>9, FromIs
    <3>2. Len(c) - n = m
      BY <1>8, <1>9
    <3>3. \A i \in 1..m : c[n + i] = v[i]
      <4> SUFFICES ASSUME NEW i \in 1..m PROVE c[n + i] = v[i]
        OBVIOUS
      <4>1. b + (1 + i) \in 1..(b + (1 + m)) /\ 1 + i \in 1..(1 + m) /\ n + i = a + (b + (1 + i))
        BY <1>9
      <4>2. c[a + (b + (1 + i))] = e[b + (1 + i)] /\ e[b + (1 + i)] = r[1 + i]
        BY <1>7, <1>8, <4>1
      <4> QED BY <1>6, <4>1, <4>2
    <3>4. PICK t \in Seq(Seq(D)) : t = From(c, n + 1) /\ Len(t) = m /\ \A i \in 1..m : t[i] = c[n + i]
      BY <3>1, <3>2
    <3>5. t = v
      <4>1. Len(t) = m /\ Len(v) = m /\ \A i \in 1..m : t[i] = v[i]
        BY <1>4, <3>3, <3>4 DEF Sized
      <4> QED BY <4>1, SeqEqual
    <3> QED BY <3>4, <3>5
  <2> QED BY <2>1, <2>2, <2>3 DEF After, Behind, Cat, Blank
<1>15. ASSUME x = <<>> \/ \E z \in Seq(D) : x = Cat(Blank, z)
       PROVE  w = l /\ x = After(v)
  <2>1. PICK t \in Seq(D) : t = After(v)
    <3>1. <<>> \in Seq(D)
      OBVIOUS
    <3>2. CASE v = <<>>
      BY <3>1, <3>2 DEF After
    <3>3. CASE v # <<>>
      <4>1. Join(v) \in Seq(D)
        BY <3>3, SpacedIsJoin
      <4>2. Cat(Blank, Join(v)) \in Seq(D)
        BY <4>1, BetweenIs
      <4> QED BY <3>3, <4>2 DEF After
    <3> QED BY <3>2, <3>3
  <2>2. y = <<>>
    <3> SUFFICES ASSUME y # <<>> PROVE FALSE
      OBVIOUS
    <3>1. Cat(y, t)[1] = y[1]
      BY FirstOf
    <3>2. Len(y) \in Nat /\ Len(y) # 0 /\ 1 \in 1..Len(y)
      BY EmptySeq, LenProperties
    <3>3. y[1] # Space
      BY <1>1, <3>2 DEF Free
    <3>4. x # <<>>
      <4>1. Len(y \o t) = Len(y) + Len(t) /\ Len(t) \in Nat
        BY Parts
      <4>2. PICK p \in Nat, q \in Nat : p = Len(y) /\ q = Len(t)
        BY <3>2, <4>1
      <4>3. Len(x) # 0
        BY <1>1, <2>1, <3>2, <4>1, <4>2 DEF Cat
      <4> QED BY <4>3, EmptySeq
    <3>5. PICK z \in Seq(D) : x = Cat(Blank, z)
      BY <1>15, <3>4
    <3>6. x[1] = Space
      BY <3>5, OneBlock DEF Cat, Blank
    <3> QED BY <1>1, <2>1, <3>1, <3>3, <3>6
  <2>3. Cat(l, <<>>) = l /\ Cat(<<>>, t) = t
    BY Texts
  <2> QED BY <1>1, <2>1, <2>2, <2>3
<1>16. h - 1 = b /\ h # 0 /\ H[h] = l
  <2>1. h = b + 1
    BY <1>5 DEF Sized
  <2> QED BY <1>4, <1>5, <2>1
<1>17. x = From(c[n], Len(H[h]) + 1) \o Behind(c, n)
  BY <1>1, <1>10, <1>13, <1>14, <1>16 DEF Cat
<1>18. AllButLast(c, a, H, h)
  BY <1>4, <1>11, <1>16 DEF AllButLast
<1>19. x = <<>> \/ (\E z \in Seq(D) : x = Cat(Blank, z)) => c[n] = H[h] /\ x = Behind(c, n)
  BY <1>10, <1>14, <1>15, <1>16
<1>20. H[h] \in Seq(D) /\ c[n] \in Seq(D) /\ IsPrefix(H[h], c[n])
  BY <1>10, <1>12, <1>16
<1>21. Rests(D, H[h], c, n, x)
  BY <1>17, <1>19 DEF Rests
<1> QED BY <1>8, <1>9, <1>16, <1>18, <1>20, <1>21

\* Words without spaces and stars, none of them empty.
Spaceless(D, V) == V \subseteq Seq(D \ {Star}) \ {<<>>} /\ \A v \in V : Free(v, Space)

\* Such words, and how they are joined.
LEMMA SpacelessWords ==
  ASSUME NEW D, Space \in D, NEW V, Spaceless(D, V), NEW ws \in Seq(V), ws # <<>>
  PROVE  Worded(D, ws) /\ Join(ws) \in Seq(D) /\ Free(Join(ws), Star)
<1>1. V \subseteq Seq(D \ {Star}) /\ V \subseteq Seq(D)
  <2>1. V \subseteq Seq(D \ {Star})
    BY DEF Spaceless
  <2> QED BY <2>1, SeqMonotonic
<1>2. ws \in Seq(Seq(D \ {Star})) /\ ws \in Seq(Seq(D))
  BY <1>1, SeqMonotonic
<1>3. \A k \in 1..Len(ws) : ws[k] \in V
  BY ElementOfSeq
<1>4. Worded(D, ws)
  BY <1>2, <1>3 DEF Worded, Spaceless
<1>5. ws[1] # <<>>
  <2>1. 1 \in 1..Len(ws)
    BY EmptySeq, LenProperties
  <2> QED BY <1>3, <2>1 DEF Spaceless
<1>6. Plain(D, Join(ws))
  BY <1>2, <1>5, JoinPlain
<1> QED BY <1>4, <1>6, PlainIs

\* The head directly in place, the last of its words perhaps only begun.
LEMMA DirectEnds ==
  ASSUME NEW S, NEW r, IsRule(r, S), NEW c \in Seq(S), NEW options, NEW n \in 1..Len(c), Sized(HeadOf(r), n),
         \A i \in 1..(n - 1) : c[i] = HeadOf(r)[i], IsPrefix(HeadOf(r)[n], c[n])
  PROVE  HeadEndsAt(r, c, options, n) /\ Last(HeadOf(r)) = HeadOf(r)[n]
<1> DEFINE h == HeadOf(r)
<1>1. h \in Seq(S) /\ n = Len(h) /\ Last(h) = h[n]
  BY HeadWords DEF Sized, Last
<1>2. SubSeq(c, 1, n - 1) = SubSeq(h, 1, n - 1)
  <2>1. PICK l \in Nat : l = Len(c)
    BY LenProperties
  <2>2. PICK m \in Nat : m = n - 1 /\ n = m + 1 /\ m <= l
    BY <2>1
  <2>3. \A i \in 1..m : c[0 + i] = h[i]
    BY <2>2
  <2>4. 0 + m <= Len(c) /\ m <= Len(h)
    BY <1>1, <2>1, <2>2
  <2> HIDE DEF h
  <2>5. SubSeq(c, 0 + 1, 0 + m) = SubSeq(h, 1, m)
    BY <1>1, <2>3, <2>4, SameStretch
  <2>6. 0 + 1 = 1 /\ 0 + m = m
    OBVIOUS
  <2> QED BY <2>2, <2>5, <2>6
<1> QED BY <1>1, <1>2 DEF HeadEndsAt

\* The subcommands behind an option, the last of them perhaps only begun.
LEMMA BehindEnds ==
  ASSUME NEW S, NEW r, IsRule(r, S), NEW c \in Seq(S), NEW options, NEW size \in Nat, size # 0, Sized(r.subcommand, size),
         NEW k \in Nat, 2 <= k, NEW n \in 1..Len(c), n = k + size,
         c[1] = r.command, NEW o \in options, IsPrefix(o, c[2]),
         \A i \in 1..(size - 1) : c[k + i] = r.subcommand[i], IsPrefix(r.subcommand[size], c[n])
  PROVE  HeadEndsAt(r, c, options, n) /\ Last(HeadOf(r)) = r.subcommand[size]
<1> DEFINE s == r.subcommand
<1>1. s \in Seq(S) /\ size = Len(s)
  BY DEF Sized, IsRule
<1>2. Last(HeadOf(r)) = s[size]
  <2>1. s # <<>>
    BY <1>1, EmptySeq
  <2> QED BY <1>1, <2>1, HeadWords
<1>3. SubSeq(c, n - size + 1, n - 1) = SubSeq(s, 1, size - 1)
  <2>1. PICK l \in Nat : l = Len(c)
    BY LenProperties
  <2>2. PICK m \in Nat : m = size - 1 /\ size = m + 1 /\ k + m <= l
    BY <2>1
  <2>3. \A i \in 1..m : c[k + i] = s[i]
    BY <2>2
  <2>4. k + m <= Len(c) /\ m <= Len(s)
    BY <1>1, <2>1, <2>2
  <2>5. PICK b \in Seq(S) : b = s
    BY <1>1
  <2> HIDE DEF s
  <2>6. SubSeq(c, k + 1, k + m) = SubSeq(b, 1, m)
    <3>1. (\A i \in 1..m : c[k + i] = b[i]) /\ m <= Len(b)
      BY <2>3, <2>4, <2>5
    <3> QED BY <2>4, <3>1, SameStretch
  <2>7. n - size + 1 = k + 1 /\ n - 1 = k + m
    BY <2>2
  <2> QED BY <2>2, <2>5, <2>6, <2>7
<1>4. n >= size + 2
  OBVIOUS
<1>5. Len(s) > 0
  BY <1>1
<1> QED BY <1>1, <1>2, <1>3, <1>4, <1>5 DEF HeadEndsAt

\* A head in place.
LEMMA DirectRead ==
  ASSUME NEW D, Space \in D, NEW V, Spaceless(D, V), NEW r, IsRule(r, V), NEW options,
         NEW c, Worded(D, c), NEW x \in Seq(D), Join(c) = Cat(Join(HeadOf(r)), x)
  PROVE  \E n \in 1..Len(c) : HeadEndsAt(r, c, options, n) /\ Rests(D, Last(HeadOf(r)), c, n, x)
<1> DEFINE h == HeadOf(r)
<1>1. V \subseteq Seq(D) /\ IsRule(r, Seq(D)) /\ c \in Seq(Seq(D))
  <2>1. V \subseteq Seq(D \ {Star})
    BY DEF Spaceless
  <2>2. V \subseteq Seq(D)
    BY <2>1, SeqMonotonic
  <2>3. Seq(V) \subseteq Seq(Seq(D))
    BY <2>2, SeqMonotonic
  <2> QED BY <2>2, <2>3 DEF IsRule, Worded
<1>2. h \in Seq(V) /\ h # <<>> /\ h \in Seq(Seq(D))
  <2>1. h \in Seq(V) /\ Len(h) = Len(r.subcommand) + 1 /\ Len(r.subcommand) \in Nat
    BY HeadWords, LenProperties DEF IsRule
  <2>2. Len(h) # 0
    BY <2>1
  <2> QED BY <1>1, <2>1, <2>2, EmptySeq, SeqMonotonic
<1>3. Worded(D, h)
  BY <1>2, SpacelessWords
<1> HIDE DEF h
<1>4. Reads(D, h, c, x)
  BY <1>3, WordsBegin DEF h
<1>5. PICK e \in Seq(Seq(D)) : e = <<>> /\ Sized(e, 0) /\ Cat(e, c) = c
  <2>1. <<>> \in Seq(Seq(D)) /\ Len(<<>>) = 0
    OBVIOUS
  <2>2. Cat(<<>>, c) = c
    BY <1>1, Texts
  <2> QED BY <2>1, <2>2 DEF Sized
<1>6. PICK m \in Nat : Sized(h, m)
  BY <1>2, LenProperties DEF Sized
<1>7. PICK n \in Nat : n = 0 + m /\ n = m
  <2>1. m = 0 + m
    OBVIOUS
  <2> QED BY <2>1
<1>8. Sized(e, 0) /\ c = Cat(e, c)
  BY <1>5
<1>9. /\ m # 0 /\ n \in 1..Len(c)
      /\ \A i \in 1..(m - 1) : c[0 + i] = h[i]
      /\ IsPrefix(h[m], c[n])
      /\ Rests(D, h[m], c, n, x)
  <2>1. Sized(e, 0) /\ Sized(h, m) /\ Reads(D, h, c, x) /\ c = Cat(e, c) /\ n = 0 + m
    BY <1>4, <1>6, <1>7, <1>8
  <2>2. c \in Seq(Seq(D)) /\ h \in Seq(Seq(D)) /\ 0 \in Nat
    BY <1>1, <1>2
  <2>3. m # 0 /\ n \in 1..Len(c)
    BY <2>1, <2>2, ReadsAt
  <2>4. AllButLast(c, 0, h, m)
    BY <2>1, <2>2, ReadsAt
  <2>5. IsPrefix(h[m], c[n])
    BY <2>1, <2>2, ReadsAt
  <2>6. Rests(D, h[m], c, n, x)
    BY <2>1, <2>2, ReadsAt
  <2> QED BY <2>3, <2>4, <2>5, <2>6 DEF AllButLast
<1>10. \A i \in 1..(n - 1) : c[i] = h[i]
  <2>1. \A i \in 1..(n - 1) : 0 + i = i
    OBVIOUS
  <2> QED BY <1>7, <1>9, <2>1
<1>11. Sized(h, n) /\ IsPrefix(h[n], c[n])
  BY <1>6, <1>7, <1>9
<1>12. HeadEndsAt(r, c, options, n) /\ Last(h) = h[n]
  BY <1>1, <1>9, <1>10, <1>11, DirectEnds DEF h
<1>13. Rests(D, Last(HeadOf(r)), c, n, x)
  BY <1>7, <1>9, <1>12 DEF h
<1> QED BY <1>9, <1>12, <1>13

\* A rule over words without spaces, in the characters of them.
LEMMA SpacelessRule ==
  ASSUME NEW D, Space \in D, NEW V, Spaceless(D, V), NEW r, IsRule(r, V)
  PROVE  /\ V \subseteq Seq(D) /\ IsRule(r, Seq(D))
         /\ HeadOf(r) \in Seq(V) /\ HeadOf(r) # <<>> /\ HeadOf(r) \in Seq(Seq(D)) /\ Worded(D, HeadOf(r))
<1>1. V \subseteq Seq(D)
  <2>1. V \subseteq Seq(D \ {Star})
    BY DEF Spaceless
  <2> QED BY <2>1, SeqMonotonic
<1>2. Seq(V) \subseteq Seq(Seq(D))
  BY <1>1, SeqMonotonic
<1>3. HeadOf(r) \in Seq(V) /\ Len(HeadOf(r)) = Len(r.subcommand) + 1 /\ Len(r.subcommand) \in Nat
  BY HeadWords, LenProperties DEF IsRule
<1>4. HeadOf(r) # <<>>
  <2>1. Len(HeadOf(r)) # 0
    BY <1>3
  <2> QED BY <1>3, <2>1, EmptySeq
<1>5. Worded(D, HeadOf(r))
  BY <1>3, <1>4, SpacelessWords
<1> QED BY <1>1, <1>2, <1>3, <1>4, <1>5 DEF IsRule

\* A command that begins with a program and an option, perhaps only begun.
LEMMA OptionIsSecond ==
  ASSUME NEW D, Space \in D, NEW w \in Seq(D), Free(w, Space), NEW o \in Seq(D), Free(o, Space),
         NEW u, Worded(D, u), NEW m \in Seq(D), Join(u) = Cat(Between(w, o), m)
  PROVE  2 \in 1..Len(u) /\ u[1] = w /\ IsPrefix(o, u[2])
<1>1. PICK so \in Seq(Seq(D)) : so = <<o>> /\ Worded(D, so) /\ Sized(so, 1) /\ so[1] = o /\ Join(so) = o
  <2>1. Worded(D, <<o>>) /\ <<o>> \in Seq(Seq(D)) /\ Len(<<o>>) = 1 /\ <<o>>[1] = o /\ Join(<<o>>) = o
    BY OneWord
  <2> QED BY <2>1 DEF Sized
<1>2. PICK sw \in Seq(Seq(D)) : sw = <<w>> /\ Sized(sw, 1) /\ sw[1] = w
  <2>1. <<w>> \in Seq(Seq(D)) /\ Len(<<w>>) = 1 /\ <<w>>[1] = w
    OBVIOUS
  <2> QED BY <2>1 DEF Sized
<1>3. PICK K \in Seq(Seq(D)) : /\ K = Cat(sw, so) /\ Worded(D, K) /\ Join(K) = Between(w, o)
                               /\ Sized(K, 2) /\ K[1] = w /\ K[2] = o
  <2>1. PICK p \in Nat : p = 1 /\ Sized(sw, p) /\ Sized(so, p)
    BY <1>1, <1>2
  <2>2. Sized(sw, p) /\ Sized(so, p)
    BY <2>1
  <2>3. /\ Cat(sw, so) \in Seq(Seq(D)) /\ Len(Cat(sw, so)) = p + p
        /\ \A i \in 1..p : Cat(sw, so)[i] = sw[i]
        /\ \A i \in 1..p : Cat(sw, so)[p + i] = so[i]
    BY <2>2, CatIs
  <2>4. /\ Cat(sw, so) \in Seq(Seq(D)) /\ Len(Cat(sw, so)) = 1 + 1
        /\ \A i \in 1..1 : Cat(sw, so)[i] = sw[i]
        /\ \A i \in 1..1 : Cat(sw, so)[1 + i] = so[i]
    BY <2>1, <2>3
  <2>5. Worded(D, sw \o so) /\ Join(sw \o so) = Between(w, Join(so))
    BY <1>1, <1>2, WordBefore
  <2>6. 1 \in 1..1 /\ 1 + 1 = 2
    OBVIOUS
  <2>7. Cat(sw, so)[1] = w /\ Cat(sw, so)[2] = o /\ Sized(Cat(sw, so), 2)
    BY <1>1, <1>2, <2>4, <2>6 DEF Sized
  <2>8. Worded(D, Cat(sw, so)) /\ Join(Cat(sw, so)) = Between(w, o)
    BY <1>1, <2>5 DEF Cat
  <2> QED BY <2>4, <2>7, <2>8
<1>4. Reads(D, K, u, m)
  BY <1>3, WordsBegin
<1>5. u \in Seq(Seq(D))
  BY DEF Worded
<1>6. PICK e \in Seq(Seq(D)) : Sized(e, 0) /\ u = Cat(e, u)
  <2>1. <<>> \in Seq(Seq(D)) /\ Len(<<>>) = 0
    OBVIOUS
  <2>2. Cat(<<>>, u) = u
    BY <1>5, Texts
  <2> QED BY <2>1, <2>2 DEF Sized
<1>7. Sized(e, 0) /\ Sized(K, 2) /\ Reads(D, K, u, m) /\ u = Cat(e, u) /\ 2 = 0 + 2 /\ 0 \in Nat /\ 2 \in Nat
  BY <1>3, <1>4, <1>6
<1>8. 2 \in 1..Len(u)
  BY <1>5, <1>7, ReadsAt
<1>9. AllButLast(u, 0, K, 2)
  BY <1>5, <1>7, ReadsAt
<1>10. IsPrefix(K[2], u[2])
  BY <1>5, <1>7, ReadsAt
<1>11. 1 \in 1..(2 - 1) /\ 0 + 1 = 1
  OBVIOUS
<1> QED BY <1>3, <1>8, <1>9, <1>10, <1>11 DEF AllButLast

\* A head behind an option.
LEMMA OptionRead ==
  ASSUME NEW D, Space \in D, NEW V, Spaceless(D, V), NEW r, IsRule(r, V), r.subcommand # <<>>,
         NEW options \in SUBSET V, NEW o \in options, NEW c, Worded(D, c), NEW m \in Seq(D), NEW x \in Seq(D),
         Join(c) = Cat(Between(Cat(Between(r.command, o), m), Join(r.subcommand)), x)
  PROVE  \E n \in 1..Len(c) : HeadEndsAt(r, c, options, n) /\ Rests(D, Last(HeadOf(r)), c, n, x)
<1>1. /\ V \subseteq Seq(D) /\ IsRule(r, Seq(D)) /\ r.command \in V /\ o \in V /\ r.subcommand \in Seq(V)
      /\ r.command \in Seq(D) /\ o \in Seq(D) /\ Free(r.command, Space) /\ Free(o, Space)
  <2>1. V \subseteq Seq(D) /\ IsRule(r, Seq(D))
    BY SpacelessRule
  <2>2. r.command \in V /\ o \in V /\ r.subcommand \in Seq(V)
    BY DEF IsRule
  <2> QED BY <2>1, <2>2 DEF Spaceless
<1>2. PICK sub \in Seq(Seq(D)) : sub = r.subcommand /\ Worded(D, sub)
  <2>1. Worded(D, r.subcommand)
    BY <1>1, SpacelessWords
  <2> QED BY <2>1 DEF Worded
<1>3. PICK s \in Seq(D), w \in Seq(D), A \in Seq(D), y \in Seq(D) :
        /\ s = Join(sub) /\ w = r.command /\ A = Cat(Between(w, o), m) /\ y = Cat(s, x)
        /\ Join(c) = Between(A, y)
  <2>1. PICK s \in Seq(D) : s = Join(sub)
    <3>1. Join(r.subcommand) \in Seq(D)
      BY <1>1, SpacelessWords
    <3> QED BY <1>2, <3>1
  <2>2. Between(r.command, o) \in Seq(D)
    BY <1>1, BetweenIs
  <2>3. PICK A \in Seq(D), y \in Seq(D) : A = Cat(Between(r.command, o), m) /\ y = Cat(s, x)
    <3>1. Cat(Between(r.command, o), m) \in Seq(D) /\ Cat(s, x) \in Seq(D)
      BY <2>2, Texts
    <3> QED BY <3>1
  <2>4. Cat(Between(A, s), x) = Between(A, Cat(s, x))
    BY BetweenIs
  <2>5. Join(c) = Between(A, y)
    BY <1>2, <2>1, <2>3, <2>4
  <2> QED BY <1>1, <2>1, <2>3, <2>5
<1>4. Parted(D, c, A, y)
  BY <1>3, WordsSplit
<1>5. PICK u \in Seq(Seq(D)), v \in Seq(Seq(D)) :
        Worded(D, u) /\ Worded(D, v) /\ c = Cat(u, v) /\ A = Join(u) /\ y = Join(v)
  <2>1. PICK u, v : Worded(D, u) /\ Worded(D, v) /\ c = u \o v /\ A = Join(u) /\ y = Join(v)
    BY <1>4 DEF Parted
  <2> QED BY <2>1 DEF Worded, Cat
<1>6. 2 \in 1..Len(u) /\ u[1] = w /\ IsPrefix(o, u[2])
  <2>1. Join(u) = Cat(Between(w, o), m) /\ Free(w, Space) /\ Free(o, Space) /\ o \in Seq(D) /\ Worded(D, u)
    BY <1>1, <1>3, <1>5
  <2>2. 2 \in 1..Len(u)
    BY <2>1, OptionIsSecond
  <2>3. u[1] = w
    BY <2>1, OptionIsSecond
  <2>4. IsPrefix(o, u[2])
    BY <2>1, OptionIsSecond
  <2> QED BY <2>2, <2>3, <2>4
<1>7. Reads(D, sub, v, x)
  <2>1. Worded(D, sub) /\ Worded(D, v) /\ Join(v) = Cat(Join(sub), x)
    BY <1>2, <1>3, <1>5
  <2> QED BY <2>1, WordsBegin
<1>8. PICK k \in Nat, q \in Nat, size \in Nat : Sized(u, k) /\ Sized(v, q) /\ Sized(sub, size)
  BY LenProperties DEF Sized
<1>9. PICK n \in Nat : n = k + size
  OBVIOUS
<1>10. Sized(u, k) /\ Sized(v, q) /\ Sized(sub, size) /\ Reads(D, sub, v, x) /\ c = Cat(u, v)
  BY <1>5, <1>7, <1>8
<1>11. c \in Seq(Seq(D))
  BY DEF Worded
<1>12. size # 0 /\ n \in 1..Len(c)
  BY <1>9, <1>10, <1>11, ReadsAt
<1>13. AllButLast(c, k, sub, size)
  BY <1>9, <1>10, <1>11, ReadsAt
<1>14. IsPrefix(sub[size], c[n])
  BY <1>9, <1>10, <1>11, ReadsAt
<1>15. Rests(D, sub[size], c, n, x)
  BY <1>9, <1>10, <1>11, ReadsAt
<1>16. 2 <= k /\ c[1] = w /\ c[2] = u[2]
  <2>1. Sized(u, k) /\ Sized(v, q)
    BY <1>10
  <2>2. \A i \in 1..k : Cat(u, v)[i] = u[i]
    BY <2>1, CatIs
  <2>3. 2 <= k
    BY <1>6, <1>8 DEF Sized
  <2>4. 1 \in 1..k /\ 2 \in 1..k
    BY <2>3
  <2> QED BY <1>5, <1>6, <2>2, <2>3, <2>4
<1>17. /\ c[1] = r.command /\ IsPrefix(o, c[2]) /\ Sized(r.subcommand, size)
       /\ \A i \in 1..(size - 1) : c[k + i] = r.subcommand[i]
       /\ IsPrefix(r.subcommand[size], c[n])
  BY <1>2, <1>3, <1>6, <1>8, <1>13, <1>14, <1>16 DEF AllButLast
<1>18. HeadEndsAt(r, c, options, n) /\ Last(HeadOf(r)) = r.subcommand[size]
  <2>1. IsRule(r, Seq(D)) /\ c \in Seq(Seq(D)) /\ size # 0 /\ 2 <= k /\ n \in 1..Len(c) /\ n = k + size
    BY <1>1, <1>9, <1>11, <1>12, <1>16
  <2>2. HeadEndsAt(r, c, options, n)
    BY <2>1, <1>17, BehindEnds
  <2>3. Last(HeadOf(r)) = r.subcommand[Len(r.subcommand)]
    BY <1>1, HeadWords
  <2> QED BY <1>17, <2>2, <2>3 DEF Sized
<1> QED BY <1>2, <1>12, <1>15, <1>18

\* Any text, in a pattern.
Hole == <<Star>>

\* A pattern with a hole between two others matches what one matches, anything,
\* and what the other matches.
LEMMA HoleParts ==
  ASSUME NEW D, Star \in D, NEW p \in Seq(D), NEW q \in Seq(D), NEW t \in Seq(D), Glob(Cat(p, Cat(Hole, q)), t)
  PROVE  \E a \in Seq(D), m \in Seq(D), b \in Seq(D) : t = Cat(a, Cat(m, b)) /\ Glob(p, a) /\ Glob(q, b)
<1>1. Hole \in Seq(D)
  BY DEF Hole
<1>2. PICK w \in Seq(D) : w = Cat(Hole, q)
  <2>1. Cat(Hole, q) \in Seq(D)
    BY <1>1, Texts
  <2> QED BY <2>1
<1>3. PICK a \in Seq(D), e \in Seq(D) : t = Cat(a, e) /\ Glob(p, a) /\ Glob(w, e)
  <2>1. Glob(Cat(p, w), t)
    BY <1>2
  <2> QED BY <2>1, GlobParts
<1>4. PICK m \in Seq(D), b \in Seq(D) : e = Cat(m, b) /\ Glob(q, b)
  <2>1. Glob(Cat(Hole, q), e)
    BY <1>2, <1>3
  <2> QED BY <1>1, <2>1, GlobParts
<1> QED BY <1>3, <1>4

\* A word and another one behind a space are free of stars.
LEMMA BetweenFree ==
  ASSUME NEW D, Space \in D, NEW a \in Seq(D), NEW b \in Seq(D), Free(a, Star), Free(b, Star)
  PROVE  Between(a, b) \in Seq(D) /\ Free(Between(a, b), Star) /\ Cat(Blank, b) \in Seq(D) /\ Free(Cat(Blank, b), Star)
<1>1. Blank \in Seq(D) /\ Free(Blank, Star)
  BY BlankIs
<1>2. PICK e \in Seq(D) : e = Cat(Blank, b) /\ Free(e, Star)
  <2>1. Cat(Blank, b) \in Seq(D) /\ Free(Cat(Blank, b), Star)
    BY <1>1, Texts, FreeTogether
  <2> QED BY <2>1
<1>3. Cat(a, e) \in Seq(D) /\ Free(Cat(a, e), Star)
  BY <1>2, Texts, FreeTogether
<1> QED BY <1>2, <1>3 DEF Between

\* The globs for a head alone: in place, or behind an option.
OfHead(r, options, g) ==
  \/ g = Join(HeadOf(r))
  \/ /\ r.subcommand # <<>>
     /\ \E o \in options : g = Cat(Between(r.command, o), Cat(Hole, Cat(Blank, Join(r.subcommand))))

\* A glob for a head matches what begins with the head's words.
LEMMA HeadRead ==
  ASSUME NEW D, Space \in D, Star \in D, NEW V, Spaceless(D, V), NEW r, IsRule(r, V), NEW options \in SUBSET V,
         NEW g, OfHead(r, options, g), NEW a \in Seq(D), Glob(g, a),
         NEW c, Worded(D, c), NEW x \in Seq(D), Join(c) = Cat(a, x)
  PROVE  \E n \in 1..Len(c) : HeadEndsAt(r, c, options, n) /\ Rests(D, Last(HeadOf(r)), c, n, x)
<1>1. CASE g = Join(HeadOf(r))
  <2>1. g \in Seq(D) /\ Free(g, Star)
    <3>1. HeadOf(r) \in Seq(V) /\ HeadOf(r) # <<>>
      BY SpacelessRule
    <3> QED BY <1>1, <3>1, SpacelessWords
  <2>2. a = Join(HeadOf(r))
    BY <1>1, <2>1, PlainGlob
  <2>3. Join(c) = Cat(Join(HeadOf(r)), x)
    BY <2>2
  <2> QED BY <2>3, DirectRead
<1>2. CASE r.subcommand # <<>> /\ \E o \in options :
             g = Cat(Between(r.command, o), Cat(Hole, Cat(Blank, Join(r.subcommand))))
  <2>1. PICK o \in options : g = Cat(Between(r.command, o), Cat(Hole, Cat(Blank, Join(r.subcommand))))
    BY <1>2
  <2>2. V \subseteq Seq(D) /\ \A v \in V : v \in Seq(D) /\ Free(v, Star)
    <3>1. V \subseteq Seq(D)
      BY SpacelessRule
    <3>2. ASSUME NEW v \in V PROVE Free(v, Star)
      <4>1. v \in Seq(D \ {Star})
        BY DEF Spaceless
      <4>2. \A i \in 1..Len(v) : v[i] \in D \ {Star}
        BY <4>1, ElementOfSeq
      <4> QED BY <4>2 DEF Free
    <3> QED BY <3>1, <3>2
  <2>3. r.command \in V /\ o \in V /\ r.subcommand \in Seq(V)
    BY DEF IsRule
  <2>4. PICK s \in Seq(D) : s = Join(r.subcommand) /\ Free(s, Star)
    <3>1. Join(r.subcommand) \in Seq(D) /\ Free(Join(r.subcommand), Star)
      BY <1>2, <2>3, SpacelessWords
    <3> QED BY <3>1
  <2>5. PICK w \in Seq(D) : w = Between(r.command, o) /\ Free(w, Star)
    <3>1. Between(r.command, o) \in Seq(D) /\ Free(Between(r.command, o), Star)
      BY <2>2, <2>3, BetweenFree
    <3> QED BY <3>1
  <2>6. PICK e \in Seq(D) : e = Cat(Blank, s) /\ Free(e, Star)
    <3>1. Cat(Blank, s) \in Seq(D) /\ Free(Cat(Blank, s), Star)
      BY <2>4, BetweenFree
    <3> QED BY <3>1
  <2>7. PICK b \in Seq(D), m \in Seq(D), d \in Seq(D) : a = Cat(b, Cat(m, d)) /\ Glob(w, b) /\ Glob(e, d)
    <3>1. Glob(Cat(w, Cat(Hole, e)), a)
      BY <2>1, <2>4, <2>5, <2>6
    <3> QED BY <3>1, HoleParts
  <2>8. b = w /\ d = e
    BY <2>5, <2>6, <2>7, PlainGlob
  <2>9. a = Between(Cat(w, m), s)
    <3>1. Cat(Cat(w, m), e) = Cat(w, Cat(m, e))
      BY Texts
    <3> QED BY <2>6, <2>7, <2>8, <3>1 DEF Between
  <2>10. Join(c) = Cat(Between(Cat(Between(r.command, o), m), Join(r.subcommand)), x)
    BY <2>4, <2>5, <2>9
  <2> QED BY <1>2, <2>10, OptionRead
<1> QED BY <1>1, <1>2 DEF OfHead

\* What follows ends the word before it.
Ended(D, x) == x = <<>> \/ \E z \in Seq(D) : x = Cat(Blank, z)

\* Words that are read and ended stand in the command.
LEMMA ReadsWhole ==
  ASSUME NEW D, Space \in D, NEW u \in Seq(Seq(D)), NEW v \in Seq(Seq(D)), NEW s \in Seq(Seq(D)), NEW x \in Seq(D),
         Reads(D, s, v, x), Ended(D, x), NEW f, f = Cat(u, v), NEW j \in Nat, Sized(u, j)
  PROVE  StandsBehind(s, f, j)
<1>1. PICK h \in Nat : Sized(s, h)
  BY LenProperties DEF Sized
<1>2. PICK n \in Nat : n = j + h
  OBVIOUS
<1>3. f \in Seq(Seq(D)) /\ h # 0 /\ n \in 1..Len(f)
  BY <1>1, <1>2, ReadsAt
<1>4. AllButLast(f, j, s, h)
  BY <1>1, <1>2, ReadsAt
<1>5. Rests(D, s[h], f, n, x)
  BY <1>1, <1>2, ReadsAt
<1>6. f[n] = s[h]
  BY <1>5 DEF Rests, Ended
<1>7. \A i \in 1..h : f[j + i] = s[i]
  <2> SUFFICES ASSUME NEW i \in 1..h PROVE f[j + i] = s[i]
    OBVIOUS
  <2>1. i = h \/ i \in 1..(h - 1)
    OBVIOUS
  <2> QED BY <1>2, <1>4, <1>6, <2>1 DEF AllButLast
<1>8. PICK l \in Nat : l = Len(f)
  BY <1>3, LenProperties
<1>9. j + h <= l
  BY <1>2, <1>3, <1>8
<1> QED BY <1>1, <1>7, <1>8, <1>9 DEF StandsBehind, Sized

\* The part of a glob for the words of a tail.
TailPart(s, t) ==
  \/ t = Cat(Blank, Join(s))
  \/ t = Cat(Blank, Cat(Hole, Cat(Blank, Join(s))))

\* What the part for a tail matches.
LEMMA TailPartIs ==
  ASSUME NEW D, Space \in D, Star \in D, NEW q \in Seq(D), Free(q, Star), NEW s, q = Join(s), NEW t, TailPart(s, t)
  PROVE  /\ t \in Seq(D)
         /\ \A b \in Seq(D) : Glob(t, b) =>
              \/ b = Cat(Blank, q)
              \/ \E m \in Seq(D) : b = Cat(Blank, Between(m, q))
<1>1. PICK e \in Seq(D) : e = Cat(Blank, q) /\ Free(e, Star)
  <2>1. Cat(Blank, q) \in Seq(D) /\ Free(Cat(Blank, q), Star)
    BY BetweenFree
  <2> QED BY <2>1
<1>2. Blank \in Seq(D) /\ Free(Blank, Star) /\ Hole \in Seq(D)
  BY BlankIs DEF Hole
<1>3. CASE t = e
  BY <1>1, <1>3, PlainGlob
<1>4. CASE t = Cat(Blank, Cat(Hole, e))
  <2>1. t \in Seq(D)
    BY <1>2, <1>4, Texts
  <2>2. ASSUME NEW b \in Seq(D), Glob(t, b)
        PROVE  \E m \in Seq(D) : b = Cat(Blank, Between(m, q))
    <3>1. PICK a \in Seq(D), m \in Seq(D), d \in Seq(D) : b = Cat(a, Cat(m, d)) /\ Glob(Blank, a) /\ Glob(e, d)
      <4>1. Glob(Cat(Blank, Cat(Hole, e)), b)
        BY <1>4, <2>2
      <4> QED BY <1>2, <4>1, HoleParts
    <3>2. a = Blank
      BY <1>2, <3>1, PlainGlob
    <3>3. d = e
      BY <1>1, <3>1, PlainGlob
    <3>4. b = Cat(Blank, Between(m, q))
      BY <1>1, <3>1, <3>2, <3>3 DEF Between
    <3> QED BY <3>4
  <2> QED BY <2>1, <2>2
<1> QED BY <1>1, <1>3, <1>4 DEF TailPart

\* Words that joined words have, at their beginning or further on, stand in them.
LEMMA WordsStand ==
  ASSUME NEW D, Space \in D, NEW s, Worded(D, s), NEW q \in Seq(D), q = Join(s), NEW f, Worded(D, f),
         NEW x \in Seq(D), Ended(D, x),
         Join(f) = Cat(q, x) \/ \E m \in Seq(D) : Join(f) = Cat(Between(m, q), x)
  PROVE  \E j \in Nat : StandsBehind(s, f, j)
<1>1. s \in Seq(Seq(D)) /\ f \in Seq(Seq(D))
  BY DEF Worded
<1>2. CASE Join(f) = Cat(q, x)
  <2>1. Reads(D, s, f, x)
    BY <1>2, WordsBegin
  <2>2. PICK e \in Seq(Seq(D)) : Sized(e, 0) /\ f = Cat(e, f)
    <3>1. <<>> \in Seq(Seq(D)) /\ Len(<<>>) = 0
      OBVIOUS
    <3>2. Cat(<<>>, f) = f
      BY <1>1, Texts
    <3> QED BY <3>1, <3>2 DEF Sized
  <2>3. Sized(e, 0) /\ f = Cat(e, f) /\ 0 \in Nat
    BY <2>2
  <2>4. StandsBehind(s, f, 0)
    BY <1>1, <2>1, <2>3, ReadsWhole
  <2> QED BY <2>4
<1>3. CASE \E m \in Seq(D) : Join(f) = Cat(Between(m, q), x)
  <2>1. PICK m \in Seq(D) : Join(f) = Cat(Between(m, q), x)
    BY <1>3
  <2>2. PICK y \in Seq(D) : y = Cat(q, x)
    BY Texts
  <2>3. Join(f) = Between(m, y)
    <3>1. Cat(Between(m, q), x) = Between(m, Cat(q, x))
      BY BetweenIs
    <3> QED BY <2>1, <2>2, <3>1
  <2>4. PICK u \in Seq(Seq(D)), v \in Seq(Seq(D)) : Worded(D, v) /\ f = Cat(u, v) /\ y = Join(v)
    <3>1. Parted(D, f, m, y)
      BY <2>3, WordsSplit
    <3>2. PICK u, v : Worded(D, u) /\ Worded(D, v) /\ f = u \o v /\ m = Join(u) /\ y = Join(v)
      BY <3>1 DEF Parted
    <3> QED BY <3>2 DEF Worded, Cat
  <2>5. Reads(D, s, v, x)
    <3>1. Join(v) = Cat(Join(s), x)
      BY <2>2, <2>4
    <3> QED BY <2>4, <3>1, WordsBegin
  <2>6. PICK j \in Nat : Sized(u, j)
    BY LenProperties DEF Sized
  <2>7. StandsBehind(s, f, j)
    BY <1>1, <2>4, <2>5, <2>6, ReadsWhole
  <2> QED BY <2>7
<1> QED BY <1>2, <1>3

\* Where what is behind a head begins as the part for a tail has it, that tail
\* follows the head.
LEMMA TailRead ==
  ASSUME NEW D, Space \in D, Star \in D, NEW V, Spaceless(D, V), NEW r, IsRule(r, V), NEW s \in r.tail, s # <<>>,
         NEW t, TailPart(s, t), NEW b \in Seq(D), Glob(t, b), NEW x \in Seq(D), Ended(D, x),
         NEW c, Worded(D, c), NEW n \in 1..Len(c), Behind(c, n) = Cat(b, x)
  PROVE  TailFollows(r, c, n)
<1>1. c \in Seq(Seq(D))
  BY DEF Worded
<1>2. s \in Seq(V) /\ s \in Seq(Seq(D))
  <2>1. V \subseteq Seq(D)
    BY SpacelessRule
  <2>2. s \in Seq(V)
    BY DEF IsRule
  <2> QED BY <2>1, <2>2, SeqMonotonic
<1>3. PICK q \in Seq(D) : q = Join(s) /\ Free(q, Star)
  <2>1. Join(s) \in Seq(D) /\ Free(Join(s), Star)
    BY <1>2, SpacelessWords
  <2> QED BY <2>1
<1>4. Worded(D, s)
  BY <1>2, SpacelessWords
<1>5. b = Cat(Blank, q) \/ \E m \in Seq(D) : b = Cat(Blank, Between(m, q))
  BY <1>3, TailPartIs
<1>6. PICK y \in Seq(D) : b = Cat(Blank, y) /\ (y = q \/ \E m \in Seq(D) : y = Between(m, q))
  <2>1. \A m \in Seq(D) : Between(m, q) \in Seq(D)
    BY BetweenIs
  <2> QED BY <1>5, <2>1
<1>7. PICK z \in Seq(D) : z = Cat(y, x) /\ Behind(c, n) = Cat(Blank, z)
  <2>1. Blank \in Seq(D)
    BY BlankIs
  <2>2. Cat(Cat(Blank, y), x) = Cat(Blank, Cat(y, x)) /\ Cat(y, x) \in Seq(D)
    BY <2>1, Texts
  <2> QED BY <1>6, <2>2
<1>8. Behind(c, n) # <<>>
  <2>1. Len(Cat(Blank, z)) = 1 + Len(z) /\ Len(z) \in Nat
    <3>1. Len(<<Space>> \o z) = 1 + Len(z)
      BY OneBlock
    <3> QED BY <3>1, LenProperties DEF Cat, Blank
  <2>2. PICK k \in Nat : k = Len(z)
    BY <2>1
  <2>3. Len(Behind(c, n)) # 0
    BY <1>7, <2>1, <2>2
  <2>4. Len(<<>>) = 0
    OBVIOUS
  <2> QED BY <2>3, <2>4
<1>9. PICK f \in Seq(Seq(D)) : /\ f = From(c, n + 1) /\ n < Len(c) /\ Len(f) = Len(c) - n
                               /\ Behind(c, n) = Cat(Blank, Join(f)) /\ f # <<>> /\ Join(f) \in Seq(D)
                               /\ \A i \in 1..(Len(c) - n) : f[i] = c[n + i]
  <2>1. n < Len(c)
    BY <1>8 DEF Behind
  <2>2. Behind(c, n) = Cat(Blank, Join(From(c, n + 1)))
    BY <2>1 DEF Behind, Cat, Blank
  <2>3. /\ From(c, n + 1) \in Seq(Seq(D)) /\ Len(From(c, n + 1)) = Len(c) - n
        /\ \A i \in 1..(Len(c) - n) : From(c, n + 1)[i] = c[n + i]
    BY <1>1, FromIs
  <2>4. From(c, n + 1) # <<>> /\ Join(From(c, n + 1)) \in Seq(D)
    BY <1>1, <2>1, JoinCut
  <2> QED BY <2>1, <2>2, <2>3, <2>4
<1>10. Join(f) = z
  <2>1. PICK j \in Seq(D) : j = Join(f)
    BY <1>9
  <2>2. Cat(Blank, j) = Cat(Blank, z) /\ Blank \in Seq(D)
    BY <1>7, <1>9, <2>1, BlankIs
  <2>3. j = z
    BY <2>2, Texts
  <2> QED BY <2>1, <2>3
<1>11. PICK l \in Nat, k \in Nat : l = Len(c) /\ k = Len(s)
  BY <1>1, <1>2, LenProperties
<1>12. PICK p \in Nat : p = l - n /\ p = Len(f) /\ n \in Nat /\ l = n + p /\ \A i \in 1..p : f[i] = c[n + i]
  <2>1. l - n \in Nat /\ l - n = Len(f) /\ n \in Nat /\ l = n + (l - n)
    BY <1>9, <1>11
  <2> QED BY <1>9, <1>11, <2>1
<1>13. Worded(D, f)
  <2>1. ASSUME NEW i \in 1..Len(f) PROVE Free(f[i], Space)
    <3>1. n + i \in 1..Len(c) /\ f[i] = c[n + i]
      BY <1>11, <1>12
    <3> QED BY <3>1 DEF Worded
  <2> QED BY <1>9, <2>1 DEF Worded
<1>14. Join(f) = Cat(q, x) \/ \E m \in Seq(D) : Join(f) = Cat(Between(m, q), x)
  BY <1>6, <1>7, <1>10
<1>15. PICK j \in Nat : StandsBehind(s, f, j)
  BY <1>3, <1>4, <1>13, <1>14, WordsStand
<1>16. j + k <= p /\ \A i \in 1..k : f[j + i] = s[i]
  BY <1>11, <1>12, <1>15 DEF StandsBehind
<1>17. PICK o \in Nat : o = n + j /\ o + k <= l /\ \A i \in 1..k : c[o + i] = s[i]
  <2>1. n + j \in Nat /\ (n + j) + k <= l
    BY <1>12, <1>16
  <2>2. \A i \in 1..k : c[(n + j) + i] = s[i]
    <3> SUFFICES ASSUME NEW i \in 1..k PROVE c[(n + j) + i] = s[i]
      OBVIOUS
    <3>1. j + i \in 1..p /\ n + (j + i) = (n + j) + i
      BY <1>12, <1>16
    <3> QED BY <1>12, <1>16, <3>1
  <2> QED BY <2>1, <2>2
<1>18. SubSeq(c, o + 1, o + k) = s
  <2>1. o + k <= Len(c) /\ k <= Len(s)
    BY <1>11, <1>17
  <2>2. SubSeq(c, o + 1, o + k) = SubSeq(s, 1, k)
    BY <1>1, <1>2, <1>17, <2>1, SameStretch
  <2>3. SubSeq(s, 1, k) = s
    BY <1>2, <1>11, SubSeqFull
  <2> QED BY <2>2, <2>3
<1>19. o + 1 \in (n + 1)..(Len(c) - Len(s) + 1) /\ (o + 1) + Len(s) - 1 = o + k
  BY <1>11, <1>12, <1>17
<1>20. SubSeq(c, o + 1, (o + 1) + Len(s) - 1) = s
  BY <1>18, <1>19
<1> QED BY <1>19, <1>20 DEF TailFollows

\* The globs for a head and its tail, and what may follow them.
OfStem(r, options, u) ==
  IF r.tail = {} THEN OfHead(r, options, u)
  ELSE \E s \in r.tail : \E g, t : OfHead(r, options, g) /\ TailPart(s, t) /\ u = Cat(g, t)

MayFollow(D, r, x) ==
  IF r.text # {} THEN \E t \in r.text : Occurs(t, x \o <<Space>>)
  ELSE Ended(D, x) /\ (r.exact => x = <<>>)

\* A glob for a head is a text.
LEMMA OfHeadIs ==
  ASSUME NEW D, Space \in D, Star \in D, NEW V, Spaceless(D, V), NEW r, IsRule(r, V), NEW options \in SUBSET V,
         NEW g, OfHead(r, options, g)
  PROVE  g \in Seq(D)
<1>1. CASE g = Join(HeadOf(r))
  <2>1. HeadOf(r) \in Seq(V) /\ HeadOf(r) # <<>>
    BY SpacelessRule
  <2> QED BY <1>1, <2>1, SpacelessWords
<1>2. CASE r.subcommand # <<>> /\ \E o \in options :
             g = Cat(Between(r.command, o), Cat(Hole, Cat(Blank, Join(r.subcommand))))
  <2>1. PICK o \in options : g = Cat(Between(r.command, o), Cat(Hole, Cat(Blank, Join(r.subcommand))))
    BY <1>2
  <2>2. r.command \in Seq(D) /\ o \in Seq(D) /\ r.subcommand \in Seq(V)
    <3>1. V \subseteq Seq(D)
      BY SpacelessRule
    <3> QED BY <3>1 DEF IsRule
  <2>3. PICK s \in Seq(D) : s = Join(r.subcommand)
    <3>1. Join(r.subcommand) \in Seq(D)
      BY <1>2, <2>2, SpacelessWords
    <3> QED BY <3>1
  <2>4. PICK w \in Seq(D), e \in Seq(D) : w = Between(r.command, o) /\ e = Cat(Blank, s)
    <3>1. Between(r.command, o) \in Seq(D)
      BY <2>2, BetweenIs
    <3>2. Cat(Blank, s) \in Seq(D)
      BY BetweenIs
    <3> QED BY <3>1, <3>2
  <2>5. Hole \in Seq(D)
    BY DEF Hole
  <2>6. Cat(Hole, e) \in Seq(D)
    BY <2>5, Texts
  <2>7. Cat(w, Cat(Hole, e)) \in Seq(D)
    BY <2>6, Texts
  <2> QED BY <2>1, <2>3, <2>4, <2>7
<1> QED BY <1>1, <1>2 DEF OfHead

\* Nothing is behind the last word only.
LEMMA NothingBehind ==
  ASSUME NEW D, Space \in D, NEW c \in Seq(Seq(D)), NEW n \in 1..Len(c), Behind(c, n) = <<>>
  PROVE  n = Len(c)
<1>1. PICK l \in Nat : l = Len(c)
  BY LenProperties
<1> SUFFICES ASSUME n < l PROVE FALSE
  BY <1>1
<1>2. PICK q \in Seq(D) : q = Join(From(c, n + 1))
  <2>1. Join(From(c, n + 1)) \in Seq(D)
    BY <1>1, JoinCut
  <2> QED BY <2>1
<1>3. Behind(c, n) = <<Space>> \o q
  BY <1>1, <1>2 DEF Behind
<1>4. Len(<<Space>> \o q) = 1 + Len(q) /\ Len(q) \in Nat
  BY OneBlock, LenProperties
<1>5. PICK k \in Nat : k = Len(q)
  BY <1>4
<1>6. Len(<<>>) = 0
  OBVIOUS
<1>7. Len(Behind(c, n)) = 0
  BY <1>6
<1>8. Len(Behind(c, n)) = 1 + Len(q)
  BY <1>3, <1>4
<1> QED BY <1>5, <1>7, <1>8

\* A head without a tail, and what fits behind it: the rule matches.
LEMMA HeadMatches ==
  ASSUME NEW D, Space \in D, Star \in D, NEW V, Spaceless(D, V), NEW r, IsRule(r, V), r.tail = {}, NEW options,
         NEW c, Worded(D, c), NEW x \in Seq(D), MayFollow(D, r, x),
         NEW n \in 1..Len(c), HeadEndsAt(r, c, options, n), Rests(D, Last(HeadOf(r)), c, n, x)
  PROVE  MatchesBare(r, c, options, FALSE)
<1>1. c \in Seq(Seq(D)) /\ n \in DOMAIN c
  BY LenProperties DEF Worded
<1>2. CASE r.text # {}
  <2>1. x = From(c[n], Len(Last(HeadOf(r))) + 1) \o Behind(c, n)
    BY DEF Rests
  <2>2. PICK t \in r.text : Occurs(t, x \o <<Space>>)
    BY <1>2 DEF MayFollow
  <2>3. \E v \in r.text : Occurs(v, (From(c[n], Len(Last(HeadOf(r))) + 1) \o Behind(c, n)) \o <<Space>>)
    BY <2>1, <2>2
  <2> QED BY <1>1, <1>2, <2>3 DEF MatchesBare, Behind
<1>3. CASE r.text = {}
  <2>1. Ended(D, x) /\ (r.exact => x = <<>>)
    BY <1>3 DEF MayFollow
  <2>2. c[n] = Last(HeadOf(r)) /\ x = Behind(c, n)
    BY <2>1 DEF Rests, Ended
  <2>3. r.exact => n = Len(c)
    BY <1>1, <2>1, <2>2, NothingBehind
  <2>4. HeadIsWhole(r, c, n)
    BY <2>2 DEF HeadIsWhole
  <2> QED BY <1>1, <1>3, <2>3, <2>4 DEF MatchesBare
<1> QED BY <1>2, <1>3

\* What a stem of a rule's globs matches, with what fits behind it, the rule
\* matches, its head perhaps fused with a text.
LEMMA StemRead ==
  ASSUME NEW D, Space \in D, Star \in D, NEW V, Spaceless(D, V), NEW r, RuleOver(D, V, r), NEW options \in SUBSET V,
         NEW u, OfStem(r, options, u), NEW a \in Seq(D), Glob(u, a), NEW x \in Seq(D), MayFollow(D, r, x),
         NEW c, Worded(D, c), Join(c) = Cat(a, x)
  PROVE  MatchesBare(r, c, options, FALSE)
<1>1. IsRule(r, V) /\ c \in Seq(Seq(D))
  BY DEF RuleOver, Worded
<1>2. CASE r.tail = {}
  <2>1. OfHead(r, options, u)
    BY <1>2 DEF OfStem
  <2>2. PICK n \in 1..Len(c) : HeadEndsAt(r, c, options, n) /\ Rests(D, Last(HeadOf(r)), c, n, x)
    BY <1>1, <2>1, HeadRead
  <2> QED BY <1>1, <1>2, <2>2, HeadMatches
<1>3. CASE r.tail # {}
  <2>1. r.text = {} /\ ~r.exact /\ Ended(D, x)
    <3>1. r.text = {} /\ ~r.exact
      BY <1>3 DEF RuleOver
    <3> QED BY <3>1 DEF MayFollow
  <2>2. PICK s \in r.tail : \E g, t : OfHead(r, options, g) /\ TailPart(s, t) /\ u = Cat(g, t)
    BY <1>3 DEF OfStem
  <2>3. PICK g, t : OfHead(r, options, g) /\ TailPart(s, t) /\ u = Cat(g, t)
    BY <2>2
  <2>4. s # <<>> /\ s \in Seq(V)
    BY DEF RuleOver, IsRule
  <2>5. PICK q \in Seq(D) : q = Join(s) /\ Free(q, Star)
    <3>1. Join(s) \in Seq(D) /\ Free(Join(s), Star)
      BY <2>4, SpacelessWords
    <3> QED BY <3>1
  <2>6. g \in Seq(D)
    BY <1>1, <2>3, OfHeadIs
  <2>7. t \in Seq(D)
    BY <2>3, <2>5, TailPartIs
  <2>8. PICK y \in Seq(D), b \in Seq(D) : a = Cat(y, b) /\ Glob(g, y) /\ Glob(t, b)
    <3>1. Glob(Cat(g, t), a)
      BY <2>3
    <3> QED BY <2>6, <2>7, <3>1, GlobParts
  <2>9. b = Cat(Blank, q) \/ \E m \in Seq(D) : b = Cat(Blank, Between(m, q))
    BY <2>3, <2>5, <2>8, TailPartIs
  <2>10. PICK z \in Seq(D) : b = Cat(Blank, z)
    <3>1. \A m \in Seq(D) : Between(m, q) \in Seq(D)
      BY BetweenIs
    <3> QED BY <2>9, <3>1
  <2>11. PICK e \in Seq(D) : e = Cat(b, x) /\ Ended(D, e) /\ Join(c) = Cat(y, e)
    <3>1. Blank \in Seq(D)
      BY BlankIs
    <3>2. Cat(Cat(Blank, z), x) = Cat(Blank, Cat(z, x)) /\ Cat(z, x) \in Seq(D)
      BY <3>1, Texts
    <3>3. Cat(Cat(y, b), x) = Cat(y, Cat(b, x)) /\ Cat(b, x) \in Seq(D)
      BY Texts
    <3>4. Ended(D, Cat(b, x))
      BY <2>10, <3>2 DEF Ended
    <3> QED BY <2>8, <3>3, <3>4
  <2>12. PICK n \in 1..Len(c) : HeadEndsAt(r, c, options, n) /\ Rests(D, Last(HeadOf(r)), c, n, e)
    BY <1>1, <2>3, <2>8, <2>11, HeadRead
  <2>13. c[n] = Last(HeadOf(r)) /\ e = Behind(c, n)
    BY <2>11, <2>12 DEF Rests, Ended
  <2>14. TailFollows(r, c, n)
    <3>1. Behind(c, n) = Cat(b, x)
      BY <2>11, <2>13
    <3> QED BY <1>1, <2>1, <2>3, <2>4, <2>8, <3>1, TailRead
  <2>15. HeadIsWhole(r, c, n)
    BY <2>13 DEF HeadIsWhole
  <2>16. n \in DOMAIN c
    BY <1>1, LenProperties
  <2> QED BY <2>1, <2>12, <2>14, <2>15, <2>16 DEF MatchesBare, TailFollows
<1> QED BY <1>2, <1>3

\* The globs for a rule's heads are those for the heads alone, behind the prefix.
LEMMA HeadsBehind ==
  ASSUME NEW D, Space \in D, Star \in D, NEW V, Spaceless(D, V), NEW r, IsRule(r, V), NEW options \in SUBSET V,
         NEW prefix \in Seq(D), NEW h \in GlobHeads(r, options, prefix)
  PROVE  \E g \in Seq(D) : OfHead(r, options, g) /\ h = Cat(prefix, g)
<1>1. CASE h = prefix \o Join(HeadOf(r))
  <2>1. OfHead(r, options, Join(HeadOf(r)))
    BY DEF OfHead
  <2>2. Join(HeadOf(r)) \in Seq(D)
    BY <2>1, OfHeadIs
  <2> QED BY <1>1, <2>1, <2>2 DEF Cat
<1>2. CASE r.subcommand # <<>> /\ \E o \in options :
             h = prefix \o r.command \o <<Space>> \o o \o <<Star, Space>> \o Join(r.subcommand)
  <2>1. PICK o \in options : h = prefix \o r.command \o <<Space>> \o o \o <<Star, Space>> \o Join(r.subcommand)
    BY <1>2
  <2>2. r.command \in Seq(D) /\ o \in Seq(D) /\ r.subcommand \in Seq(V)
    <3>1. V \subseteq Seq(D)
      BY SpacelessRule
    <3> QED BY <3>1 DEF IsRule
  <2>3. PICK s \in Seq(D), w \in Seq(D) : s = Join(r.subcommand) /\ w = r.command
    <3>1. Join(r.subcommand) \in Seq(D)
      BY <1>2, <2>2, SpacelessWords
    <3> QED BY <2>2, <3>1
  <2>4. PICK k \in Seq(D), l \in Seq(D) : k = Blank /\ l = Hole
    <3>1. Blank \in Seq(D) /\ Hole \in Seq(D)
      BY DEF Blank, Hole
    <3> QED BY <3>1
  <2>5. PICK e \in Seq(D) : e = Cat(l, k) /\ e = <<Star, Space>>
    <3>1. Cat(l, k) \in Seq(D)
      BY Texts
    <3>2. Cat(l, k) = <<Star, Space>>
      BY <2>4, TwoAre DEF Cat, Hole, Blank
    <3> QED BY <3>1, <3>2
  <2>6. PICK p1 \in Seq(D) : p1 = Cat(prefix, w)
    BY Texts
  <2>7. PICK p2 \in Seq(D) : p2 = Cat(p1, k)
    BY Texts
  <2>8. PICK p3 \in Seq(D) : p3 = Cat(p2, o)
    BY <2>2, Texts
  <2>9. h = Cat(Cat(p3, e), s)
    BY <2>1, <2>3, <2>4, <2>5, <2>6, <2>7, <2>8 DEF Cat, Blank
  <2>10. PICK f \in Seq(D) : f = Cat(l, Cat(k, s)) /\ f = Cat(e, s)
    <3>1. Cat(Cat(l, k), s) = Cat(l, Cat(k, s)) /\ Cat(e, s) \in Seq(D)
      BY Texts
    <3> QED BY <2>5, <3>1
  <2>11. h = Cat(p3, f)
    BY <2>9, <2>10, Texts
  <2>12. PICK x \in Seq(D) : x = Cat(w, Cat(k, o)) /\ p3 = Cat(prefix, x)
    <3>1. PICK y \in Seq(D) : y = Cat(k, o)
      BY <2>2, Texts
    <3>2. p3 = Cat(p1, y)
      BY <2>2, <2>7, <2>8, <3>1, Texts
    <3>3. Cat(Cat(prefix, w), y) = Cat(prefix, Cat(w, y)) /\ Cat(w, y) \in Seq(D)
      BY Texts
    <3> QED BY <2>6, <3>1, <3>2, <3>3
  <2>13. h = Cat(prefix, Cat(x, f)) /\ Cat(x, f) \in Seq(D)
    BY <2>11, <2>12, Texts
  <2>14. x = Between(r.command, o)
    BY <2>3, <2>4, <2>12 DEF Between
  <2>15. OfHead(r, options, Cat(x, f))
    BY <1>2, <2>3, <2>4, <2>10, <2>14 DEF OfHead
  <2> QED BY <2>13, <2>15
<1>3. GlobHeads(r, options, prefix) =
        {prefix \o Join(HeadOf(r))} \cup
        (IF r.subcommand = <<>> THEN {}
         ELSE {prefix \o r.command \o <<Space>> \o o \o <<Star, Space>> \o Join(r.subcommand) : o \in options})
  BY DEF GlobHeads
<1>4. \/ h = prefix \o Join(HeadOf(r))
      \/ r.subcommand # <<>> /\ \E o \in options :
             h = prefix \o r.command \o <<Space>> \o o \o <<Star, Space>> \o Join(r.subcommand)
  BY <1>3
<1> QED BY <1>1, <1>2, <1>4

\* The three characters of a gap for words.
LEMMA GapIs ==
  ASSUME NEW D, Space \in D, Star \in D
  PROVE  <<Space, Star, Space>> = Cat(Blank, Cat(Hole, Blank))
<1>1. PICK b \in Seq(D), s \in Seq(D) : b = <<Space>> /\ s = <<Star>>
  <2>1. <<Space>> \in Seq(D) /\ <<Star>> \in Seq(D)
    OBVIOUS
  <2> QED BY <2>1
<1>2. <<Space, Star, Space>> = <<Space>> \o <<Star>> \o <<Space>>
  OBVIOUS
<1>3. Cat(Cat(b, s), b) = Cat(b, Cat(s, b))
  BY Texts
<1> QED BY <1>1, <1>2, <1>3 DEF Cat, Blank, Hole

\* So are those for its stems.
LEMMA StemsBehind ==
  ASSUME NEW D, Space \in D, Star \in D, NEW V, Spaceless(D, V), NEW r, IsRule(r, V), <<>> \notin r.tail,
         NEW options \in SUBSET V, NEW prefix \in Seq(D), NEW u \in StemsOf(r, options, prefix)
  PROVE  \E v \in Seq(D) : OfStem(r, options, v) /\ u = Cat(prefix, v)
<1>1. CASE r.tail = {}
  <2>1. u \in GlobHeads(r, options, prefix)
    BY <1>1 DEF StemsOf
  <2>2. PICK g \in Seq(D) : OfHead(r, options, g) /\ u = Cat(prefix, g)
    BY <2>1, HeadsBehind
  <2> QED BY <1>1, <2>2 DEF OfStem
<1>2. CASE r.tail # {}
  <2>1. u \in {Tailed(h, s, gap) : h \in GlobHeads(r, options, prefix), s \in r.tail, gap \in Gaps}
    BY <1>2 DEF StemsOf
  <2>2. PICK h \in GlobHeads(r, options, prefix), s \in r.tail, gap \in Gaps : u = Tailed(h, s, gap)
    BY <2>1
  <2>3. PICK g \in Seq(D) : OfHead(r, options, g) /\ h = Cat(prefix, g)
    BY <2>2, HeadsBehind
  <2>4. PICK q \in Seq(D) : q = Join(s)
    <3>1. s \in Seq(V) /\ s # <<>>
      BY <2>2 DEF IsRule
    <3>2. Join(s) \in Seq(D)
      BY <3>1, SpacelessWords
    <3> QED BY <3>2
  <2>5. PICK k \in Seq(D), l \in Seq(D) : k = Blank /\ l = Hole
    <3>1. Blank \in Seq(D) /\ Hole \in Seq(D)
      BY DEF Blank, Hole
    <3> QED BY <3>1
  <2>6. PICK d \in Seq(D) : d = gap /\ (d = k \/ d = Cat(k, Cat(l, k)))
    <3>1. Cat(k, Cat(l, k)) \in Seq(D)
      <4>1. Cat(l, k) \in Seq(D)
        BY Texts
      <4> QED BY <4>1, Texts
    <3>2. gap = <<Space>> \/ gap = <<Space, Star, Space>>
      BY <2>2 DEF Gaps
    <3>3. gap = k \/ gap = Cat(k, Cat(l, k))
      BY <2>5, <3>2, GapIs DEF Blank
    <3> QED BY <3>1, <3>3
  <2>7. PICK t \in Seq(D) : t = Cat(d, q)
    BY Texts
  <2>8. TailPart(s, t)
    <3>1. CASE d = k
      BY <2>4, <2>5, <2>7, <3>1 DEF TailPart
    <3>2. CASE d = Cat(k, Cat(l, k))
      <4>1. PICK e \in Seq(D) : e = Cat(l, k)
        BY Texts
      <4>2. Cat(Cat(k, e), q) = Cat(k, Cat(e, q)) /\ Cat(Cat(l, k), q) = Cat(l, Cat(k, q))
        BY Texts
      <4>3. t = Cat(k, Cat(l, Cat(k, q)))
        BY <2>7, <3>2, <4>1, <4>2
      <4> QED BY <2>4, <2>5, <4>3 DEF TailPart
    <3> QED BY <2>6, <3>1, <3>2
  <2>9. u = Cat(prefix, Cat(g, t)) /\ Cat(g, t) \in Seq(D)
    <3>1. u = Cat(Cat(Cat(prefix, g), d), q)
      BY <2>2, <2>3, <2>4, <2>6 DEF Tailed, Cat
    <3>2. PICK y \in Seq(D) : y = Cat(prefix, g)
      BY Texts
    <3>3. Cat(Cat(y, d), q) = Cat(y, t)
      BY <2>7, Texts
    <3>4. Cat(Cat(prefix, g), t) = Cat(prefix, Cat(g, t)) /\ Cat(g, t) \in Seq(D)
      BY Texts
    <3> QED BY <3>1, <3>2, <3>3, <3>4
  <2>10. OfStem(r, options, Cat(g, t))
    BY <1>2, <2>3, <2>8 DEF OfStem
  <2> QED BY <2>9, <2>10
<1> QED BY <1>1, <1>2

\* A text occurs in what it is put between two others into.
LEMMA OccursWithin ==
  ASSUME NEW D, NEW t \in Seq(D), NEW m \in Seq(D), NEW e \in Seq(D), NEW w, w = Cat(m, Cat(t, e))
  PROVE  Occurs(t, w)
<1>1. PICK i \in Nat, j \in Nat, k \in Nat : i = Len(m) /\ j = Len(t) /\ k = Len(e)
  BY LenProperties
<1>2. PICK y \in Seq(D) : y = Cat(t, e) /\ Len(y) = j + k /\ \A n \in 1..j : y[n] = t[n]
  <2>1. /\ t \o e \in Seq(D) /\ Len(t \o e) = Len(t) + Len(e)
        /\ \A n \in 1..Len(t) : (t \o e)[n] = t[n]
    BY Parts
  <2> QED BY <1>1, <2>1 DEF Cat
<1>3. w \in Seq(D) /\ Len(w) = i + (j + k) /\ \A n \in 1..(j + k) : w[i + n] = y[n]
  <2>1. /\ Cat(m, y) \in Seq(D) /\ Len(Cat(m, y)) = i + (j + k)
        /\ \A n \in 1..(j + k) : Cat(m, y)[i + n] = y[n]
    BY <1>1, <1>2, Parts DEF Cat
  <2> QED BY <1>2, <2>1
<1>4. \A n \in 1..j : w[i + n] = t[n]
  BY <1>2, <1>3
<1>5. SubSeq(w, i + 1, i + j) = t
  <2>1. i + j <= Len(w) /\ j <= Len(t)
    BY <1>1, <1>3
  <2>2. SubSeq(w, i + 1, i + j) = SubSeq(t, 1, j)
    BY <1>3, <1>4, <2>1, SameStretch
  <2>3. SubSeq(t, 1, j) = t
    BY <1>1, SubSeqFull
  <2> QED BY <2>2, <2>3
<1>6. i + 1 \in 1..(Len(w) - Len(t) + 1) /\ (i + 1) + Len(t) - 1 = i + j
  BY <1>1, <1>3
<1>7. SubSeq(w, i + 1, (i + 1) + Len(t) - 1) = t
  BY <1>5, <1>6
<1> QED BY <1>6, <1>7 DEF Occurs

\* What the globs for a text match, after the stem.
LEMMA TextRead ==
  ASSUME NEW D, Space \in D, Star \in D, NEW s \in Seq(D), NEW t \in Seq(D), t # <<>>, Free(t, Star), NEW w \in Seq(D),
         Glob(Texted(s, t), w) \/ (Last(t) = Space /\ Glob(TextEnds(s, t), w))
  PROVE  \E y \in Seq(D), x \in Seq(D) : w = Cat(y, x) /\ Glob(s, y) /\ Occurs(t, x \o <<Space>>)
<1>1. PICK k \in Seq(D), l \in Seq(D) : k = Blank /\ l = Hole
  <2>1. Blank \in Seq(D) /\ Hole \in Seq(D)
    BY DEF Blank, Hole
  <2> QED BY <2>1
<1>2. CASE Glob(Texted(s, t), w)
  <2>1. PICK p \in Seq(D) : p = Cat(t, l)
    BY Texts
  <2>2. Texted(s, t) = Cat(s, Cat(Hole, p))
    <3>1. PICK q \in Seq(D) : q = Cat(s, l)
      BY Texts
    <3>2. Texted(s, t) = Cat(Cat(q, t), l)
      BY <1>1, <3>1 DEF Texted, Cat, Hole
    <3>3. Cat(Cat(q, t), l) = Cat(q, Cat(t, l))
      BY Texts
    <3>4. Cat(Cat(s, l), p) = Cat(s, Cat(l, p))
      BY Texts
    <3> QED BY <1>1, <2>1, <3>1, <3>2, <3>3, <3>4
  <2>3. PICK y \in Seq(D), m \in Seq(D), d \in Seq(D) : w = Cat(y, Cat(m, d)) /\ Glob(s, y) /\ Glob(p, d)
    <3>1. Glob(Cat(s, Cat(Hole, p)), w)
      BY <1>2, <2>2
    <3> QED BY <3>1, HoleParts
  <2>4. PICK a \in Seq(D), b \in Seq(D) : d = Cat(a, b) /\ Glob(t, a)
    <3>1. Glob(Cat(t, l), d)
      BY <2>1, <2>3
    <3> QED BY <3>1, GlobParts
  <2>5. a = t
    BY <2>4, PlainGlob
  <2>6. PICK x \in Seq(D) : x = Cat(m, d)
    BY Texts
  <2>7. Occurs(t, x \o <<Space>>)
    <3>1. PICK e \in Seq(D) : e = Cat(b, k)
      BY Texts
    <3>2. Cat(d, k) = Cat(t, e)
      BY <2>4, <2>5, <3>1, Texts
    <3>3. Cat(x, k) = Cat(m, Cat(d, k))
      BY <2>6, Texts
    <3>4. Occurs(t, Cat(x, k))
      BY <3>2, <3>3, OccursWithin
    <3> QED BY <1>1, <3>4 DEF Cat, Blank
  <2> QED BY <2>3, <2>6, <2>7
<1>3. CASE Last(t) = Space /\ Glob(TextEnds(s, t), w)
  <2>1. PICK b \in Seq(D), e \in D : t = b \o <<e>>
    <3>1. PICK b \in Seq(D), e \in D : t = Append(b, e)
      BY SequenceEmptyOrAppend
    <3>2. t = b \o <<e>>
      BY <3>1, AppendIsConcat
    <3> QED BY <3>2
  <2>2. <<e>> \in Seq(D) /\ Len(<<e>>) = 1 /\ <<e>>[1] = e
    OBVIOUS
  <2>3. Front(t) = b
    BY <2>1, <2>2, Stripped
  <2>4. PICK i \in Nat : i = Len(b) /\ Len(t) = i + 1 /\ t[i + 1] = e /\ \A n \in 1..i : t[n] = b[n]
    <3>1. PICK i \in Nat : i = Len(b)
      BY LenProperties
    <3>2. PICK v \in Seq(D) : v = <<e>> /\ Len(v) = 1 /\ v[1] = e
      BY <2>2
    <3>3. Len(b \o v) = i + 1 /\ (\A n \in 1..i : (b \o v)[n] = b[n]) /\ \A n \in 1..1 : (b \o v)[i + n] = v[n]
      BY <3>1, <3>2, Parts
    <3>4. 1 \in 1..1
      OBVIOUS
    <3>5. Len(t) = i + 1 /\ t[i + 1] = e /\ \A n \in 1..i : t[n] = b[n]
      BY <2>1, <3>2, <3>3, <3>4
    <3> QED BY <3>1, <3>5
  <2>5. e = Space
    BY <1>3, <2>4 DEF Last
  <2>6. t = Cat(b, k)
    BY <1>1, <2>1, <2>5 DEF Cat, Blank
  <2>7. Free(b, Star)
    <3>1. \A n \in 1..i : n \in 1..Len(t)
      BY <2>4
    <3> QED BY <2>4, <3>1 DEF Free
  <2>8. TextEnds(s, t) = Cat(s, Cat(Hole, b))
    <3>1. Cat(Cat(s, l), b) = Cat(s, Cat(l, b))
      BY Texts
    <3> QED BY <1>1, <2>3, <3>1 DEF TextEnds, Cat, Hole
  <2>9. PICK y \in Seq(D), m \in Seq(D), d \in Seq(D) : w = Cat(y, Cat(m, d)) /\ Glob(s, y) /\ Glob(b, d)
    <3>1. Glob(Cat(s, Cat(Hole, b)), w)
      BY <1>3, <2>8
    <3> QED BY <3>1, HoleParts
  <2>10. d = b
    BY <2>7, <2>9, PlainGlob
  <2>11. PICK x \in Seq(D) : x = Cat(m, d)
    BY Texts
  <2>12. Occurs(t, x \o <<Space>>)
    <3>1. PICK n \in Seq(D) : n = <<>>
      <4>1. <<>> \in Seq(D)
        OBVIOUS
      <4> QED BY <4>1
    <3>2. Cat(x, k) = Cat(m, t)
      BY <2>6, <2>10, <2>11, Texts
    <3>3. Cat(t, n) = t
      BY <3>1, Texts
    <3>4. Cat(x, k) = Cat(m, Cat(t, n))
      BY <3>2, <3>3
    <3>5. Occurs(t, Cat(x, k))
      BY <3>4, OccursWithin
    <3> QED BY <1>1, <3>5 DEF Cat, Blank
  <2> QED BY <2>9, <2>11, <2>12
<1> QED BY <1>2, <1>3

\* What a stem with a hole behind it matches, or alone on the tools that take the
\* hole for nothing.
LEMMA SpacedRead ==
  ASSUME NEW D, Space \in D, Star \in D, NEW s \in Seq(D), NEW tool, NEW c, Join(c) \in Seq(D),
         Suits(tool, s \o <<Space, Star>>, c)
  PROVE  \E y \in Seq(D), x \in Seq(D) : Glob(s, y) /\ Join(c) = Cat(y, x) /\ Ended(D, x)
<1> DEFINE v == <<Space, Star>>
           p == s \o v
<1>1. v \in Seq(D) /\ Len(v) = 2
  OBVIOUS
<1>2. BareForm(p) = s
  BY <1>1, Stripped
<1>3. PICK k \in Seq(D), l \in Seq(D) : k = Blank /\ l = Hole /\ v = Cat(k, l)
  <2>1. Blank \in Seq(D) /\ Hole \in Seq(D)
    BY DEF Blank, Hole
  <2>2. v = Cat(Blank, Hole)
    BY TwoAre DEF Cat, Blank, Hole
  <2> QED BY <2>1, <2>2
<1>4. PICK w \in Seq(D) : w = Join(c)
  OBVIOUS
<1> HIDE DEF v
<1>5. CASE Glob(p, w)
  <2>1. PICK y \in Seq(D), b \in Seq(D) : w = Cat(y, b) /\ Glob(s, y) /\ Glob(v, b)
    <3>1. Glob(Cat(s, v), w)
      BY <1>5 DEF Cat
    <3> QED BY <1>1, <3>1, GlobParts
  <2>2. PICK a \in Seq(D), z \in Seq(D) : b = Cat(a, z) /\ Glob(k, a)
    <3>1. Glob(Cat(k, l), b)
      BY <1>3, <2>1
    <3> QED BY <3>1, GlobParts
  <2>3. a = Blank
    <3>1. Free(k, Star)
      BY <1>3, BlankIs
    <3> QED BY <1>3, <2>2, <3>1, PlainGlob
  <2>4. Ended(D, b)
    BY <2>2, <2>3 DEF Ended
  <2> QED BY <1>4, <2>1, <2>4
<1>6. CASE Glob(BareForm(p), w)
  <2>1. PICK x \in Seq(D) : x = <<>>
    <3>1. <<>> \in Seq(D)
      OBVIOUS
    <3> QED BY <3>1
  <2>2. Cat(w, x) = w
    BY <2>1, Texts
  <2>3. Glob(s, w) /\ Ended(D, x)
    BY <1>2, <1>6, <2>1 DEF Ended
  <2> QED BY <1>4, <2>2, <2>3
<1>7. Glob(p, w) \/ Glob(BareForm(p), w)
  <2>1. Suits(tool, p, c)
    BY DEF v
  <2> HIDE DEF p
  <2> QED BY <1>4, <2>1 DEF Suits, BareForm
<1> QED BY <1>5, <1>6, <1>7

\* A stem alone.
LEMMA StemAlone ==
  ASSUME NEW D, NEW s, Stemmed(D, s), NEW tool, NEW c, Join(c) \in Seq(D), Suits(tool, s, c)
  PROVE  \E y \in Seq(D), x \in Seq(D) : Glob(s, y) /\ Join(c) = Cat(y, x) /\ x = <<>>
<1>1. Glob(s, Join(c))
  BY StemIs DEF Suits
<1>2. PICK w \in Seq(D), x \in Seq(D) : w = Join(c) /\ x = <<>>
  <2>1. <<>> \in Seq(D)
    OBVIOUS
  <2> QED BY <2>1
<1>3. Cat(w, x) = w
  BY <1>2, Texts
<1> QED BY <1>1, <1>2, <1>3

\* All stems of a rule's patterns are stems.
LEMMA AllStemmed ==
  ASSUME NEW D, Space \in D, Star \in D, NEW V, V \subseteq Seq(D \ {Star}) \ {<<>>},
         NEW r, Written(D, V, r), NEW options \in SUBSET V, IsFiniteSet(options), NEW prefix, Fronted(D, prefix)
  PROVE  \A u \in StemsOf(r, options, prefix) : Stemmed(D, u) /\ u \in Seq(D)
<1> DEFINE heads == GlobHeads(r, options, prefix)
           tailed == {Tailed(h, s, gap) : h \in heads, s \in r.tail, gap \in Gaps}
<1>1. StemsOf(r, options, prefix) = IF r.tail = {} THEN heads ELSE tailed
  BY DEF StemsOf
<1>2. IsFiniteSet(heads) /\ \A h \in heads : Stemmed(D, h)
  BY HeadsAreStems DEF Written
<1>3. IsFiniteSet(tailed) /\ \A u \in tailed : Stemmed(D, u)
  <2> HIDE DEF heads
  <2>1. IsFiniteSet(heads) /\ (\A h \in heads : Stemmed(D, h)) /\ Written(D, V, r)
    BY <1>2
  <2> QED BY <2>1, StemsAre
<1> HIDE DEF heads, tailed
<1> QED BY <1>1, <1>2, <1>3, StemIs

\* A stem with a text behind it.
LEMMA TextedRead ==
  ASSUME NEW D, Space \in D, Star \in D, NEW s, Stemmed(D, s), NEW t, Plain(D, t), t # <<Space>>, NEW tool, NEW c,
         NEW w \in Seq(D), w = Join(c), NEW p, p = Texted(s, t) \/ (Last(t) = Space /\ p = TextEnds(s, t)), Suits(tool, p, c)
  PROVE  \E y \in Seq(D), x \in Seq(D) : w = Cat(y, x) /\ Glob(s, y) /\ Occurs(t, x \o <<Space>>)
<1>1. s \in Seq(D) /\ t \in Seq(D) /\ t # <<>> /\ Free(t, Star)
  BY PlainIs, StemIs DEF Plain
<1>2. /\ EndsWithHole(Texted(s, t)) => Last(t) = Space /\ BareForm(Texted(s, t)) = TextEnds(s, t)
      /\ Last(t) = Space => ~EndsWithHole(TextEnds(s, t))
  BY TextBehind DEF Texted, TextEnds
<1>3. Glob(Texted(s, t), w) \/ (Last(t) = Space /\ Glob(TextEnds(s, t), w))
  <2>1. CASE p = Texted(s, t)
    <3>1. Glob(p, w) \/ (EndsWithHole(p) /\ Glob(BareForm(p), w))
      BY DEF Suits, BareForm
    <3> QED BY <1>2, <2>1, <3>1
  <2>2. CASE Last(t) = Space /\ p = TextEnds(s, t)
    <3>1. Glob(p, w) \/ EndsWithHole(p)
      BY DEF Suits
    <3> QED BY <1>2, <2>2, <3>1
  <2> QED BY <2>1, <2>2
<1>4. PICK u \in Seq(D), v \in Seq(D) : u = s /\ v = t
  BY <1>1
<1>5. v # <<>> /\ Free(v, Star)
  BY <1>1, <1>4
<1>6. Glob(Texted(u, v), w) \/ (Last(v) = Space /\ Glob(TextEnds(u, v), w))
  BY <1>3, <1>4
<1>7. \E y \in Seq(D), x \in Seq(D) : w = Cat(y, x) /\ Glob(u, y) /\ Occurs(v, x \o <<Space>>)
  BY <1>5, <1>6, TextRead
<1> QED BY <1>4, <1>7

\* What suits one of a rule's patterns is what one of its stems matches, and what
\* may follow that.
LEMMA VariantRead ==
  ASSUME NEW D, Space \in D, Star \in D, NEW V, V \subseteq Seq(D \ {Star}) \ {<<>>},
         NEW r, RuleOver(D, V, r), Written(D, V, r), NEW options \in SUBSET V, IsFiniteSet(options),
         NEW prefix, Fronted(D, prefix), NEW tool, NEW c, Join(c) \in Seq(D),
         NEW p \in GlobVariants(r, options, prefix, tool.optionalTrailing), Suits(tool, p, c)
  PROVE  \E s \in StemsOf(r, options, prefix) : \E y \in Seq(D), x \in Seq(D) :
           s \in Seq(D) /\ Glob(s, y) /\ Join(c) = Cat(y, x) /\ MayFollow(D, r, x)
<1> DEFINE heads == GlobHeads(r, options, prefix)
           tailed == {Tailed(h, s, gap) : h \in heads, s \in r.tail, gap \in Gaps}
           stems == StemsOf(r, options, prefix)
           spaced == {t \in r.text : Last(t) = Space}
           A == {Texted(s, t) : s \in stems, t \in r.text}
           B == {TextEnds(s, t) : s \in stems, t \in spaced}
           E == {s \o <<Space, Star>> : s \in stems}
           F == IF tool.optionalTrailing THEN {} ELSE {s \in stems : HasStar(s)}
<1>1. stems = IF r.tail = {} THEN heads ELSE tailed
  BY DEF StemsOf
<1>2. p \in IF r.exact THEN heads ELSE IF r.text # {} THEN A \cup B ELSE E \cup F
  <2>1. GlobVariants(r, options, prefix, tool.optionalTrailing) =
          IF r.exact THEN heads ELSE IF r.text # {} THEN A \cup B ELSE E \cup F
    BY DEF GlobVariants, StemsOf, Gaps, Tailed, Texted, TextEnds
  <2> HIDE DEF heads, A, B, E, F
  <2> QED BY <2>1
<1>3. \A u \in stems : Stemmed(D, u) /\ u \in Seq(D)
  BY AllStemmed
<1> HIDE DEF heads, tailed, stems
<1>4. CASE r.exact
  <2>1. p \in stems
    BY <1>1, <1>2, <1>4 DEF RuleOver
  <2>2. PICK y \in Seq(D), x \in Seq(D) : Glob(p, y) /\ Join(c) = Cat(y, x) /\ x = <<>>
    BY <1>3, <2>1, StemAlone
  <2>3. MayFollow(D, r, x)
    BY <1>4, <2>2 DEF RuleOver, MayFollow, Ended
  <2> QED BY <1>3, <2>1, <2>2, <2>3 DEF stems
<1>5. CASE ~r.exact /\ r.text # {}
  <2>1. p \in A \cup B
    BY <1>2, <1>5
  <2>2. PICK s \in stems, t \in r.text : p = Texted(s, t) \/ (Last(t) = Space /\ p = TextEnds(s, t))
    BY <2>1
  <2>3. Stemmed(D, s) /\ Plain(D, t) /\ t # <<Space>> /\ s \in Seq(D)
    BY <1>3, <2>2 DEF Written
  <2>4. PICK y \in Seq(D), x \in Seq(D) : Join(c) = Cat(y, x) /\ Glob(s, y) /\ Occurs(t, x \o <<Space>>)
    BY <2>2, <2>3, TextedRead
  <2>5. MayFollow(D, r, x)
    BY <1>5, <2>2, <2>4 DEF MayFollow
  <2> QED BY <2>2, <2>3, <2>4, <2>5 DEF stems
<1>6. CASE ~r.exact /\ r.text = {}
  <2>1. p \in E \cup F
    <3> HIDE DEF A, B, E, F
    <3> QED BY <1>2, <1>6
  <2>2. PICK s \in stems : p = s \o <<Space, Star>> \/ p = s
    BY <2>1
  <2>3. PICK y \in Seq(D), x \in Seq(D) : Glob(s, y) /\ Join(c) = Cat(y, x) /\ Ended(D, x)
    <3>1. CASE p = s \o <<Space, Star>>
      BY <1>3, <3>1, SpacedRead
    <3>2. CASE p = s
      <4>1. \E y \in Seq(D), x \in Seq(D) : Glob(s, y) /\ Join(c) = Cat(y, x) /\ x = <<>>
        BY <1>3, <3>2, StemAlone
      <4> QED BY <4>1 DEF Ended
    <3> QED BY <2>2, <3>1, <3>2
  <2>4. MayFollow(D, r, x)
    BY <1>6, <2>3 DEF MayFollow
  <2> QED BY <1>3, <2>2, <2>3, <2>4 DEF stems
<1>7. r.exact \in BOOLEAN
  BY DEF Written, IsRule
<1> QED BY <1>4, <1>5, <1>6, <1>7

\* A command that begins with a word and a space has that word before it.
LEMMA PrefixRead ==
  ASSUME NEW D, Space \in D, NEW c, Worded(D, c), NEW a \in Seq(D), Free(a, Space), NEW q \in Seq(D),
         Join(c) = Between(a, q)
  PROVE  c[1] = a /\ Len(c) > 1 /\ Worded(D, Tail(c)) /\ Join(Tail(c)) = q
<1>1. PICK w \in Seq(D) : w = c[1] /\ Free(w, Space)
  BY FirstWord
<1>2. (c = <<w>> /\ Join(c) = w) \/ Headed(D, c, w)
  BY <1>1, FirstWord
<1>3. Join(c) # w
  BY <1>1, FirstSpace
<1>4. PICK r : Worded(D, r) /\ c = <<w>> \o r /\ Len(r) + 1 = Len(c) /\ Join(r) \in Seq(D) /\ Join(c) = Between(w, Join(r))
  BY <1>2, <1>3 DEF Headed
<1>5. PICK e \in Seq(D) : e = Join(r)
  BY <1>4
<1>6. w = a /\ e = q
  <2>1. Between(w, e) = Between(a, q)
    BY <1>4, <1>5
  <2>2. (w = a /\ e = q) \/ \E z \in Seq(D) : w = Between(a, z) /\ q = Between(z, e)
    BY <2>1, FirstSpace
  <2>3. \A z \in Seq(D) : Between(a, z) # w
    BY <1>1, FirstSpace
  <2> QED BY <2>2, <2>3
<1>7. r \in Seq(Seq(D)) /\ r # <<>> /\ c \in Seq(Seq(D)) /\ c # <<>>
  BY <1>4 DEF Worded
<1>8. PICK n \in Nat : n = Len(r)
  BY <1>7, LenProperties
<1>9. n # 0
  BY <1>7, <1>8, EmptySeq
<1>10. Len(c) = n + 1
  BY <1>4, <1>8
<1>11. Tail(c) = r
  <2>1. Tail(c) \in Seq(Seq(D)) /\ Len(Tail(c)) = n /\ \A i \in 1..n : Tail(c)[i] = c[i + 1]
    BY <1>7, <1>10, TailIs
  <2>2. <<w>> \in Seq(Seq(D)) /\ Len(<<w>>) = 1
    OBVIOUS
  <2>3. \A i \in 1..n : c[1 + i] = r[i]
    BY <1>4, <1>7, <1>8, <2>2, Parts
  <2>4. \A i \in 1..n : Tail(c)[i] = r[i]
    BY <2>1, <2>3
  <2>5. Len(Tail(c)) = Len(r) /\ \A i \in 1..Len(Tail(c)) : Tail(c)[i] = r[i]
    BY <1>8, <2>1, <2>4
  <2> QED BY <1>7, <2>1, <2>5, SeqEqual
<1>12. c[1] = a
  BY <1>1, <1>6
<1>13. Len(c) > 1
  BY <1>9, <1>10
<1>14. Worded(D, Tail(c))
  BY <1>4, <1>11
<1>15. Join(Tail(c)) = q
  BY <1>5, <1>6, <1>11
<1> QED BY <1>12, <1>13, <1>14, <1>15

\* A gap is a text.
LEMMA GapsAre ==
  ASSUME NEW D, Space \in D, Star \in D, NEW gap \in Gaps
  PROVE  gap \in Seq(D)
<1>1. <<Space>> \in Seq(D)
  OBVIOUS
<1>2. <<Space, Star, Space>> \in Seq(D)
  OBVIOUS
<1> QED BY <1>1, <1>2 DEF Gaps

\* What a hole between two spaces matches.
LEMMA HoleRead ==
  ASSUME NEW D, Space \in D, Star \in D, NEW l \in Seq(D), Glob(<<Space, Star, Space>>, l)
  PROVE  \E z \in Seq(D) : l = Cat(Blank, Cat(z, Blank))
<1>1. PICK b \in Seq(D), h \in Seq(D) : b = Blank /\ h = Hole
  <2>1. Blank \in Seq(D) /\ Hole \in Seq(D)
    BY DEF Blank, Hole
  <2> QED BY <2>1
<1>2. PICK t \in Seq(D) : t = Cat(h, b)
  BY Texts
<1>3. Glob(Cat(b, t), l)
  BY <1>1, <1>2, GapIs
<1>4. PICK f \in Seq(D), g \in Seq(D) : l = Cat(f, g) /\ Glob(b, f) /\ Glob(t, g)
  BY <1>3, GlobParts
<1>5. PICK z \in Seq(D), k \in Seq(D) : g = Cat(z, k) /\ Glob(h, z) /\ Glob(b, k)
  BY <1>2, <1>4, GlobParts
<1>6. Free(b, Star)
  BY <1>1, BlankIs
<1>7. f = b /\ k = b
  BY <1>4, <1>5, <1>6, PlainGlob
<1> QED BY <1>1, <1>4, <1>5, <1>7

\* Words from a space between two of them on.
LEMMA RestRead ==
  ASSUME NEW D, Space \in D, NEW c, Worded(D, c), NEW a \in Seq(D), NEW b \in Seq(D), Join(c) = Between(a, b)
  PROVE  \E j \in 2..Len(c) : Worded(D, From(c, j)) /\ Join(From(c, j)) = b
<1>1. PICK u, v : Worded(D, u) /\ Worded(D, v) /\ c = u \o v /\ a = Join(u) /\ b = Join(v)
  BY WordsSplit DEF Parted
<1>2. PICK s \in Seq(Seq(D)), t \in Seq(Seq(D)) : s = u /\ t = v /\ s # <<>> /\ t # <<>>
  BY <1>1 DEF Worded
<1>3. PICK m \in Nat, n \in Nat : m = Len(s) /\ n = Len(t) /\ m # 0 /\ n # 0
  BY <1>2, LenProperties, EmptySeq
<1>4. Len(c) = m + n /\ \A x \in 1..n : c[m + x] = t[x]
  BY <1>1, <1>2, <1>3, Parts
<1>5. m + 1 \in 2..Len(c) /\ m \in 1..Len(c) /\ Len(c) - m = n
  BY <1>3, <1>4
<1>6. c \in Seq(Seq(D))
  BY DEF Worded
<1>7. /\ From(c, m + 1) \in Seq(Seq(D)) /\ Len(From(c, m + 1)) = n
      /\ \A x \in 1..n : From(c, m + 1)[x] = c[m + x]
  BY <1>5, <1>6, FromIs
<1>8. From(c, m + 1) = t
  BY <1>3, <1>4, <1>7, SeqEqual
<1> QED BY <1>1, <1>2, <1>5, <1>8

\* The rest of a command behind its first word.
LEMMA TailRest ==
  ASSUME NEW D, Space \in D, NEW c, Worded(D, c), Len(c) > 1, NEW j \in 2..Len(Tail(c))
  PROVE  j + 1 \in 2..Len(c) /\ From(Tail(c), j) = From(c, j + 1)
<1>1. c \in Seq(Seq(D)) /\ Tail(c) = From(c, 2)
  BY TailIsFrom DEF Worded
<1>2. PICK n \in Nat : n = Len(c)
  BY <1>1, LenProperties
<1>3. 2 \in 1..n
  BY <1>2
<1>4. Len(Tail(c)) = n - 2 + 1 /\ \A k \in 1..(n - 2 + 1) : From(Tail(c), k) = From(c, 2 + k - 1)
  BY <1>1, <1>2, <1>3, EndFrom
<1>5. j \in 1..(n - 2 + 1) /\ 2 + j - 1 = j + 1 /\ j + 1 \in 2..n
  BY <1>2, <1>4
<1> QED BY <1>2, <1>4, <1>5

\* What a word and a space, or a hole between two, match of a command.
LEMMA LeadRead ==
  ASSUME NEW D, Space \in D, Star \in D, NEW c, Worded(D, c), NEW a \in Seq(D), Free(a, Space), Free(a, Star),
         NEW hole \in Gaps, NEW f \in Seq(D), Glob(Cat(a, hole), f), NEW q \in Seq(D), Join(c) = Cat(f, q)
  PROVE  \E i \in 2..Len(c) : /\ c[1] = a /\ Len(c) > 1 /\ Worded(D, From(c, i)) /\ Join(From(c, i)) = q
                              /\ (hole = <<Space>> => From(c, i) = Tail(c))
<1>1. PICK h \in Seq(D), b \in Seq(D) : h = hole /\ b = Blank
  <2>1. hole \in Seq(D) /\ Blank \in Seq(D)
    BY GapsAre, BlankIs
  <2> QED BY <2>1
<1>2. PICK k \in Seq(D), l \in Seq(D) : f = Cat(k, l) /\ Glob(a, k) /\ Glob(h, l)
  BY <1>1, GlobParts
<1>3. k = a
  BY <1>2, PlainGlob
<1>4. Join(c) = Cat(a, Cat(l, q))
  <2>1. Cat(Cat(k, l), q) = Cat(k, Cat(l, q))
    BY Texts
  <2> QED BY <1>2, <1>3, <2>1
<1>5. c \in Seq(Seq(D))
  BY DEF Worded
<1>6. CASE hole = <<Space>>
  <2>1. l = b
    <3>1. Free(b, Star) /\ h = b
      BY <1>1, <1>6, BlankIs DEF Blank
    <3> QED BY <1>2, <3>1, PlainGlob
  <2>2. c[1] = a /\ Len(c) > 1 /\ Worded(D, Tail(c)) /\ Join(Tail(c)) = q
    <3>1. Join(c) = Between(a, q)
      BY <1>1, <1>4, <2>1 DEF Between
    <3> QED BY <3>1, PrefixRead
  <2>3. Tail(c) = From(c, 2)
    BY <1>5, <2>2, TailIsFrom
  <2>4. 2 \in 2..Len(c)
    BY <1>5, <2>2, LenProperties
  <2> QED BY <2>2, <2>3, <2>4
<1>7. CASE hole = <<Space, Star, Space>>
  <2>1. PICK z \in Seq(D) : l = Cat(b, Cat(z, b))
    BY <1>1, <1>2, <1>7, HoleRead
  <2>2. PICK y \in Seq(D) : y = Between(z, q)
    BY BetweenIs
  <2>3. Join(c) = Between(a, y)
    <3>1. PICK d \in Seq(D) : d = Cat(z, b)
      BY Texts
    <3>2. Cat(Cat(b, d), q) = Cat(b, Cat(d, q)) /\ Cat(Cat(z, b), q) = Cat(z, Cat(b, q))
      BY Texts
    <3> QED BY <1>1, <1>4, <2>1, <2>2, <3>1, <3>2 DEF Between
  <2>4. c[1] = a /\ Len(c) > 1 /\ Worded(D, Tail(c)) /\ Join(Tail(c)) = y
    BY <2>3, PrefixRead
  <2>5. PICK d : d = Tail(c)
    OBVIOUS
  <2>9. Worded(D, d) /\ Join(d) = Between(z, q)
    BY <2>2, <2>4, <2>5
  <2>6. PICK j \in 2..Len(d) : Worded(D, From(d, j)) /\ Join(From(d, j)) = q
    <3>1. \E j \in 2..Len(d) : Worded(D, From(d, j)) /\ Join(From(d, j)) = q
      BY <2>9, RestRead
    <3> QED BY <3>1
  <2>7. j + 1 \in 2..Len(c) /\ From(d, j) = From(c, j + 1)
    BY <2>4, <2>5, <2>6, TailRest
  <2>8. hole # <<Space>>
    BY <1>7
  <2> QED BY <2>4, <2>6, <2>7, <2>8
<1> QED BY <1>6, <1>7 DEF Gaps

\* What a pattern for an entry suits, the entry matches, its head perhaps fused
\* with a text.
LEMMA PatternRead ==
  ASSUME NEW D, Space \in D, Star \in D, NEW V, Spaceless(D, V), IsFiniteSet(Wrappers), Wrappers \subseteq V,
         NEW e, RuleOver(D, V, e.rule), Written(D, V, e.rule), LeadsOver(V, e.rule),
         NEW tool, NEW c, Worded(D, c), NEW p \in PatternsOf(tool, e), Suits(tool, p, c)
  PROVE  Matches(e, c, OptionsOf(e.rule), IF Peels(tool, e.bucket) THEN {} ELSE AssignmentsOf(e.rule), FALSE)
<1> DEFINE r == e.rule
           options == OptionsOf(r)
           assigned == IF Peels(tool, e.bucket) THEN {} ELSE AssignmentsOf(r)
<1>1. PICK prefix \in CopyPrefixes(tool, e) : p \in GlobVariants(r, options, prefix, tool.optionalTrailing)
  BY DEF PatternsOf
<1>2. V \subseteq Seq(D \ {Star}) \ {<<>>} /\ V \subseteq Seq(D) /\ \A v \in V : Free(v, Space) /\ Free(v, Star)
  <2>1. V \subseteq Seq(D \ {Star}) \ {<<>>} /\ \A v \in V : Free(v, Space)
    BY DEF Spaceless
  <2>2. V \subseteq Seq(D)
    BY <2>1, SeqMonotonic
  <2>3. ASSUME NEW v \in V PROVE Free(v, Star)
    <3>1. v \in Seq(D \ {Star})
      BY <2>1
    <3> QED BY <3>1, LenProperties DEF Free
  <2> QED BY <2>1, <2>2, <2>3
<1>3. /\ options \in SUBSET V /\ IsFiniteSet(options)
      /\ AssignmentsOf(r) \in SUBSET V /\ IsFiniteSet(AssignmentsOf(r))
  BY DEF LeadsOver
<1>4. Fronted(D, prefix)
  BY <1>1, <1>2, <1>3, PrefixesAre
<1>5. IsRule(r, V) /\ <<>> \notin r.tail
  BY DEF RuleOver
<1>6. PICK b \in Seq(D) : b = Join(c)
  <2>1. Join(c) \in Seq(D)
    BY JoinFirst DEF Worded
  <2> QED BY <2>1
<1>7. \/ prefix = <<>>
      \/ \E a \in assigned : prefix = Cat(a, <<Space>>)
      \/ e.bucket # "allow" /\ \E w \in Wrappers : \E gap \in Gaps : prefix = Cat(w, gap)
  <2>1. \A w \in WrapperPrefixes : w[1] \in Wrappers /\ \E gap \in Gaps : PrefixText(w) = Cat(w[1], gap)
    BY DEF PrefixText, WrapperPrefixes, Gaps, Cat
  <2>2. \/ prefix = <<>> \/ prefix \in {a \o <<Space>> : a \in assigned}
        \/ e.bucket # "allow" /\ prefix \in {PrefixText(w) : w \in WrapperPrefixes}
    BY <1>1 DEF CopyPrefixes
  <2> HIDE DEF assigned
  <2> QED BY <2>1, <2>2 DEF Cat
<1>12. assigned \subseteq V
  BY <1>3
<1> HIDE DEF r, options, assigned
<1>8. PICK s \in StemsOf(r, options, prefix) : \E y \in Seq(D), x \in Seq(D) :
        s \in Seq(D) /\ Glob(s, y) /\ Join(c) = Cat(y, x) /\ MayFollow(D, r, x)
  BY <1>1, <1>2, <1>3, <1>4, <1>6, VariantRead DEF r
<1>9. PICK y \in Seq(D), x \in Seq(D) : Glob(s, y) /\ Join(c) = Cat(y, x) /\ MayFollow(D, r, x)
  BY <1>8
<1>10. CASE prefix = <<>>
  <2>1. prefix \in Seq(D)
    BY <1>10
  <2>2. PICK v \in Seq(D) : OfStem(r, options, v) /\ s = Cat(prefix, v)
    BY <1>3, <1>5, <2>1, StemsBehind
  <2>3. s = v
    BY <1>10, <2>2, Texts
  <2>4. MatchesBare(r, c, options, FALSE)
    BY <1>3, <1>9, <2>2, <2>3, StemRead DEF r
  <2> QED BY <2>4 DEF Matches, r, options
<1>11. ASSUME NEW a \in V, NEW gap \in Gaps, prefix = Cat(a, gap)
       PROVE  \E i \in 2..Len(c) : /\ c[1] = a /\ Len(c) > 1 /\ MatchesBare(r, From(c, i), options, FALSE)
                                   /\ (gap = <<Space>> => From(c, i) = Tail(c))
  <2>1. PICK m \in Seq(D), q \in Seq(D) : m = a /\ Free(m, Space) /\ Free(m, Star) /\ q = prefix
    <3>1. gap \in Seq(D)
      BY GapsAre
    <3>2. Cat(a, gap) \in Seq(D)
      BY <1>2, <3>1, Texts
    <3> QED BY <1>2, <1>11, <3>2
  <2>2. PICK v \in Seq(D) : OfStem(r, options, v) /\ s = Cat(prefix, v)
    BY <1>3, <1>5, <2>1, StemsBehind
  <2>3. PICK f \in Seq(D), g \in Seq(D) : y = Cat(f, g) /\ Glob(q, f) /\ Glob(v, g)
    BY <1>9, <2>1, <2>2, GlobParts
  <2>4. PICK z \in Seq(D) : z = Cat(g, x) /\ Join(c) = Cat(f, z)
    <3>1. Cat(Cat(f, g), x) = Cat(f, Cat(g, x)) /\ Cat(g, x) \in Seq(D)
      BY Texts
    <3> QED BY <1>9, <2>3, <3>1
  <2>5. Glob(Cat(m, gap), f)
    BY <1>11, <2>1, <2>3
  <2>6. PICK i \in 2..Len(c) : /\ c[1] = m /\ Len(c) > 1 /\ Worded(D, From(c, i)) /\ Join(From(c, i)) = z
                               /\ (gap = <<Space>> => From(c, i) = Tail(c))
    BY <2>1, <2>4, <2>5, LeadRead
  <2>7. PICK d : d = From(c, i)
    OBVIOUS
  <2>8. MatchesBare(r, d, options, FALSE)
    BY <1>3, <1>9, <2>2, <2>3, <2>4, <2>6, <2>7, StemRead DEF r
  <2> QED BY <2>1, <2>6, <2>7, <2>8
<1>13. CASE \E a \in assigned : prefix = Cat(a, <<Space>>)
  <2>1. PICK a \in assigned : prefix = Cat(a, <<Space>>)
    BY <1>13
  <2>2. c[1] = a /\ Len(c) > 1 /\ MatchesBare(r, Tail(c), options, FALSE)
    <3>1. <<Space>> \in Gaps
      BY DEF Gaps
    <3> QED BY <1>11, <1>12, <2>1, <3>1
  <2> HIDE DEF MatchesBare
  <2> QED BY <2>1, <2>2 DEF Matches, r, options, assigned
<1>14. CASE e.bucket # "allow" /\ \E w \in Wrappers : \E gap \in Gaps : prefix = Cat(w, gap)
  <2>1. PICK w \in Wrappers, gap \in Gaps : prefix = Cat(w, gap)
    BY <1>14
  <2>2. c[1] = w /\ \E i \in 2..Len(c) : MatchesBare(r, From(c, i), options, FALSE)
    BY <1>11, <2>1
  <2> QED BY <1>14, <2>1, <2>2 DEF Matches, r, options
<1> QED BY <1>7, <1>10, <1>13, <1>14

\* Words over characters without spaces.
LEMMA WordedAre ==
  ASSUME NEW C, Space \notin C, NEW D, C \subseteq D
  PROVE  /\ \A w \in Seq(C) : Free(w, Space)
         /\ \A c \in Seq(Seq(C)) : c # <<>> => Worded(D, c)
<1>1. ASSUME NEW w \in Seq(C) PROVE Free(w, Space)
  <2> SUFFICES ASSUME NEW i \in 1..Len(w) PROVE w[i] # Space
    BY DEF Free
  <2>1. w[i] \in C
    BY LenProperties
  <2> QED BY <2>1
<1>2. ASSUME NEW c \in Seq(Seq(C)), c # <<>> PROVE Worded(D, c)
  <2>1. Seq(C) \subseteq Seq(D)
    BY SeqMonotonic
  <2>2. c \in Seq(Seq(D))
    BY <2>1, SeqMonotonic
  <2>3. \A k \in 1..Len(c) : c[k] \in Seq(C)
    BY LenProperties
  <2> QED BY <1>1, <1>2, <2>2, <2>3 DEF Worded
<1> QED BY <1>1, <1>2

Backed(tool, bucket, c) == \E e \in entries : e.bucket = bucket /\ InForce(tool, e, c, FALSE)

\* What a pattern of a bucket hits, one of its entries is in force for, its head
\* perhaps fused with a text.
LEMMA HitIsForce ==
  ASSUME NEW D, NEW V, Admitted(D, V), Spaceless(D, V), TypesOK, Loaded, NEW tool \in {Claude, OpenCode},
         NEW bucket \in Buckets, ~(bucket = "allow" /\ unmatched = "allow"),
         NEW c \in Commands, Worded(D, c), HitSeen(tool, bucket, c)
  PROVE  Backed(tool, bucket, c)
<1>1. Space \in D /\ Star \in D /\ IsFiniteSet(Wrappers) /\ Wrappers \subseteq V
  BY DEF Admitted, Lettered
<1>2. PICK s \in Seen(tool, bucket, c) : Hit(tool, BucketPatterns(tool, bucket), s)
  BY DEF HitSeen
<1>3. c \in Seq(Seq(D)) /\ c # <<>>
  BY DEF Worded
<1>4. s \in Spelled /\ Len(Join(s)) \in Nat /\ (s = c \/ (Peels(tool, bucket) /\ s \in Strip(tool.peeled, c)))
  BY <1>1, <1>3, SeenIs
<1>5. PICK e \in entries : e.bucket = bucket /\ \E p \in PatternsOf(tool, e) : Suits(tool, p, s)
  BY <1>2, <1>4, HitIs
<1>6. Worded(D, s)
  <2>1. PICK j \in 1..Len(c) : s = From(c, j)
    <3>1. 1 \in 1..Len(c) /\ From(c, 1) = c /\ SeenFrom(tool.peeled, c) \subseteq 1..Len(c)
      BY <1>3, SeenWhole
    <3> QED BY <1>4, <3>1 DEF Strip
  <2>2. PICK n \in Nat : n = Len(c)
    BY <1>3, LenProperties
  <2>3. s \in Seq(Seq(D)) /\ Len(s) = n - j + 1 /\ \A x \in 1..(n - j + 1) : s[x] = c[j + x - 1]
    BY <1>3, <2>1, <2>2, EndFrom
  <2>4. n - j + 1 # 0 /\ \A x \in 1..(n - j + 1) : j + x - 1 \in 1..n
    BY <2>1, <2>2
  <2>5. s # <<>>
    BY <2>3, <2>4, EmptySeq
  <2>6. \A x \in 1..Len(s) : Free(s[x], Space)
    BY <2>2, <2>3, <2>4 DEF Worded
  <2> QED BY <2>3, <2>5, <2>6 DEF Worded
<1>7. RuleOver(D, V, e.rule) /\ LeadsOver(V, e.rule) /\ Written(D, V, e.rule)
  BY LoadedRuleIs, LeadsAre DEF Admitted, TypesOK, TypeOK, Entries
<1>8. Matches(e, s, OptionsOf(e.rule), IF Peels(tool, bucket) THEN {} ELSE AssignmentsOf(e.rule), FALSE)
  BY <1>1, <1>5, <1>6, <1>7, PatternRead
<1>9. \/ Matches(e, c, OptionsOf(e.rule), AssignmentsOf(e.rule), FALSE)
      \/ /\ Peels(tool, bucket)
         /\ \E x \in Strip(tool.peeled, c) : Matches(e, x, OptionsOf(e.rule), {}, FALSE)
  <2>1. CASE s = c
    BY <1>8, <2>1 DEF Matches
  <2>2. CASE Peels(tool, bucket) /\ s \in Strip(tool.peeled, c)
    BY <1>8, <2>2
  <2> QED BY <1>4, <2>1, <2>2
<1> QED BY <1>5, <1>9, KnownIs DEF Backed

\* The tools and the policy agree on all commands that no head is fused in.
LEMMA ToolsAgree ==
  ASSUME NEW C, SchemaAdmits(C), Space \notin C, Commands \subseteq Seq(Seq(C)), <<>> \notin Commands
  PROVE  TypesOK => ClaudeKeepsPolicy /\ OpenCodeKeepsPolicy
<1> DEFINE D == C \cup {Space, Star}
           V == WordsOver(C \ {Star})
<1>1. Admitted(D, V)
  BY AdmittedIs
<1>2. \A c \in Commands : Worded(D, c)
  <2>1. C \subseteq D
    OBVIOUS
  <2> HIDE DEF D
  <2> QED BY <2>1, WordedAre
<1>3. Spaceless(D, V)
  <2>1. Seq(C \ {Star}) \subseteq Seq(D \ {Star}) /\ Seq(C \ {Star}) \subseteq Seq(C)
    BY SeqMonotonic
  <2>2. \A w \in Seq(C) : Free(w, Space)
    BY WordedAre
  <2> HIDE DEF D
  <2> QED BY <2>1, <2>2 DEF Spaceless, WordsOver
<1> HIDE DEF D, V
<1> SUFFICES ASSUME TypesOK, Loaded, NEW c \in Commands
             PROVE  /\ Agrees(Claude, ClaudeDecision(c, Emitted(Claude)), c)
                    /\ Agrees(OpenCode, OpenCodeDecision(c, ShellRules(Emitted(OpenCode))), c)
  BY DEF ClaudeKeepsPolicy, OpenCodeKeepsPolicy
<1>4. c \in Seq(Seq(D)) /\ c # <<>> /\ Worded(D, c) /\ unmatched \in {"ask", "allow"}
  BY <1>2 DEF Worded, TypesOK, TypeOK
<1>5. ASSUME NEW tool \in {Claude, OpenCode}, ~Fused(tool, c) PROVE Ruled(tool, c) = PolicyDecision(tool, c)
  <2> DEFINE InPlay(b) == \E e \in entries : e.bucket = b /\ InForce(tool, e, c, TRUE)
  <2>1. ASSUME NEW b \in Buckets, ~(b = "allow" /\ unmatched = "allow") PROVE HitSeen(tool, b, c) <=> InPlay(b)
    <3>1. ASSUME HitSeen(tool, b, c) PROVE InPlay(b)
      <4>1. Backed(tool, b, c)
        BY <1>1, <1>3, <1>4, <2>1, <3>1, HitIsForce
      <4> QED BY <1>5, <4>1 DEF Backed, Fused
    <3>2. ASSUME NEW e \in entries, e.bucket = b, InForce(tool, e, c, TRUE) PROVE HitSeen(tool, b, c)
      BY <1>1, <1>4, <2>1, <3>2, ForceIsHit
    <3> QED BY <3>1, <3>2
  <2>2. PolicyDecision(tool, c) = IF InPlay("deny") THEN "deny" ELSE IF InPlay("ask") THEN "ask"
                                  ELSE IF InPlay("allow") THEN "allow" ELSE unmatched
    BY DEF PolicyDecision
  <2>3. \A b : InPlay(b) \in BOOLEAN
    OBVIOUS
  <2> HIDE DEF InPlay
  <2>4. /\ HitSeen(tool, "deny", c) <=> InPlay("deny")
        /\ HitSeen(tool, "ask", c) <=> InPlay("ask")
        /\ unmatched # "allow" => (HitSeen(tool, "allow", c) <=> InPlay("allow"))
    BY <2>1 DEF Buckets
  <2> QED BY <1>4, <2>2, <2>3, <2>4 DEF Ruled
<1>6. ClaudeDecision(c, Emitted(Claude)) = Ruled(Claude, c)
  BY <1>4, ClaudeRules
<1>7. OpenCodeDecision(c, ShellRules(Emitted(OpenCode))) = Ruled(OpenCode, c)
  BY <1>4, OpenCodeRules
<1> QED BY <1>5, <1>6, <1>7 DEF Agrees

\* Claude decides every command exactly as the policy does (targets/claude.py,
\* _permission_values), whatever rules, vocabularies, wrappers and commands there
\* are and whatever wrappers Claude peels; the one exception is a head that a
\* glob for a text also finds begun. The rules and words are those the schema
\* admits.
THEOREM ClaudeAgrees ==
  ASSUME NEW C, SchemaAdmits(C), Space \notin C, Commands \subseteq Seq(Seq(C)), <<>> \notin Commands
  PROVE  Spec => []ClaudeKeepsPolicy
<1>1. TypesOK => ClaudeKeepsPolicy
  BY ToolsAgree
<1> QED BY <1>1, TypesCorrect, PTL

\* So does OpenCode, with the last match of its list and the plugin that looks
\* for denies behind what it peels (targets/opencode.py, _permissions).
THEOREM OpenCodeAgrees ==
  ASSUME NEW C, SchemaAdmits(C), Space \notin C, Commands \subseteq Seq(Seq(C)), <<>> \notin Commands
  PROVE  Spec => []OpenCodeKeepsPolicy
<1>1. TypesOK => OpenCodeKeepsPolicy
  BY ToolsAgree
<1> QED BY <1>1, TypesCorrect, PTL
=============================================================================
