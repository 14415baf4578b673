------------------------- MODULE NativeConfig_proofs -------------------------
(***************************************************************************)
(* Proofs about NativeConfig, for every set of surfaces, pointers, values, *)
(* entries and sources, and for lists of any length.                       *)
(***************************************************************************)
EXTENDS NativeConfig, SequenceTheorems, WellFoundedInduction, TLAPS

-----------------------------------------------------------------------------
(* Induction.  The library rules take the property as an operator, which   *)
(* the provers cannot instantiate; here it is a set, and induction is the  *)
(* existence of a least counterexample (WFMin).                            *)

LEMMA LessThanIsWellFounded == IsWellFoundedOn({ss \in Nat \X Nat : ss[1] < ss[2]}, Nat)
BY NatLessThanWellFounded DEF OpToRel

\* A set with zero, and with n + 1 whenever it has n, has every natural number.
THEOREM NatSetInduction ==
  ASSUME NEW T, 0 \in T, \A n \in Nat : n \in T => n + 1 \in T
  PROVE  Nat \subseteq T
<1> DEFINE R == {ss \in Nat \X Nat : ss[1] < ss[2]}
           Rest == Nat \ T
<1> SUFFICES ASSUME Rest # {} PROVE FALSE
  OBVIOUS
<1>1. IsWellFoundedOn(R, Nat) /\ Rest \subseteq Nat
  BY LessThanIsWellFounded
<1> HIDE DEF R, Rest
<1>2. PICK n \in Rest : \A m \in Rest : <<m, n>> \notin R
  BY <1>1, WFMin
<1> USE DEF R, Rest
<1>3. n \in Nat /\ n # 0 /\ n - 1 \in Nat /\ n - 1 < n /\ (n - 1) + 1 = n
  BY <1>2
<1>4. n - 1 \in T
  <2>1. <<n - 1, n>> \in R
    BY <1>3
  <2>2. n - 1 \notin Rest
    BY <1>2, <2>1
  <2> QED BY <1>3, <2>2
<1> QED BY <1>2, <1>3, <1>4

\* A set with the empty list, and with Append(s, x) whenever it has s, has every list.
THEOREM SeqSetInduction ==
  ASSUME NEW A, NEW T, << >> \in T,
         \A s \in Seq(A), x \in A : s \in T => Append(s, x) \in T
  PROVE  Seq(A) \subseteq T
<1> DEFINE N == {n \in Nat : \A s \in Seq(A) : Len(s) = n => s \in T}
<1>1. 0 \in N
  BY EmptySeq
<1>2. ASSUME NEW n \in Nat, n \in N PROVE n + 1 \in N
  <2> SUFFICES ASSUME NEW s \in Seq(A), Len(s) = n + 1 PROVE s \in T
    OBVIOUS
  <2> DEFINE front == [i \in 1..n |-> s[i]]
  <2>1. n + 1 \in 1..Len(s) /\ s[n + 1] \in A /\ \A i \in 1..n : s[i] \in A
    BY ElementOfSeq
  <2>2. front \in Seq(A) /\ Len(front) = n
    BY <2>1
  <2>3. front \in T
    BY <1>2, <2>2
  <2>4. Append(front, s[n + 1]) = s
    <3>1. Append(front, s[n + 1]) \in Seq(A) /\ Len(Append(front, s[n + 1])) = n + 1
      BY <2>1, <2>2
    <3>2. \A i \in 1..n + 1 : Append(front, s[n + 1])[i] = s[i]
      BY <2>1, <2>2
    <3> QED BY <3>1, <3>2, SeqEqual
  <2> HIDE DEF front
  <2> QED BY <2>1, <2>2, <2>3, <2>4
<1> HIDE DEF N
<1>3. Nat \subseteq N
  BY <1>1, <1>2, NatSetInduction
<1> QED
  <2> SUFFICES ASSUME NEW s \in Seq(A) PROVE s \in T
    OBVIOUS
  <2>1. Len(s) \in Nat
    OBVIOUS
  <2> QED BY <1>3, <2>1 DEF N
-----------------------------------------------------------------------------
(* Kept, one entry at a time.                                              *)

\* The definition by recursion has a solution, and Kept is it.
LEMMA KeptUpToDef ==
  ASSUME NEW A, NEW s \in Seq(A), NEW S
  PROVE  /\ KeptUpTo(s, S)[0] = << >>
         /\ \A n \in 1..Len(s) :
              KeptUpTo(s, S)[n] = IF s[n] \in S THEN Append(KeptUpTo(s, S)[n - 1], s[n])
                                  ELSE KeptUpTo(s, S)[n - 1]
<1> DEFINE Def(g, n) == IF n = 0 THEN << >>
                        ELSE IF s[n] \in S THEN Append(g[n - 1], s[n]) ELSE g[n - 1]
           Solves(g, m) == g = [n \in 0..m |-> Def(g, n)]
           Solved == {m \in Nat : \E g : Solves(g, m)}
<1>1. 0 \in Solved
  <2> DEFINE g == [n \in 0..0 |-> << >>]
  <2>1. Solves(g, 0)
    OBVIOUS
  <2> QED BY <2>1
<1>2. ASSUME NEW m \in Nat, m \in Solved PROVE m + 1 \in Solved
  <2>1. PICK g : Solves(g, m)
    BY <1>2
  <2> DEFINE h == [n \in 0..m + 1 |-> IF n = m + 1 THEN Def(g, n) ELSE g[n]]
  <2>2. ASSUME NEW n \in 0..m + 1 PROVE h[n] = Def(h, n)
    <3>1. CASE n = 0
      <4>1. h[0] = g[0] /\ g[0] = Def(g, 0)
        BY <2>1
      <4> QED BY <3>1, <4>1
    <3>2. CASE n # 0 /\ n # m + 1
      <4>1. n \in 0..m /\ n - 1 \in 0..m /\ n - 1 # m + 1
        BY <3>2
      <4>2. h[n] = g[n]
        BY <3>2
      <4>3. h[n - 1] = g[n - 1]
        <5>1. n - 1 \in 0..m + 1
          BY <4>1
        <5> QED BY <4>1, <5>1
      <4>4. g[n] = Def(g, n)
        <5> HIDE DEF Def
        <5> QED BY <2>1, <4>1
      <4> QED BY <3>2, <4>2, <4>3, <4>4
    <3>3. CASE n = m + 1
      <4>1. n # 0 /\ n - 1 \in 0..m + 1 /\ n - 1 # m + 1
        BY <3>3
      <4>2. h[n] = Def(g, n) /\ h[n - 1] = g[n - 1]
        BY <3>3, <4>1
      <4> QED BY <4>1, <4>2
    <3> QED BY <3>1, <3>2, <3>3
  <2> HIDE DEF Def
  <2>3. h = [n \in 0..m + 1 |-> h[n]]
    OBVIOUS
  <2>4. Solves(h, m + 1)
    <3> HIDE DEF h
    <3> QED BY <2>2, <2>3
  <2> HIDE DEF Solves
  <2> QED BY <2>4
<1> HIDE DEF Solved
<1>3. Len(s) \in Nat
  OBVIOUS
<1>4. \E g : Solves(g, Len(s))
  BY <1>1, <1>2, <1>3, NatSetInduction DEF Solved
<1>5. KeptUpTo(s, S) = CHOOSE g : Solves(g, Len(s))
  BY DEF KeptUpTo
<1>6. Solves(KeptUpTo(s, S), Len(s))
  <2> HIDE DEF Solves
  <2> QED BY <1>4, <1>5
<1>7. ASSUME NEW n \in 0..Len(s)
      PROVE  KeptUpTo(s, S)[n] = Def(KeptUpTo(s, S), n)
  <2> HIDE DEF Def
  <2> QED BY <1>6
<1>8. 0 \in 0..Len(s) /\ \A n \in 1..Len(s) : n \in 0..Len(s) /\ n # 0
  BY <1>3
<1> HIDE DEF Solves
<1> QED BY <1>7, <1>8

LEMMA KeptOfEmpty ==
  ASSUME NEW S
  PROVE  Kept(<< >>, S) = << >>
<1>1. << >> \in Seq({}) /\ Len(<< >>) = 0
  OBVIOUS
<1>2. KeptUpTo(<< >>, S)[0] = << >>
  BY <1>1, KeptUpToDef
<1> QED BY <1>1, <1>2 DEF Kept

\* What is kept of the first entries does not depend on the ones that follow.
LEMMA KeptAppend ==
  ASSUME NEW A, NEW s \in Seq(A), NEW x \in A, NEW S
  PROVE  Kept(Append(s, x), S) = IF x \in S THEN Append(Kept(s, S), x) ELSE Kept(s, S)
<1> DEFINE t == Append(s, x)
           Same == {n \in Nat : n <= Len(s) => KeptUpTo(t, S)[n] = KeptUpTo(s, S)[n]}
<1>1. /\ t \in Seq(A) /\ Len(t) = Len(s) + 1 /\ t[Len(s) + 1] = x /\ Len(s) \in Nat
      /\ \A i \in 1..Len(s) : t[i] = s[i]
  OBVIOUS
<1> HIDE DEF t
<1>2. ASSUME NEW n \in 1..Len(s) + 1
      PROVE  KeptUpTo(t, S)[n] = IF t[n] \in S THEN Append(KeptUpTo(t, S)[n - 1], t[n])
                                 ELSE KeptUpTo(t, S)[n - 1]
  <2>1. n \in 1..Len(t)
    BY <1>1
  <2> QED BY <1>1, <2>1, KeptUpToDef
<1>3. ASSUME NEW n \in 1..Len(s)
      PROVE  KeptUpTo(s, S)[n] = IF s[n] \in S THEN Append(KeptUpTo(s, S)[n - 1], s[n])
                                 ELSE KeptUpTo(s, S)[n - 1]
  BY KeptUpToDef
<1>4. 0 \in Same
  BY <1>1, KeptUpToDef
<1>5. ASSUME NEW n \in Nat, n \in Same PROVE n + 1 \in Same
  <2> SUFFICES ASSUME n + 1 <= Len(s) PROVE KeptUpTo(t, S)[n + 1] = KeptUpTo(s, S)[n + 1]
    OBVIOUS
  <2>1. n + 1 \in 1..Len(s) /\ n + 1 \in 1..Len(s) + 1 /\ n <= Len(s) /\ (n + 1) - 1 = n
    BY <1>1
  <2>2. KeptUpTo(t, S)[n] = KeptUpTo(s, S)[n] /\ t[n + 1] = s[n + 1]
    BY <1>1, <1>5, <2>1
  <2> QED BY <1>2, <1>3, <2>1, <2>2
<1> HIDE DEF Same
<1>6. KeptUpTo(t, S)[Len(s)] = KeptUpTo(s, S)[Len(s)]
  <2>1. Len(s) \in Same
    BY <1>1, <1>4, <1>5, NatSetInduction
  <2> QED BY <1>1, <2>1 DEF Same
<1>7. Len(s) + 1 \in 1..Len(s) + 1 /\ (Len(s) + 1) - 1 = Len(s)
  BY <1>1
<1>8. KeptUpTo(t, S)[Len(t)] = IF x \in S THEN Append(KeptUpTo(s, S)[Len(s)], x)
                               ELSE KeptUpTo(s, S)[Len(s)]
  BY <1>1, <1>2, <1>6, <1>7
<1> QED BY <1>8 DEF Kept, t
-----------------------------------------------------------------------------
(* The entries of a list.                                                  *)

LEMMA EntriesOfAppend ==
  ASSUME NEW A, NEW s \in Seq(A), NEW x \in A
  PROVE  /\ ToSet(Append(s, x)) = ToSet(s) \cup {x}
         /\ Unrepeated(Append(s, x)) <=> Unrepeated(s) /\ x \notin ToSet(s)
<1> DEFINE t == Append(s, x)
<1>1. /\ t \in Seq(A) /\ Len(t) = Len(s) + 1 /\ t[Len(s) + 1] = x /\ Len(s) \in Nat
      /\ \A i \in 1..Len(s) : t[i] = s[i]
  OBVIOUS
<1>2. DOMAIN s = 1..Len(s) /\ DOMAIN t = 1..Len(s) + 1
  BY <1>1
<1>3. \A i \in 1..Len(s) + 1 : i = Len(s) + 1 \/ i \in 1..Len(s)
  BY <1>1
<1>4. \A i \in 1..Len(s) : i \in 1..Len(s) + 1 /\ i # Len(s) + 1
  BY <1>1
<1>5. Len(s) + 1 \in 1..Len(s) + 1
  BY <1>1
<1> HIDE DEF t
<1>6. ToSet(t) = ToSet(s) \cup {x}
  BY <1>1, <1>2, <1>3, <1>4, <1>5 DEF ToSet
<1>7. Unrepeated(t) <=> Unrepeated(s) /\ x \notin ToSet(s)
  <2>1. ASSUME Unrepeated(t) PROVE Unrepeated(s) /\ x \notin ToSet(s)
    <3>1. Unrepeated(s)
      BY <1>1, <1>4, <2>1 DEF Unrepeated
    <3>2. \A i \in 1..Len(s) : s[i] # x
      BY <1>1, <1>4, <1>5, <2>1 DEF Unrepeated
    <3> QED BY <1>2, <3>1, <3>2 DEF ToSet
  <2>2. ASSUME Unrepeated(s), x \notin ToSet(s) PROVE Unrepeated(t)
    <3>1. \A i \in 1..Len(s) : s[i] # x
      BY <1>2, <2>2 DEF ToSet
    <3> QED BY <1>1, <1>3, <2>2, <3>1 DEF Unrepeated
  <2> QED BY <2>1, <2>2
<1> QED BY <1>6, <1>7 DEF t

LEMMA EntriesOfEmpty == ToSet(<< >>) = {} /\ Unrepeated(<< >>)
BY DEF ToSet, Unrepeated

LEMMA EntriesInSet ==
  ASSUME NEW A, NEW s \in Seq(A)
  PROVE  ToSet(s) \subseteq A /\ ToSet(s) = {s[i] : i \in 1..Len(s)}
BY DEF ToSet

\* Putting two lists together.
LEMMA EntriesOfConcat ==
  ASSUME NEW A, NEW s \in Seq(A), NEW t \in Seq(A)
  PROVE  /\ s \o t \in Seq(A)
         /\ ToSet(s \o t) = ToSet(s) \cup ToSet(t)
         /\ Unrepeated(s \o t) <=> Unrepeated(s) /\ Unrepeated(t) /\ ToSet(s) \cap ToSet(t) = {}
<1> DEFINE T == {u \in Seq(A) : /\ ToSet(s \o u) = ToSet(s) \cup ToSet(u)
                                /\ Unrepeated(s \o u) <=>
                                     Unrepeated(s) /\ Unrepeated(u) /\ ToSet(s) \cap ToSet(u) = {}}
<1>1. << >> \in T
  BY EntriesOfEmpty, ConcatEmptySeq
<1>2. ASSUME NEW u \in Seq(A), NEW x \in A, u \in T PROVE Append(u, x) \in T
  <2>1. s \o u \in Seq(A) /\ Append(u, x) \in Seq(A)
    OBVIOUS
  <2>2. s \o Append(u, x) = Append(s \o u, x)
    <3>1. Append(u, x) = u \o <<x>> /\ Append(s \o u, x) = (s \o u) \o <<x>> /\ <<x>> \in Seq(A)
      BY <2>1, AppendIsConcat
    <3> QED BY <3>1, ConcatAssociative
  <2>3. /\ ToSet(Append(u, x)) = ToSet(u) \cup {x}
        /\ Unrepeated(Append(u, x)) <=> Unrepeated(u) /\ x \notin ToSet(u)
    BY EntriesOfAppend
  <2>4. /\ ToSet(Append(s \o u, x)) = ToSet(s \o u) \cup {x}
        /\ Unrepeated(Append(s \o u, x)) <=> Unrepeated(s \o u) /\ x \notin ToSet(s \o u)
    BY <2>1, EntriesOfAppend
  <2>5. /\ ToSet(s \o u) = ToSet(s) \cup ToSet(u)
        /\ Unrepeated(s \o u) <=> Unrepeated(s) /\ Unrepeated(u) /\ ToSet(s) \cap ToSet(u) = {}
    BY <1>2
  <2>6. ToSet(s \o Append(u, x)) = ToSet(s) \cup ToSet(Append(u, x))
    BY <2>2, <2>3, <2>4, <2>5
  <2>7. ToSet(s) \cap ToSet(Append(u, x)) = {} <=> ToSet(s) \cap ToSet(u) = {} /\ x \notin ToSet(s)
    BY <2>3
  <2>8. Unrepeated(s \o Append(u, x)) <=>
          Unrepeated(s) /\ Unrepeated(Append(u, x)) /\ ToSet(s) \cap ToSet(Append(u, x)) = {}
    BY <2>2, <2>3, <2>4, <2>5, <2>7
  <2> QED BY <2>1, <2>6, <2>8
<1> HIDE DEF T
<1>3. t \in T
  BY <1>1, <1>2, SeqSetInduction
<1> QED BY <1>3 DEF T

-----------------------------------------------------------------------------
(* What Kept keeps.                                                        *)

\* The entries in S, all of them, still unrepeated.
LEMMA KeptEntries ==
  ASSUME NEW A, NEW s \in Seq(A), NEW S
  PROVE  /\ Kept(s, S) \in Seq(A)
         /\ ToSet(Kept(s, S)) = ToSet(s) \cap S
         /\ Unrepeated(s) => Unrepeated(Kept(s, S))
<1> DEFINE T == {u \in Seq(A) : /\ Kept(u, S) \in Seq(A)
                                /\ ToSet(Kept(u, S)) = ToSet(u) \cap S
                                /\ Unrepeated(u) => Unrepeated(Kept(u, S))}
<1>1. << >> \in T
  <2>1. << >> \in Seq(A) /\ Kept(<< >>, S) = << >> /\ ToSet(<< >>) \cap S = ToSet(<< >>)
    BY KeptOfEmpty, EntriesOfEmpty
  <2>2. Kept(<< >>, S) \in Seq(A) /\ ToSet(Kept(<< >>, S)) = ToSet(<< >>) \cap S
    BY <2>1
  <2>3. Unrepeated(Kept(<< >>, S))
    BY <2>1, EntriesOfEmpty
  <2> QED BY <2>1, <2>2, <2>3
<1>2. ASSUME NEW u \in Seq(A), NEW x \in A, u \in T PROVE Append(u, x) \in T
  <2>1. Kept(Append(u, x), S) = IF x \in S THEN Append(Kept(u, S), x) ELSE Kept(u, S)
    BY KeptAppend
  <2>2. /\ ToSet(Append(u, x)) = ToSet(u) \cup {x}
        /\ Unrepeated(Append(u, x)) <=> Unrepeated(u) /\ x \notin ToSet(u)
    BY EntriesOfAppend
  <2>3. /\ ToSet(Append(Kept(u, S), x)) = ToSet(Kept(u, S)) \cup {x}
        /\ Unrepeated(Append(Kept(u, S), x)) <=> Unrepeated(Kept(u, S)) /\ x \notin ToSet(Kept(u, S))
    BY <1>2, EntriesOfAppend
  <2>4. Append(u, x) \in Seq(A) /\ Append(Kept(u, S), x) \in Seq(A)
    BY <1>2
  <2>5. CASE x \in S
    BY <1>2, <2>1, <2>2, <2>3, <2>4, <2>5
  <2>6. CASE x \notin S
    BY <1>2, <2>1, <2>2, <2>4, <2>6
  <2> QED BY <2>5, <2>6
<1> HIDE DEF T
<1>3. s \in T
  BY <1>1, <1>2, SeqSetInduction
<1> QED BY <1>3 DEF T

\* Only the entries s has matter.
LEMMA KeptSame ==
  ASSUME NEW A, NEW s \in Seq(A), NEW S, NEW R, ToSet(s) \cap S = ToSet(s) \cap R
  PROVE  Kept(s, S) = Kept(s, R)
<1> DEFINE T == {u \in Seq(A) : ToSet(u) \cap S = ToSet(u) \cap R => Kept(u, S) = Kept(u, R)}
<1>1. << >> \in T
  BY KeptOfEmpty
<1>2. ASSUME NEW u \in Seq(A), NEW x \in A, u \in T PROVE Append(u, x) \in T
  <2>1. /\ Kept(Append(u, x), S) = IF x \in S THEN Append(Kept(u, S), x) ELSE Kept(u, S)
        /\ Kept(Append(u, x), R) = IF x \in R THEN Append(Kept(u, R), x) ELSE Kept(u, R)
    BY KeptAppend
  <2>2. ToSet(Append(u, x)) = ToSet(u) \cup {x}
    BY EntriesOfAppend
  <2>3. Append(u, x) \in Seq(A)
    OBVIOUS
  <2>4. ASSUME ToSet(Append(u, x)) \cap S = ToSet(Append(u, x)) \cap R
        PROVE  (x \in S <=> x \in R) /\ ToSet(u) \cap S = ToSet(u) \cap R
    BY <2>2, <2>4
  <2> QED BY <1>2, <2>1, <2>3, <2>4
<1> HIDE DEF T
<1>3. s \in T
  BY <1>1, <1>2, SeqSetInduction
<1> QED BY <1>3 DEF T

\* All of a list, and none of it.
LEMMA KeptAllOrNone ==
  ASSUME NEW A, NEW s \in Seq(A)
  PROVE  /\ \A S : ToSet(s) \subseteq S => Kept(s, S) = s
         /\ \A S : ToSet(s) \cap S = {} => Kept(s, S) = << >>
<1> DEFINE T == {u \in Seq(A) : Kept(u, A) = u /\ Kept(u, {}) = << >>}
<1>1. << >> \in T
  BY KeptOfEmpty
<1>2. ASSUME NEW u \in Seq(A), NEW x \in A, u \in T PROVE Append(u, x) \in T
  BY <1>2, KeptAppend
<1> HIDE DEF T
<1>3. s \in T
  BY <1>1, <1>2, SeqSetInduction
<1>4. Kept(s, A) = s /\ Kept(s, {}) = << >> /\ ToSet(s) \subseteq A
  BY <1>3, EntriesInSet DEF T
<1>5. ASSUME NEW S, ToSet(s) \subseteq S PROVE Kept(s, S) = s
  <2>1. ToSet(s) \cap S = ToSet(s) \cap A
    BY <1>4, <1>5
  <2> QED BY <1>4, <2>1, KeptSame
<1>6. ASSUME NEW S, ToSet(s) \cap S = {} PROVE Kept(s, S) = << >>
  <2>1. ToSet(s) \cap S = ToSet(s) \cap {}
    BY <1>6
  <2> QED BY <1>4, <2>1, KeptSame
<1> QED BY <1>5, <1>6

\* Part by part.
LEMMA KeptConcat ==
  ASSUME NEW A, NEW s \in Seq(A), NEW t \in Seq(A), NEW S
  PROVE  Kept(s \o t, S) = Kept(s, S) \o Kept(t, S)
<1> DEFINE T == {u \in Seq(A) : Kept(s \o u, S) = Kept(s, S) \o Kept(u, S)}
<1>0. Kept(s, S) \in Seq(A)
  BY KeptEntries
<1>1. << >> \in T
  BY <1>0, KeptOfEmpty, ConcatEmptySeq
<1>2. ASSUME NEW u \in Seq(A), NEW x \in A, u \in T PROVE Append(u, x) \in T
  <2>0. s \o u \in Seq(A) /\ Append(u, x) \in Seq(A) /\ <<x>> \in Seq(A)
    OBVIOUS
  <2>1. /\ s \o u \in Seq(A) /\ Append(u, x) \in Seq(A) /\ <<x>> \in Seq(A)
        /\ Kept(u, S) \in Seq(A) /\ Kept(s \o u, S) \in Seq(A)
    BY <2>0, KeptEntries
  <2>2. s \o Append(u, x) = Append(s \o u, x)
    BY <2>1, AppendIsConcat, ConcatAssociative
  <2>3. Kept(Append(s \o u, x), S) = IF x \in S THEN Append(Kept(s \o u, S), x) ELSE Kept(s \o u, S)
    BY <2>1, KeptAppend
  <2>4. Kept(Append(u, x), S) = IF x \in S THEN Append(Kept(u, S), x) ELSE Kept(u, S)
    BY KeptAppend
  <2>5. Append(Kept(s, S) \o Kept(u, S), x) = Kept(s, S) \o Append(Kept(u, S), x)
    <3> DEFINE k == Kept(s, S)
               l == Kept(u, S)
    <3>1. k \in Seq(A) /\ l \in Seq(A)
      BY <1>0, <2>1
    <3> HIDE DEF k, l
    <3>2. Append(k \o l, x) = k \o Append(l, x)
      <4>1. Append(l, x) = l \o <<x>> /\ k \o l \in Seq(A) /\ <<x>> \in Seq(A)
        BY <3>1, AppendIsConcat
      <4>2. Append(k \o l, x) = (k \o l) \o <<x>>
        BY <4>1, AppendIsConcat
      <4> QED BY <3>1, <4>1, <4>2, ConcatAssociative
    <3> QED BY <3>2 DEF k, l
  <2> QED BY <1>2, <2>1, <2>2, <2>3, <2>4, <2>5
<1> HIDE DEF T
<1>3. t \in T
  BY <1>1, <1>2, SeqSetInduction
<1> QED BY <1>3 DEF T

\* Keeping twice.
LEMMA KeptKept ==
  ASSUME NEW A, NEW s \in Seq(A), NEW S, NEW R
  PROVE  Kept(Kept(s, S), R) = Kept(s, S \cap R)
<1> DEFINE T == {u \in Seq(A) : Kept(Kept(u, S), R) = Kept(u, S \cap R)}
<1>1. << >> \in T
  BY KeptOfEmpty
<1>2. ASSUME NEW u \in Seq(A), NEW x \in A, u \in T PROVE Append(u, x) \in T
  <2>1. Kept(u, S) \in Seq(A) /\ Append(u, x) \in Seq(A)
    BY KeptEntries
  <2>2. Kept(Append(u, x), S) = IF x \in S THEN Append(Kept(u, S), x) ELSE Kept(u, S)
    BY KeptAppend
  <2>3. Kept(Append(u, x), S \cap R) =
          IF x \in S \cap R THEN Append(Kept(u, S \cap R), x) ELSE Kept(u, S \cap R)
    BY KeptAppend
  <2>4. Kept(Append(Kept(u, S), x), R) =
          IF x \in R THEN Append(Kept(Kept(u, S), R), x) ELSE Kept(Kept(u, S), R)
    BY <2>1, KeptAppend
  <2>5. Kept(Kept(Append(u, x), S), R) = Kept(Append(u, x), S \cap R)
    <3>0. Kept(Kept(u, S), R) = Kept(u, S \cap R)
      BY <1>2
    <3>1. CASE x \in S
      <4>1. Kept(Append(u, x), S) = Append(Kept(u, S), x) /\ (x \in S \cap R <=> x \in R)
        BY <2>2, <3>1
      <4>2. CASE x \in R
        BY <2>3, <2>4, <3>0, <4>1, <4>2
      <4>3. CASE x \notin R
        BY <2>3, <2>4, <3>0, <4>1, <4>3
      <4> QED BY <4>2, <4>3
    <3>2. CASE x \notin S
      BY <1>2, <2>2, <2>3, <3>2
    <3> QED BY <3>1, <3>2
  <2> QED BY <2>1, <2>5
<1> HIDE DEF T
<1>3. s \in T
  BY <1>1, <1>2, SeqSetInduction
<1> QED BY <1>3 DEF T
-----------------------------------------------------------------------------
(* Putting an entry in and taking one out.                                 *)

LEMMA EntriesOfOne ==
  ASSUME NEW A, NEW x \in A
  PROVE  <<x>> \in Seq(A) /\ ToSet(<<x>>) = {x} /\ Unrepeated(<<x>>)
<1>1. /\ <<x>> \in Seq(A) /\ Len(<<x>>) = 1 /\ <<x>>[1] = x
      /\ \A i \in 1..1 : i = 1
  OBVIOUS
<1> QED BY <1>1 DEF ToSet, Unrepeated

\* A list is what stands before its place k and what stands from there on.
LEMMA SplitAt ==
  ASSUME NEW A, NEW s \in Seq(A), NEW k \in 1..Len(s) + 1
  PROVE  /\ SubSeq(s, 1, k - 1) \in Seq(A) /\ SubSeq(s, k, Len(s)) \in Seq(A)
         /\ SubSeq(s, 1, k - 1) \o SubSeq(s, k, Len(s)) = s
<1>1. Len(s) \in Nat /\ k \in Int /\ 1 <= k /\ k <= Len(s) + 1
  OBVIOUS
<1>2. /\ k - 1 \in 0..Len(s) /\ 1 \in 1..Len(s) + 1 /\ k - 1 \in 1 - 1..Len(s)
      /\ Len(s) \in k - 1..Len(s) /\ (k - 1) + 1 = k
  BY <1>1
<1>3. SubSeq(s, 1, k - 1) \in Seq(A)
  <2>1. \A i \in 1..k - 1 : s[i] \in A
    <3> SUFFICES ASSUME NEW i \in 1..k - 1 PROVE s[i] \in A
      OBVIOUS
    <3>1. i \in 1..Len(s)
      BY <1>1
    <3> QED BY <3>1, ElementOfSeq
  <2>2. 1 \in Int /\ k - 1 \in Int
    BY <1>1
  <2> QED BY <2>1, <2>2, SubSeqProperties
<1>4. SubSeq(s, k, Len(s)) \in Seq(A)
  <2>1. \A i \in k..Len(s) : s[i] \in A
    <3> SUFFICES ASSUME NEW i \in k..Len(s) PROVE s[i] \in A
      OBVIOUS
    <3>1. i \in 1..Len(s)
      BY <1>1
    <3> QED BY <3>1, ElementOfSeq
  <2> QED BY <1>1, <2>1, SubSeqProperties
<1>5. SubSeq(s, 1, k - 1) \o SubSeq(s, (k - 1) + 1, Len(s)) = SubSeq(s, 1, Len(s))
  BY <1>2, ConcatAdjacentSubSeq
<1>6. SubSeq(s, 1, Len(s)) = s
  BY SubSeqFull
<1> QED BY <1>2, <1>3, <1>4, <1>5, <1>6

LEMMA InsertEntries ==
  ASSUME NEW A, NEW s \in Seq(A), NEW x \in A, NEW k \in 1..Len(s) + 1
  PROVE  /\ InsertAt(s, k, x) \in Seq(A)
         /\ ToSet(InsertAt(s, k, x)) = ToSet(s) \cup {x}
         /\ Unrepeated(s) /\ x \notin ToSet(s) => Unrepeated(InsertAt(s, k, x))
<1> DEFINE a == SubSeq(s, 1, k - 1)
           b == SubSeq(s, k, Len(s))
<1>1. a \in Seq(A) /\ b \in Seq(A) /\ a \o b = s
  BY SplitAt
<1>2. InsertAt(s, k, x) = (a \o <<x>>) \o b
  BY DEF InsertAt
<1> HIDE DEF a, b
<1>3. <<x>> \in Seq(A) /\ ToSet(<<x>>) = {x} /\ Unrepeated(<<x>>)
  BY EntriesOfOne
<1>4. /\ ToSet(s) = ToSet(a) \cup ToSet(b)
      /\ Unrepeated(s) <=> Unrepeated(a) /\ Unrepeated(b) /\ ToSet(a) \cap ToSet(b) = {}
  BY <1>1, EntriesOfConcat
<1>5. /\ a \o <<x>> \in Seq(A)
      /\ ToSet(a \o <<x>>) = ToSet(a) \cup {x}
      /\ Unrepeated(a \o <<x>>) <=> Unrepeated(a) /\ ToSet(a) \cap {x} = {}
  BY <1>1, <1>3, EntriesOfConcat
<1>6. /\ InsertAt(s, k, x) \in Seq(A)
      /\ ToSet(InsertAt(s, k, x)) = ToSet(a \o <<x>>) \cup ToSet(b)
      /\ Unrepeated(InsertAt(s, k, x)) <=>
           Unrepeated(a \o <<x>>) /\ Unrepeated(b) /\ ToSet(a \o <<x>>) \cap ToSet(b) = {}
  <2> DEFINE d == a \o <<x>>
  <2>1. d \in Seq(A)
    BY <1>5
  <2> HIDE DEF d
  <2>2. /\ d \o b \in Seq(A)
        /\ ToSet(d \o b) = ToSet(d) \cup ToSet(b)
        /\ Unrepeated(d \o b) <=>
             Unrepeated(d) /\ Unrepeated(b) /\ ToSet(d) \cap ToSet(b) = {}
    BY <1>1, <2>1, EntriesOfConcat
  <2>3. InsertAt(s, k, x) = d \o b
    BY <1>2 DEF d
  <2> QED BY <2>2, <2>3 DEF d
<1> QED BY <1>4, <1>5, <1>6

LEMMA RemoveEntries ==
  ASSUME NEW A, NEW s \in Seq(A), NEW k \in 1..Len(s)
  PROVE  /\ RemoveAt(s, k) \in Seq(A)
         /\ Unrepeated(s) => /\ Unrepeated(RemoveAt(s, k))
                             /\ ToSet(RemoveAt(s, k)) = ToSet(s) \ {s[k]}
<1> DEFINE a == SubSeq(s, 1, k - 1)
           b == SubSeq(s, k, Len(s))
           c == SubSeq(s, k + 1, Len(s))
<1>1. k \in 1..Len(s) + 1 /\ k + 1 \in 1..Len(s) + 1 /\ Len(s) \in k..Len(s) /\ s[k] \in A
  BY ElementOfSeq
<1>2. a \in Seq(A) /\ b \in Seq(A) /\ a \o b = s
  BY <1>1, SplitAt
<1>3. c \in Seq(A)
  BY <1>1, SplitAt
<1>4. b = <<s[k]>> \o c
  BY <1>1, SubSeqRecursiveFirst
<1>5. RemoveAt(s, k) = a \o c
  BY DEF RemoveAt
<1> HIDE DEF a, b, c
<1>6. <<s[k]>> \in Seq(A) /\ ToSet(<<s[k]>>) = {s[k]}
  BY <1>1, EntriesOfOne
<1>7. /\ ToSet(s) = ToSet(a) \cup ToSet(b)
      /\ Unrepeated(s) <=> Unrepeated(a) /\ Unrepeated(b) /\ ToSet(a) \cap ToSet(b) = {}
  <2>1. /\ ToSet(a \o b) = ToSet(a) \cup ToSet(b)
        /\ Unrepeated(a \o b) <=>
             Unrepeated(a) /\ Unrepeated(b) /\ ToSet(a) \cap ToSet(b) = {}
    BY <1>2, EntriesOfConcat, Zenon
  <2> QED BY <1>2, <2>1
<1>8. /\ ToSet(b) = {s[k]} \cup ToSet(c)
      /\ Unrepeated(b) => Unrepeated(c) /\ {s[k]} \cap ToSet(c) = {}
  BY <1>3, <1>4, <1>6, EntriesOfConcat
<1>9. /\ a \o c \in Seq(A)
      /\ ToSet(a \o c) = ToSet(a) \cup ToSet(c)
      /\ Unrepeated(a \o c) <=> Unrepeated(a) /\ Unrepeated(c) /\ ToSet(a) \cap ToSet(c) = {}
  BY <1>2, <1>3, EntriesOfConcat
<1> QED BY <1>5, <1>7, <1>8, <1>9

-----------------------------------------------------------------------------
(* The inductive invariant.                                                *)

\* The list a plan leaves at a generated pointer in front of which f stands.
Layout(q, p, f) ==
  IF p \in DOMAIN q.extend THEN Extended(f \o q.gen[p], q.extend[p]) ELSE f \o q.gen[p]

\* The documents d and the manifest m are what the plan q asks for.
AsPlanned(q, d, m) ==
  /\ DOMAIN m = DOMAIN q.gen
  /\ \A p \in DOMAIN q.gen \cap Lists : \E f \in ListValues :
       /\ ToSet(f) \cap ToSet(q.gen[p]) = {}
       /\ d[p] = Layout(q, p, f)
       /\ m[p] = Entries(ToSet(d[p]) \ ToSet(f))
  /\ \A p \in DOMAIN q.gen \ Lists : d[p] = q.gen[p] /\ m[p] = Whole(q.gen[p])
  /\ \A p \in q.delete : d[p] = Missing
  /\ \A p \in DOMAIN q.set : d[p] = q.set[p]
  /\ \A p \in DOMAIN q.extend \ DOMAIN q.gen :
       d[p] \in ListValues /\ ToSet(q.extend[p]) \subseteq ToSet(d[p])

\* A run writes what it prepared, surface by surface; "done" until something changes.
RunInv ==
  /\ pc = "idle" => todo = {}
  /\ pc = "apply" => /\ txn = source
                     /\ outcome = "none"
                     /\ AsPlanned(txn, candidate, record)
                     /\ \A p \in Pointers : SurfaceOf[p] \notin todo => doc[p] = candidate[p]
  /\ outcome = "done" => txn = source /\ AsPlanned(source, doc, owned)

\* d has nothing at p that preparing the sources again, with the manifest
\* there is, would refuse.
Accepts(d, p) ==
  /\ p \in Lists \cap (DOMAIN source.gen \cup DOMAIN owned \cup DOMAIN source.extend) =>
       d[p] \notin Scalars
  /\ p \in DOMAIN source.gen \ Lists =>
       \/ d[p] \in {Missing, source.gen[p]}
       \/ p \in DOMAIN owned /\ owned[p] = Whole(d[p])
  /\ p \in DOMAIN owned \ (Lists \cup DOMAIN source.gen \cup DOMAIN source.set) =>
       d[p] = Missing \/ owned[p] = Whole(d[p])

RepeatInv ==
  /\ pc = "apply" => \A p \in Pointers : Accepts(doc, p) /\ Accepts(candidate, p)
  /\ outcome = "crashed" => pc = "idle" /\ \A p \in Pointers : Accepts(doc, p)

\* What the history variables call a tool's is there and is not the compiler's.
TheirsInv ==
  /\ \A p \in Lists : theirs[p] \subseteq EntriesOf(doc[p])
  /\ \A p \in Lists \cap DOMAIN owned : theirs[p] \cap owned[p].items = {}
  /\ \A p \in loose : doc[p] \in Scalars /\ ~(p \in DOMAIN owned /\ owned[p] = Whole(doc[p]))

\* The documents to write keep it.
KeepInv ==
  pc = "apply" =>
    /\ \A p \in Lists \cap DOMAIN txn.gen : theirs[p] \cap record[p].items = {}
    /\ \A p \in Lists \ txn.delete : Only(candidate[p], theirs[p]) = Only(doc[p], theirs[p])
    /\ \A p \in loose : p \notin DOMAIN owned /\ p \notin DOMAIN txn.gen
    /\ \A p \in loose \ PatchNames(txn) : candidate[p] = doc[p]

\* The manifest m vouches for everything in d that is in neither L nor T.
Vouches(m, d, L, T) ==
  /\ \A p \in Lists \ L : d[p] \notin Scalars
  /\ \A p \in Pointers \ (Lists \cup L) : d[p] = Missing \/ (p \in DOMAIN m /\ m[p] = Whole(d[p]))
  /\ \A p \in Lists : EntriesOf(d[p]) \subseteq
       T[p] \cup (IF p \in DOMAIN m THEN m[p].items ELSE {})

\* As long as no run was cut short.
VouchInv ==
  ~cut =>
    /\ pc = "idle" => Vouches(owned, doc, loose, theirs)
    /\ pc = "apply" =>
         Vouches(record, candidate, loose \cup (DOMAIN txn.set \ DOMAIN txn.gen),
                 [p \in Lists |-> theirs[p] \cup
                    (IF p \in DOMAIN txn.extend \ DOMAIN txn.gen THEN ToSet(txn.extend[p]) ELSE {})])
-----------------------------------------------------------------------------
(* Values.                                                                 *)

LEMMA ListFacts ==
  /\ << >> \in ListValues /\ ToSet(<< >>) = {}
  /\ \A v \in ListValues : IsList(v) /\ v \in Seq(Items) /\ Unrepeated(v) /\ ToSet(v) \subseteq Items
  /\ \A v \in Scalars \cup {Missing} : ~IsList(v)
  /\ \A p \in Pointers : \A v \in ValuesAt(p) :
       /\ IsList(v) <=> v \in ListValues
       /\ IsList(v) => p \in Lists
       /\ p \in Lists => v \in Scalars \cup {Missing} \cup ListValues
<1>1. << >> \in ListValues /\ ToSet(<< >>) = {}
  BY EntriesOfEmpty DEF ListValues
<1>2. ASSUME NEW v \in ListValues
      PROVE  IsList(v) /\ v \in Seq(Items) /\ Unrepeated(v) /\ ToSet(v) \subseteq Items
  <2>1. v \in Seq(Items) /\ Unrepeated(v)
    BY DEF ListValues
  <2>2. ToSet(v) \subseteq Items
    BY <2>1, EntriesInSet
  <2> QED BY <2>1, <2>2, ValuesAssumption DEF IsList
<1>3. \A p \in Pointers : \A v \in ValuesAt(p) :
        /\ IsList(v) <=> v \in ListValues
        /\ IsList(v) => p \in Lists
        /\ p \in Lists => v \in Scalars \cup {Missing} \cup ListValues
  BY <1>2 DEF ValuesAt, IsList
<1> QED BY <1>1, <1>2, <1>3 DEF IsList

\* What a comprehension leaves of a list is a list.
LEMMA WithoutFacts ==
  ASSUME NEW s \in ListValues, NEW S
  PROVE  /\ Without(s, S) \in ListValues
         /\ ToSet(Without(s, S)) = ToSet(s) \ S
         /\ Kept(s, S) \in ListValues
         /\ ToSet(Kept(s, S)) = ToSet(s) \cap S
<1>1. s \in Seq(Items) /\ Unrepeated(s) /\ ToSet(s) \subseteq Items
  BY ListFacts
<1>2. /\ Kept(s, S) \in Seq(Items) /\ Unrepeated(Kept(s, S))
      /\ ToSet(Kept(s, S)) = ToSet(s) \cap S
  BY <1>1, KeptEntries
<1>3. /\ Kept(s, Items \ S) \in Seq(Items) /\ Unrepeated(Kept(s, Items \ S))
      /\ ToSet(Kept(s, Items \ S)) = ToSet(s) \cap (Items \ S)
  BY <1>1, KeptEntries
<1> QED BY <1>1, <1>2, <1>3 DEF Without, ListValues

LEMMA ConcatFacts ==
  ASSUME NEW s \in ListValues, NEW t \in ListValues, ToSet(s) \cap ToSet(t) = {}
  PROVE  /\ s \o t \in ListValues
         /\ ToSet(s \o t) = ToSet(s) \cup ToSet(t)
         /\ \A S : Kept(s \o t, S) = Kept(s, S) \o Kept(t, S)
         /\ \A S : ToSet(t) \cap S = {} => Kept(s \o t, S) = Kept(s, S)
         /\ Len(s) <= Len(s \o t) /\ \A i \in 1..Len(s) : (s \o t)[i] = s[i]
<1>1. s \in Seq(Items) /\ t \in Seq(Items) /\ Unrepeated(s) /\ Unrepeated(t)
  BY ListFacts
<1>2. s \o t \in Seq(Items) /\ ToSet(s \o t) = ToSet(s) \cup ToSet(t) /\ Unrepeated(s \o t)
  BY <1>1, EntriesOfConcat
<1>3. \A S : Kept(s \o t, S) = Kept(s, S) \o Kept(t, S)
  BY <1>1, KeptConcat
<1>4. ASSUME NEW S, ToSet(t) \cap S = {} PROVE Kept(s \o t, S) = Kept(s, S)
  <2>1. Kept(t, S) = << >> /\ Kept(s, S) \in Seq(Items)
    BY <1>1, <1>4, KeptAllOrNone, KeptEntries
  <2> QED BY <1>3, <2>1, ConcatEmptySeq
<1>5. Len(s) <= Len(s \o t) /\ \A i \in 1..Len(s) : (s \o t)[i] = s[i]
  BY <1>1
<1> QED BY <1>2, <1>3, <1>4, <1>5 DEF ListValues

\* extend adds what is not there yet, and nothing else.
LEMMA ExtendedFacts ==
  ASSUME NEW s \in ListValues, NEW t \in ListValues
  PROVE  /\ Extended(s, t) \in ListValues
         /\ ToSet(Extended(s, t)) = ToSet(s) \cup ToSet(t)
         /\ ToSet(t) \subseteq ToSet(s) => Extended(s, t) = s
         /\ \A S : ToSet(t) \cap S \subseteq ToSet(s) => Kept(Extended(s, t), S) = Kept(s, S)
         /\ Len(s) <= Len(Extended(s, t)) /\ \A i \in 1..Len(s) : Extended(s, t)[i] = s[i]
<1> DEFINE rest == Without(t, ToSet(s))
<1>1. rest \in ListValues /\ ToSet(rest) = ToSet(t) \ ToSet(s)
  BY WithoutFacts
<1>2. Extended(s, t) = s \o rest
  BY DEF Extended
<1> HIDE DEF rest
<1>3. /\ s \o rest \in ListValues
      /\ ToSet(s \o rest) = ToSet(s) \cup ToSet(rest)
      /\ \A S : ToSet(rest) \cap S = {} => Kept(s \o rest, S) = Kept(s, S)
      /\ Len(s) <= Len(s \o rest) /\ \A i \in 1..Len(s) : (s \o rest)[i] = s[i]
  <2>1. ToSet(s) \cap ToSet(rest) = {}
    BY <1>1
  <2> QED BY <1>1, <2>1, ConcatFacts
<1>4. ASSUME ToSet(t) \subseteq ToSet(s) PROVE Extended(s, t) = s
  <2>1. t \in Seq(Items) /\ s \in Seq(Items) /\ ToSet(t) \cap (Items \ ToSet(s)) = {}
    BY <1>4, ListFacts
  <2>2. Without(t, ToSet(s)) = << >>
    BY <2>1, KeptAllOrNone DEF Without
  <2> QED BY <2>1, <2>2, ConcatEmptySeq DEF Extended
<1>5. \A S : ToSet(t) \cap S \subseteq ToSet(s) => ToSet(rest) \cap S = {}
  BY <1>1
<1>6. ToSet(s) \cup ToSet(rest) = ToSet(s) \cup ToSet(t)
  BY <1>1
<1> QED BY <1>2, <1>3, <1>4, <1>5, <1>6

\* The entries in front of what a plan generates stay where they are.
LEMMA LayoutFacts ==
  ASSUME NEW q, IsSource(q), NEW p \in DOMAIN q.gen \cap Lists, NEW f \in ListValues,
         ToSet(f) \cap ToSet(q.gen[p]) = {}
  PROVE  /\ Layout(q, p, f) \in ListValues
         /\ ToSet(q.gen[p]) \subseteq ToSet(Layout(q, p, f))
         /\ ToSet(f) \subseteq ToSet(Layout(q, p, f))
         /\ ToSet(Layout(q, p, f)) \subseteq ToSet(f) \cup ToSet(q.gen[p])
              \cup (IF p \in DOMAIN q.extend THEN ToSet(q.extend[p]) ELSE {})
         /\ \A S : (ToSet(Layout(q, p, f)) \ ToSet(f)) \cap S = {} =>
                     Kept(Layout(q, p, f), S) = Kept(f, S)
         /\ Len(f) <= Len(Layout(q, p, f)) /\ \A i \in 1..Len(f) : Layout(q, p, f)[i] = f[i]
<1> DEFINE g == f \o q.gen[p]
<1>1. q.gen[p] \in ListValues
  BY DEF IsSource
<1>2. /\ g \in ListValues /\ ToSet(g) = ToSet(f) \cup ToSet(q.gen[p])
      /\ \A S : ToSet(q.gen[p]) \cap S = {} => Kept(g, S) = Kept(f, S)
      /\ Len(f) <= Len(g) /\ \A i \in 1..Len(f) : g[i] = f[i]
  BY <1>1, ConcatFacts
<1>3. Layout(q, p, f) = IF p \in DOMAIN q.extend THEN Extended(g, q.extend[p]) ELSE g
  BY DEF Layout
<1> HIDE DEF g
<1>4. CASE p \in DOMAIN q.extend
  <2>1. q.extend[p] \in ListValues
    BY <1>4 DEF IsSource
  <2>2. /\ Extended(g, q.extend[p]) \in ListValues
        /\ ToSet(Extended(g, q.extend[p])) = ToSet(g) \cup ToSet(q.extend[p])
        /\ \A S : ToSet(q.extend[p]) \cap S \subseteq ToSet(g) =>
                    Kept(Extended(g, q.extend[p]), S) = Kept(g, S)
        /\ Len(g) <= Len(Extended(g, q.extend[p]))
        /\ \A i \in 1..Len(g) : Extended(g, q.extend[p])[i] = g[i]
    BY <1>2, <2>1, ExtendedFacts
  <2>3. Layout(q, p, f) = Extended(g, q.extend[p])
    BY <1>3, <1>4
  <2>4. /\ Layout(q, p, f) \in ListValues
        /\ ToSet(Layout(q, p, f)) = ToSet(f) \cup ToSet(q.gen[p]) \cup ToSet(q.extend[p])
    BY <1>2, <2>2, <2>3
  <2>5. ASSUME NEW S, (ToSet(Layout(q, p, f)) \ ToSet(f)) \cap S = {}
        PROVE  Kept(Layout(q, p, f), S) = Kept(f, S)
    <3>1. ToSet(q.extend[p]) \cap S \subseteq ToSet(g) /\ ToSet(q.gen[p]) \cap S = {}
      BY <1>2, <2>4, <2>5
    <3> QED BY <1>2, <2>2, <2>3, <3>1
  <2>6. Len(f) <= Len(Layout(q, p, f)) /\ \A i \in 1..Len(f) : Layout(q, p, f)[i] = f[i]
    <3>1. Len(f) \in Nat /\ Len(g) \in Nat /\ Len(Layout(q, p, f)) \in Nat
      BY <1>2, <2>4, ListFacts
    <3>2. \A i \in 1..Len(f) : i \in 1..Len(g)
      BY <1>2, <3>1
    <3>3. Len(f) <= Len(Layout(q, p, f))
      BY <1>2, <2>2, <2>3, <3>1
    <3> QED BY <1>2, <2>2, <2>3, <3>2, <3>3
  <2> QED BY <1>4, <2>4, <2>5, <2>6
<1>5. CASE p \notin DOMAIN q.extend
  <2>1. Layout(q, p, f) = g
    BY <1>3, <1>5
  <2>2. \A S : (ToSet(g) \ ToSet(f)) \cap S = {} => ToSet(q.gen[p]) \cap S = {}
    BY <1>2
  <2>3. \A S : (ToSet(g) \ ToSet(f)) \cap S = {} => Kept(g, S) = Kept(f, S)
    BY <1>2, <2>2
  <2> QED BY <1>2, <1>5, <2>1, <2>3
<1> QED BY <1>4, <1>5
-----------------------------------------------------------------------------
(* What preparing a plan makes of one pointer.                             *)

OwnItems(p) == IF p \in DOMAIN owned THEN owned[p].items ELSE {}
GenItems(q, p) == IF p \in DOMAIN q.gen THEN ToSet(q.gen[p]) ELSE {}

\* A list is owned by its entries, anything else by its hash.
LEMMA OwnershipFacts ==
  ASSUME NEW m, IsManifest(m), NEW p \in DOMAIN m
  PROVE  /\ p \in Pointers
         /\ p \in Lists => m[p].kind = "items" /\ m[p].items \subseteq Items /\ \A v : m[p] # Whole(v)
         /\ p \notin Lists => m[p].kind # "items" /\ \E v \in Scalars : m[p] = Whole(v)
<1>1. p \in Pointers /\ m[p] \in Ownerships(p)
  BY DEF IsManifest
<1>2. ASSUME p \in Lists
      PROVE  m[p].kind = "items" /\ m[p].items \subseteq Items /\ \A v : m[p] # Whole(v)
  <2>1. PICK S \in SUBSET Items : m[p] = Entries(S)
    BY <1>1, <1>2 DEF Ownerships
  <2>2. m[p].kind = "items" /\ m[p].items = S
    BY <2>1 DEF Entries
  <2>3. \A v : Whole(v).kind = "hash"
    BY DEF Whole
  <2> QED BY <2>2, <2>3
<1>3. ASSUME p \notin Lists
      PROVE  m[p].kind # "items" /\ \E v \in Scalars : m[p] = Whole(v)
  BY <1>1, <1>3 DEF Ownerships, Whole
<1> QED BY <1>1, <1>2, <1>3

LEMMA EntryByEntryIs ==
  ASSUME TypeOK, NEW q, IsSource(q), NEW p \in Pointers
  PROVE  EntryByEntry(q, p) <=>
           p \in Lists /\ doc[p] \in ListValues /\ p \in DOMAIN owned \cup DOMAIN q.gen
<1>1. doc[p] \in ValuesAt(p) /\ IsManifest(owned)
  BY DEF TypeOK
<1>2. IsList(doc[p]) <=> doc[p] \in ListValues
  BY <1>1, ListFacts
<1>3. IsList(doc[p]) => p \in Lists
  BY <1>1, ListFacts
<1>4. OwnsEntries(p) <=> p \in DOMAIN owned \cap Lists
  BY <1>1, OwnershipFacts DEF OwnsEntries
<1> QED BY <1>2, <1>3, <1>4 DEF EntryByEntry

\* The foreign entries: those of the file the manifest does not record and the
\* plan does not generate, in the order of the file.
LEMMA ForeignIs ==
  ASSUME TypeOK, NEW q, IsSource(q), NEW p \in Pointers
  PROVE  Foreign(q, p) = IF EntryByEntry(q, p)
                         THEN Kept(doc[p], Items \ (OwnItems(p) \cup GenItems(q, p)))
                         ELSE << >>
<1> DEFINE kept == IF OwnsEntries(p) THEN Without(doc[p], owned[p].items)
                   ELSE IF p \in DOMAIN owned /\ owned[p] = Whole(doc[p]) THEN << >>
                   ELSE doc[p]
<1>0. Foreign(q, p) = IF ~EntryByEntry(q, p) THEN << >>
                      ELSE IF p \in DOMAIN q.gen THEN Without(kept, ToSet(q.gen[p]))
                      ELSE kept
  BY DEF Foreign
<1> SUFFICES ASSUME EntryByEntry(q, p)
             PROVE  Foreign(q, p) = Kept(doc[p], Items \ (OwnItems(p) \cup GenItems(q, p)))
  BY <1>0
<1>1. p \in Lists /\ doc[p] \in ListValues /\ doc[p] \in Seq(Items) /\ ToSet(doc[p]) \subseteq Items
  BY EntryByEntryIs, ListFacts
<1>2. kept = Kept(doc[p], Items \ OwnItems(p))
  <2>1. CASE p \in DOMAIN owned
    <3>1. OwnsEntries(p) /\ OwnItems(p) = owned[p].items
      BY <1>1, <2>1, OwnershipFacts DEF TypeOK, OwnsEntries, OwnItems
    <3> QED BY <3>1 DEF Without
  <2>2. CASE p \notin DOMAIN owned
    <3>1. kept = doc[p] /\ OwnItems(p) = {}
      BY <2>2 DEF OwnsEntries, OwnItems
    <3>2. Kept(doc[p], Items \ {}) = doc[p]
      BY <1>1, KeptAllOrNone
    <3> QED BY <3>1, <3>2
  <2> QED BY <2>1, <2>2
<1> HIDE DEF kept
<1>3. CASE p \in DOMAIN q.gen
  <2>1. Without(kept, ToSet(q.gen[p])) =
          Kept(doc[p], (Items \ OwnItems(p)) \cap (Items \ ToSet(q.gen[p])))
    BY <1>1, <1>2, KeptKept DEF Without
  <2>2. (Items \ OwnItems(p)) \cap (Items \ ToSet(q.gen[p])) =
          Items \ (OwnItems(p) \cup GenItems(q, p))
    BY <1>3 DEF GenItems
  <2> QED BY <1>0, <1>3, <2>1, <2>2
<1>4. CASE p \notin DOMAIN q.gen
  <2>1. Items \ OwnItems(p) = Items \ (OwnItems(p) \cup GenItems(q, p))
    BY <1>4 DEF GenItems
  <2> QED BY <1>0, <1>2, <1>4, <2>1
<1> QED BY <1>3, <1>4

LEMMA ForeignFacts ==
  ASSUME TypeOK, NEW q, IsSource(q), NEW p \in Pointers
  PROVE  /\ Foreign(q, p) \in ListValues
         /\ ToSet(Foreign(q, p)) \subseteq EntriesOf(doc[p])
         /\ ToSet(Foreign(q, p)) \cap OwnItems(p) = {}
         /\ ToSet(Foreign(q, p)) \cap GenItems(q, p) = {}
<1>1. CASE EntryByEntry(q, p)
  <2>1. doc[p] \in ListValues /\ EntriesOf(doc[p]) = ToSet(doc[p])
    BY <1>1, EntryByEntryIs, ListFacts DEF EntriesOf
  <2>2. /\ Foreign(q, p) \in ListValues
        /\ ToSet(Foreign(q, p)) = ToSet(doc[p]) \cap (Items \ (OwnItems(p) \cup GenItems(q, p)))
    <3> DEFINE S == Items \ (OwnItems(p) \cup GenItems(q, p))
    <3>1. Foreign(q, p) = Kept(doc[p], S)
      BY <1>1, ForeignIs
    <3> HIDE DEF S
    <3>2. Kept(doc[p], S) \in ListValues /\ ToSet(Kept(doc[p], S)) = ToSet(doc[p]) \cap S
      BY <2>1, WithoutFacts
    <3> QED BY <3>1, <3>2 DEF S
  <2> QED BY <2>1, <2>2
<1>2. CASE ~EntryByEntry(q, p)
  <2>1. Foreign(q, p) = << >>
    BY <1>2, ForeignIs
  <2> QED BY <2>1, ListFacts
<1> QED BY <1>1, <1>2

\* Which values refuse a plan: at a list, one that is not a list; elsewhere, one
\* the manifest does not vouch for and the plan does not ask for.
LEMMA ConflictsAre ==
  ASSUME TypeOK, NEW q, IsSource(q), NEW p \in Pointers
  PROVE  p \in Conflicts(q) <=>
           /\ p \in DOMAIN owned \cup DOMAIN q.gen
           /\ doc[p] \in Scalars
           /\ p \notin Lists =>
                /\ ~(p \in DOMAIN owned /\ owned[p] = Whole(doc[p]))
                /\ ~(p \in DOMAIN q.gen /\ doc[p] = q.gen[p])
<1>1. doc[p] \in ValuesAt(p) /\ IsManifest(owned) /\ Missing \notin Scalars
  BY ValuesAssumption DEF TypeOK
<1>2. CASE p \in Lists
  <2>1. doc[p] \in Scalars \cup {Missing} \cup ListValues
    BY <1>1, <1>2, ListFacts
  <2>2. p \in DOMAIN owned => owned[p] # Whole(doc[p])
    BY <1>1, <1>2, OwnershipFacts
  <2>3. p \in DOMAIN q.gen => q.gen[p] \in ListValues
    BY <1>2 DEF IsSource
  <2>4. \A v \in ListValues : v \notin Scalars \cup {Missing}
    BY ValuesAssumption
  <2> QED BY <1>1, <1>2, <2>1, <2>2, <2>3, <2>4, EntryByEntryIs DEF Conflicts
<1>3. CASE p \notin Lists
  <2>1. doc[p] \in Scalars \cup {Missing} /\ ~EntryByEntry(q, p)
    BY <1>1, <1>3, EntryByEntryIs DEF ValuesAt
  <2> QED BY <1>1, <1>3, <2>1 DEF Conflicts
<1> QED BY <1>2, <1>3

\* The value of p before the patch.
LEMMA ReconciledFacts ==
  ASSUME TypeOK, NEW q, IsSource(q), NEW p \in Pointers
  PROVE  /\ p \in DOMAIN q.gen \cap Lists => Reconciled(q, p) = Foreign(q, p) \o q.gen[p]
         /\ p \in DOMAIN q.gen \ Lists => Reconciled(q, p) = q.gen[p]
         /\ p \in DOMAIN owned \ (DOMAIN q.gen \cup Lists) => Reconciled(q, p) = Missing
         /\ p \in (DOMAIN owned \cap Lists) \ DOMAIN q.gen =>
              Reconciled(q, p) = IF Foreign(q, p) # << >> THEN Foreign(q, p) ELSE Missing
         /\ p \notin DOMAIN owned \cup DOMAIN q.gen => Reconciled(q, p) = doc[p]
         /\ Reconciled(q, p) \in ValuesAt(p)
         /\ p \in Lists \cap (DOMAIN owned \cup DOMAIN q.gen) => Reconciled(q, p) \notin Scalars
<1>1. doc[p] \in ValuesAt(p) /\ Foreign(q, p) \in ListValues
  BY ForeignFacts DEF TypeOK
<1>2. \A v \in ListValues : v \notin Scalars
  BY ValuesAssumption
<1>3. CASE p \in DOMAIN q.gen \cap Lists
  <2>1. q.gen[p] \in ListValues /\ ToSet(Foreign(q, p)) \cap ToSet(q.gen[p]) = {}
    BY <1>3, ForeignFacts DEF IsSource, GenItems
  <2>2. Foreign(q, p) \o q.gen[p] \in ListValues
    BY <1>1, <2>1, ConcatFacts
  <2>3. Reconciled(q, p) = Foreign(q, p) \o q.gen[p]
    BY <1>3 DEF Reconciled
  <2> QED BY <1>2, <1>3, <2>2, <2>3 DEF ValuesAt
<1>4. CASE p \in DOMAIN q.gen \ Lists
  <2>1. Reconciled(q, p) = q.gen[p] /\ q.gen[p] \in Scalars
    BY <1>4 DEF Reconciled, IsSource
  <2> QED BY <1>4, <2>1 DEF ValuesAt
<1>5. CASE p \in DOMAIN owned \ (DOMAIN q.gen \cup Lists)
  <2>1. Foreign(q, p) = << >>
    BY <1>5, ForeignIs, EntryByEntryIs
  <2>2. Reconciled(q, p) = Missing
    BY <1>5, <2>1 DEF Reconciled
  <2> QED BY <1>5, <2>2 DEF ValuesAt
<1>6. CASE p \in (DOMAIN owned \cap Lists) \ DOMAIN q.gen
  <2>1. Reconciled(q, p) = IF Foreign(q, p) # << >> THEN Foreign(q, p) ELSE Missing
    BY <1>6 DEF Reconciled
  <2> QED BY <1>1, <1>2, <1>6, <2>1, ValuesAssumption DEF ValuesAt
<1>7. CASE p \notin DOMAIN owned \cup DOMAIN q.gen
  BY <1>1, <1>7 DEF Reconciled
<1> QED BY <1>3, <1>4, <1>5, <1>6, <1>7

\* A patch fails over a value that only the tool, or nobody, answers for.
LEMMA PatchFailsAre ==
  ASSUME TypeOK, NEW q, IsSource(q)
  PROVE  PatchFails(q) <=>
           \E p \in DOMAIN q.extend \ (DOMAIN owned \cup DOMAIN q.gen) : doc[p] \in Scalars
<1>1. \A p \in DOMAIN q.extend : p \in Pointers /\ p \in Lists
  BY PointersAssumption DEF IsSource
<1>2. \A p \in DOMAIN q.extend :
        Reconciled(q, p) \in Scalars <=>
          p \notin DOMAIN owned \cup DOMAIN q.gen /\ doc[p] \in Scalars
  BY <1>1, ReconciledFacts
<1> QED BY <1>2 DEF PatchFails

\* The value of p in the document to write.
LEMMA PatchedFacts ==
  ASSUME TypeOK, NEW q, IsSource(q), ~PatchFails(q), NEW p \in Pointers
  PROVE  /\ p \in DOMAIN q.gen \cap Lists => Patched(q, p) = Layout(q, p, Foreign(q, p))
         /\ p \in DOMAIN q.gen \ Lists => Patched(q, p) = q.gen[p]
         /\ p \in q.delete => Patched(q, p) = Missing
         /\ p \in DOMAIN q.set => Patched(q, p) = q.set[p]
         /\ p \in DOMAIN q.extend \ DOMAIN q.gen =>
              LET v == Reconciled(q, p)
              IN Patched(q, p) = Extended(IF v = Missing THEN << >> ELSE v, q.extend[p])
         /\ p \notin DOMAIN q.gen \cup q.delete \cup DOMAIN q.set \cup DOMAIN q.extend =>
              Patched(q, p) = Reconciled(q, p)
         /\ Patched(q, p) \in ValuesAt(p)
<1>1. /\ DOMAIN q.extend \subseteq Lists /\ DOMAIN q.set \subseteq Pointers \ Lists
      /\ q.delete \subseteq Pointers \ (DOMAIN q.gen \cup DOMAIN q.extend \cup DOMAIN q.set)
  BY DEF IsSource
<1>2. Reconciled(q, p) \in ValuesAt(p)
  BY ReconciledFacts
<1>3. CASE p \in DOMAIN q.gen \cap Lists
  <2>1. p \notin q.delete /\ p \notin DOMAIN q.set
    BY <1>1, <1>3
  <2>2. Reconciled(q, p) = Foreign(q, p) \o q.gen[p]
    BY <1>3, ReconciledFacts
  <2>3. Foreign(q, p) \in ListValues /\ ToSet(Foreign(q, p)) \cap ToSet(q.gen[p]) = {}
    BY <1>3, ForeignFacts DEF GenItems
  <2>4. q.gen[p] \in ListValues
    BY <1>3 DEF IsSource
  <2>5. Foreign(q, p) \o q.gen[p] # Missing
    BY <2>3, <2>4, ConcatFacts, ValuesAssumption
  <2>6. Patched(q, p) = Layout(q, p, Foreign(q, p))
    BY <2>1, <2>2, <2>5 DEF Patched, Layout
  <2>7. Layout(q, p, Foreign(q, p)) \in ListValues
    BY <1>3, <2>3, LayoutFacts
  <2> QED BY <1>1, <1>3, <2>1, <2>6, <2>7 DEF ValuesAt
<1>4. CASE p \in DOMAIN q.gen \ Lists
  <2>1. p \notin q.delete /\ p \notin DOMAIN q.extend
    BY <1>1, <1>4
  <2>2. p \in DOMAIN q.set => q.set[p] = q.gen[p]
    BY <1>4 DEF IsSource
  <2>3. Reconciled(q, p) = q.gen[p] /\ q.gen[p] \in Scalars
    BY <1>4, ReconciledFacts DEF IsSource
  <2>4. Patched(q, p) = q.gen[p]
    BY <2>1, <2>2, <2>3 DEF Patched
  <2> QED BY <1>4, <2>1, <2>2, <2>3, <2>4 DEF ValuesAt
<1>5. CASE p \in q.delete
  <2>1. p \notin DOMAIN q.gen \cup DOMAIN q.extend \cup DOMAIN q.set
    BY <1>1, <1>5
  <2> QED BY <1>5, <2>1 DEF Patched, ValuesAt
<1>6. CASE p \in DOMAIN q.set \ DOMAIN q.gen
  <2>1. p \notin q.delete /\ p \notin DOMAIN q.extend /\ q.set[p] \in Scalars
    BY <1>1, <1>6 DEF IsSource
  <2> QED BY <1>6, <2>1 DEF Patched, ValuesAt
<1>7. CASE p \in DOMAIN q.extend \ DOMAIN q.gen
  <2> DEFINE v == Reconciled(q, p)
             base == IF v = Missing THEN << >> ELSE v
  <2>1. p \notin q.delete /\ p \notin DOMAIN q.set /\ p \in Lists
    BY <1>1, <1>7
  <2>2. Patched(q, p) = Extended(base, q.extend[p])
    BY <1>7, <2>1 DEF Patched
  <2>3. v \in Scalars \cup {Missing} \cup ListValues /\ v \notin Scalars
    BY <1>2, <1>7, <2>1, ListFacts DEF PatchFails
  <2>4. base \in ListValues
    BY <2>3, ListFacts
  <2>5. q.extend[p] \in ListValues
    BY <1>7 DEF IsSource
  <2> HIDE DEF base
  <2>6. Extended(base, q.extend[p]) \in ListValues
    BY <2>4, <2>5, ExtendedFacts
  <2> QED BY <1>7, <2>1, <2>2, <2>6 DEF ValuesAt, base
<1>8. CASE p \notin DOMAIN q.gen \cup q.delete \cup DOMAIN q.set \cup DOMAIN q.extend
  BY <1>2, <1>8 DEF Patched
<1> QED BY <1>3, <1>4, <1>5, <1>6, <1>7, <1>8
-----------------------------------------------------------------------------
(* What preparing a plan makes of the whole.                               *)

\* What the manifest to publish says of a list: the entries in the document
\* that are not foreign; of another value, the value.
LEMMA RecordFacts ==
  ASSUME TypeOK, NEW q, IsSource(q), ~PatchFails(q)
  PROVE  /\ DOMAIN Record(q) = DOMAIN q.gen
         /\ \A p \in DOMAIN q.gen \cap Lists :
              Record(q)[p] = Entries(ToSet(Patched(q, p)) \ ToSet(Foreign(q, p)))
         /\ \A p \in DOMAIN q.gen \ Lists : Record(q)[p] = Whole(q.gen[p])
         /\ IsManifest(Record(q))
<1>1. DOMAIN Record(q) = DOMAIN q.gen /\ DOMAIN q.gen \subseteq Pointers
  BY DEF Record, IsSource
<1>2. \A p \in DOMAIN q.gen \cap Lists :
        Record(q)[p] = Entries(ToSet(Patched(q, p)) \ ToSet(Foreign(q, p)))
  BY DEF Record
<1>3. \A p \in DOMAIN q.gen \ Lists : Record(q)[p] = Whole(q.gen[p]) /\ q.gen[p] \in Scalars
  <2> SUFFICES ASSUME NEW p \in DOMAIN q.gen \ Lists
               PROVE  Record(q)[p] = Whole(q.gen[p]) /\ q.gen[p] \in Scalars
    OBVIOUS
  <2>1. Patched(q, p) = q.gen[p] /\ q.gen[p] \in Scalars
    BY <1>1, PatchedFacts DEF IsSource
  <2> QED BY <2>1 DEF Record
<1>4. ASSUME NEW p \in DOMAIN q.gen PROVE Record(q)[p] \in Ownerships(p)
  <2>1. CASE p \in Lists
    <3>1. Patched(q, p) \in ListValues
      <4>1. Foreign(q, p) \in ListValues /\ ToSet(Foreign(q, p)) \cap ToSet(q.gen[p]) = {}
        BY <1>1, ForeignFacts DEF GenItems
      <4>2. Patched(q, p) = Layout(q, p, Foreign(q, p))
        BY <1>1, <2>1, PatchedFacts
      <4> QED BY <2>1, <4>1, <4>2, LayoutFacts
    <3>2. ToSet(Patched(q, p)) \ ToSet(Foreign(q, p)) \in SUBSET Items
      BY <3>1, ListFacts
    <3> QED BY <1>2, <2>1, <3>2 DEF Ownerships
  <2>2. CASE p \notin Lists
    BY <1>3, <2>2 DEF Ownerships
  <2> QED BY <2>1, <2>2
<1> QED BY <1>1, <1>2, <1>3, <1>4 DEF IsManifest

\* The documents and the manifest of a run are what its plan asks for.
LEMMA PreparedAsPlanned ==
  ASSUME TypeOK, NEW q, IsSource(q), ~PatchFails(q)
  PROVE  AsPlanned(q, Candidate(q), Record(q))
<1>0. /\ DOMAIN q.gen \subseteq Pointers /\ DOMAIN q.extend \subseteq Pointers /\ DOMAIN q.extend \subseteq Lists
      /\ DOMAIN q.set \subseteq Pointers /\ q.delete \subseteq Pointers
  BY PointersAssumption DEF IsSource
<1>1. \A p \in Pointers : Candidate(q)[p] = Patched(q, p)
  BY DEF Candidate
<1>2. ASSUME NEW p \in DOMAIN q.gen \cap Lists
      PROVE  \E f \in ListValues : /\ ToSet(f) \cap ToSet(q.gen[p]) = {}
                                   /\ Candidate(q)[p] = Layout(q, p, f)
                                   /\ Record(q)[p] = Entries(ToSet(Candidate(q)[p]) \ ToSet(f))
  <2>1. Foreign(q, p) \in ListValues /\ ToSet(Foreign(q, p)) \cap ToSet(q.gen[p]) = {}
    BY <1>0, ForeignFacts DEF GenItems
  <2>2. Candidate(q)[p] = Layout(q, p, Foreign(q, p))
    BY <1>0, <1>1, PatchedFacts
  <2>3. Record(q)[p] = Entries(ToSet(Candidate(q)[p]) \ ToSet(Foreign(q, p)))
    BY <1>0, <1>1, RecordFacts
  <2> QED BY <2>1, <2>2, <2>3
<1>3. \A p \in DOMAIN q.gen \ Lists :
        Candidate(q)[p] = q.gen[p] /\ Record(q)[p] = Whole(q.gen[p])
  BY <1>0, <1>1, PatchedFacts, RecordFacts
<1>4. /\ \A p \in q.delete : Candidate(q)[p] = Missing
      /\ \A p \in DOMAIN q.set : Candidate(q)[p] = q.set[p]
  BY <1>0, <1>1, PatchedFacts
<1>5. ASSUME NEW p \in DOMAIN q.extend \ DOMAIN q.gen
      PROVE  Candidate(q)[p] \in ListValues /\ ToSet(q.extend[p]) \subseteq ToSet(Candidate(q)[p])
  <2> DEFINE v == Reconciled(q, p)
             base == IF v = Missing THEN << >> ELSE v
  <2>1. Candidate(q)[p] = Extended(base, q.extend[p])
    BY <1>0, <1>1, PatchedFacts
  <2>2. v \in Scalars \cup {Missing} \cup ListValues /\ v \notin Scalars
    <3>1. v \in ValuesAt(p) /\ p \in Lists
      BY <1>0, ReconciledFacts
    <3> QED BY <1>0, <3>1, ListFacts DEF PatchFails
  <2>3. base \in ListValues
    BY <2>2, ListFacts
  <2>4. q.extend[p] \in ListValues
    BY DEF IsSource
  <2> HIDE DEF base
  <2> QED BY <2>1, <2>3, <2>4, ExtendedFacts
<1>6. DOMAIN Record(q) = DOMAIN q.gen
  BY RecordFacts
<1> QED BY <1>2, <1>3, <1>4, <1>5, <1>6 DEF AsPlanned

\* Preparing again what is already as planned finds nothing to do.
LEMMA AsPlannedIsFixed ==
  ASSUME TypeOK, NEW q, IsSource(q), AsPlanned(q, doc, owned)
  PROVE  /\ ~Refused(q)
         /\ \A p \in Pointers : Candidate(q)[p] = doc[p]
         /\ DOMAIN Record(q) = DOMAIN owned
         /\ \A p \in DOMAIN owned : Record(q)[p] = owned[p]
<1>0. /\ DOMAIN q.gen \subseteq Pointers /\ DOMAIN q.extend \subseteq Pointers /\ DOMAIN q.extend \subseteq Lists
      /\ DOMAIN q.set \subseteq Pointers /\ q.delete \subseteq Pointers
  BY PointersAssumption DEF IsSource
<1>1. DOMAIN owned = DOMAIN q.gen
  BY DEF AsPlanned
<1>2. ASSUME NEW p \in DOMAIN q.gen \cap Lists
      PROVE  /\ doc[p] \in ListValues
             /\ doc[p] = Layout(q, p, Foreign(q, p))
             /\ owned[p] = Entries(ToSet(doc[p]) \ ToSet(Foreign(q, p)))
  <2>1. PICK f \in ListValues : /\ ToSet(f) \cap ToSet(q.gen[p]) = {}
                                /\ doc[p] = Layout(q, p, f)
                                /\ owned[p] = Entries(ToSet(doc[p]) \ ToSet(f))
    BY DEF AsPlanned
  <2>2. /\ doc[p] \in ListValues
        /\ ToSet(q.gen[p]) \subseteq ToSet(doc[p])
        /\ \A S : (ToSet(doc[p]) \ ToSet(f)) \cap S = {} => Kept(doc[p], S) = Kept(f, S)
    BY <2>1, LayoutFacts
  <2>3. p \in Pointers /\ p \in DOMAIN owned /\ EntryByEntry(q, p)
    BY <1>0, <1>1, <2>2, EntryByEntryIs
  <2> DEFINE S == Items \ (OwnItems(p) \cup GenItems(q, p))
  <2>4. Foreign(q, p) = Kept(doc[p], S)
    BY <2>3, ForeignIs
  <2>5. S = Items \ (ToSet(doc[p]) \ ToSet(f))
    <3>1. OwnItems(p) = ToSet(doc[p]) \ ToSet(f)
      BY <2>1, <2>3 DEF OwnItems, Entries
    <3>2. GenItems(q, p) = ToSet(q.gen[p])
      BY DEF GenItems
    <3> QED BY <2>1, <2>2, <3>1, <3>2
  <2> HIDE DEF S
  <2>6. Kept(doc[p], S) = Kept(f, S)
    BY <2>2, <2>5
  <2>7. Kept(f, S) = f
    <3>1. f \in Seq(Items) /\ ToSet(f) \subseteq Items
      BY ListFacts
    <3>2. ToSet(f) \subseteq S
      BY <2>5, <3>1
    <3> QED BY <3>1, <3>2, KeptAllOrNone
  <2> QED BY <2>1, <2>2, <2>4, <2>6, <2>7
<1>3. \A p \in DOMAIN q.gen \ Lists : doc[p] = q.gen[p] /\ owned[p] = Whole(q.gen[p])
  BY DEF AsPlanned
<1>4. \A p \in DOMAIN q.extend \ DOMAIN q.gen :
        doc[p] \in ListValues /\ ToSet(q.extend[p]) \subseteq ToSet(doc[p])
  BY DEF AsPlanned
<1>5. ~PatchFails(q)
  <2>1. \A p \in DOMAIN q.extend \ (DOMAIN owned \cup DOMAIN q.gen) : doc[p] \notin Scalars
    BY <1>4, ValuesAssumption
  <2> QED BY <2>1, PatchFailsAre
<1>6. Conflicts(q) = {}
  <2>1. ASSUME NEW p \in Pointers PROVE p \notin Conflicts(q)
    <3>1. CASE p \in DOMAIN q.gen \cap Lists
      BY <1>2, <3>1, ConflictsAre, ValuesAssumption
    <3>2. CASE p \in DOMAIN q.gen \ Lists
      BY <1>3, <3>2, ConflictsAre
    <3>3. CASE p \notin DOMAIN q.gen
      BY <1>1, <3>3, ConflictsAre
    <3> QED BY <3>1, <3>2, <3>3
  <2>2. Conflicts(q) \subseteq Pointers
    BY <1>0, <1>1 DEF Conflicts
  <2> QED BY <2>1, <2>2
<1>7. ASSUME NEW p \in Pointers PROVE Candidate(q)[p] = doc[p]
  <2>0. Candidate(q)[p] = Patched(q, p)
    BY DEF Candidate
  <2>1. CASE p \in DOMAIN q.gen \cap Lists
    BY <1>2, <1>5, <2>0, <2>1, PatchedFacts
  <2>2. CASE p \in DOMAIN q.gen \ Lists
    BY <1>3, <1>5, <2>0, <2>2, PatchedFacts
  <2>3. CASE p \in q.delete
    BY <1>5, <2>0, <2>3, PatchedFacts DEF AsPlanned
  <2>4. CASE p \in DOMAIN q.set
    BY <1>5, <2>0, <2>4, PatchedFacts DEF AsPlanned
  <2>5. p \notin DOMAIN q.gen => Reconciled(q, p) = doc[p]
    BY <1>1, ReconciledFacts
  <2>6. CASE p \in DOMAIN q.extend \ DOMAIN q.gen
    <3>1. doc[p] \in ListValues /\ doc[p] # Missing /\ ToSet(q.extend[p]) \subseteq ToSet(doc[p])
      BY <1>4, <2>6, ValuesAssumption
    <3>2. Patched(q, p) = Extended(doc[p], q.extend[p])
      BY <1>5, <2>5, <2>6, <3>1, PatchedFacts
    <3>3. q.extend[p] \in ListValues
      BY <2>6 DEF IsSource
    <3> QED BY <2>0, <3>1, <3>2, <3>3, ExtendedFacts
  <2>7. CASE p \notin DOMAIN q.gen \cup q.delete \cup DOMAIN q.set \cup DOMAIN q.extend
    BY <1>5, <2>0, <2>5, <2>7, PatchedFacts
  <2> QED BY <2>1, <2>2, <2>3, <2>4, <2>6, <2>7
<1>8. DOMAIN Record(q) = DOMAIN q.gen
  BY <1>5, RecordFacts
<1>9. ASSUME NEW p \in DOMAIN owned PROVE Record(q)[p] = owned[p]
  <2>1. CASE p \in Lists
    <3>1. Record(q)[p] = Entries(ToSet(Patched(q, p)) \ ToSet(Foreign(q, p)))
      BY <1>1, <1>5, <2>1, RecordFacts
    <3>2. Patched(q, p) = doc[p]
      BY <1>0, <1>1, <1>7 DEF Candidate
    <3> QED BY <1>1, <1>2, <2>1, <3>1, <3>2
  <2>2. CASE p \notin Lists
    BY <1>1, <1>3, <1>5, <2>2, RecordFacts
  <2> QED BY <2>1, <2>2
<1> QED BY <1>1, <1>5, <1>6, <1>7, <1>8, <1>9 DEF Refused
-----------------------------------------------------------------------------
(* Type correctness.                                                       *)

\* The documents and the manifests are functions.
Functional ==
  /\ doc = [p \in Pointers |-> doc[p]] /\ candidate = [p \in Pointers |-> candidate[p]]
  /\ owned = [p \in DOMAIN owned |-> owned[p]] /\ record = [p \in DOMAIN record |-> record[p]]

Typed == TypeOK /\ Functional

\* What every write of a tool leaves alone.
ToolFrame == /\ pc = "idle" \/ Interferes
             /\ outcome' = "none"
             /\ UNCHANGED <<owned, source, pc, txn, candidate, record, todo, cut>>

\* Only the value at p changes, to v.
Edits(p, v) == /\ doc' = [r \in Pointers |-> IF r = p THEN v ELSE doc[r]]
               /\ ToolFrame

LEMMA ToolWritesEdits ==
  ASSUME Typed, NEW p \in Pointers, NEW v, ToolWrites(p, v)
  PROVE  Edits(p, v)
<1>1. doc = [r \in Pointers |-> doc[r]]
  BY DEF Typed, Functional
<1>2. doc' = [doc EXCEPT ![p] = v]
  BY DEF ToolWrites
<1>3. [doc EXCEPT ![p] = v] = [r \in Pointers |-> IF r = p THEN v ELSE doc[r]]
  BY <1>1
<1> QED BY <1>2, <1>3 DEF Edits, ToolFrame, ToolWrites

LEMMA ListAtFacts ==
  ASSUME TypeOK, NEW p \in Lists
  PROVE  ListAt(p) \in ListValues /\ ToSet(ListAt(p)) = EntriesOf(doc[p])
<1>1. doc[p] \in ValuesAt(p)
  BY PointersAssumption DEF TypeOK
<1>2. IsList(doc[p]) <=> doc[p] \in ListValues
  BY <1>1, PointersAssumption, ListFacts
<1> QED BY <1>2, ListFacts DEF ListAt, EntriesOf

LEMMA AddEntryFacts ==
  ASSUME Typed, NEW p \in ToolPointers \cap Lists, NEW k \in 1..Len(ListAt(p)) + 1,
         NEW x \in ToolItems, AddEntry(p, k, x)
  PROVE  /\ doc[p] \notin Scalars /\ x \in Items \ EntriesOf(doc[p])
         /\ \E v \in ListValues : Edits(p, v) /\ ToSet(v) = EntriesOf(doc[p]) \cup {x}
         /\ \A r \in Lists \ {p} : theirs'[r] = theirs[r]
         /\ theirs'[p] = IF p \in DOMAIN owned /\ x \in owned[p].items THEN theirs[p]
                         ELSE theirs[p] \cup {x}
         /\ theirs' \in [Lists -> SUBSET Items]
         /\ loose' = loose
<1>1. p \in Pointers /\ x \in Items
  BY PointersAssumption, ValuesAssumption
<1>2. ListAt(p) \in ListValues /\ ToSet(ListAt(p)) = EntriesOf(doc[p])
  BY ListAtFacts DEF Typed
<1>3. doc[p] \notin Scalars /\ x \notin ToSet(ListAt(p)) /\ ToolWrites(p, InsertAt(ListAt(p), k, x))
  BY DEF AddEntry
<1>4. InsertAt(ListAt(p), k, x) \in ListValues
      /\ ToSet(InsertAt(ListAt(p), k, x)) = ToSet(ListAt(p)) \cup {x}
  <2>1. ListAt(p) \in Seq(Items) /\ Unrepeated(ListAt(p))
    BY <1>2, ListFacts
  <2> QED BY <1>1, <1>3, <2>1, InsertEntries DEF ListValues
<1>5. Edits(p, InsertAt(ListAt(p), k, x))
  BY <1>1, <1>3, ToolWritesEdits
<1>6. OwnsEntries(p) <=> p \in DOMAIN owned
  BY OwnershipFacts DEF Typed, TypeOK, OwnsEntries
<1>7. /\ theirs' = IF OwnsEntries(p) /\ x \in owned[p].items THEN theirs
                   ELSE [theirs EXCEPT ![p] = @ \cup {x}]
      /\ loose' = loose
  BY DEF AddEntry
<1>8. theirs \in [Lists -> SUBSET Items]
  BY DEF Typed, TypeOK
<1> QED BY <1>1, <1>2, <1>3, <1>4, <1>5, <1>6, <1>7, <1>8

LEMMA DropEntryFacts ==
  ASSUME Typed, NEW p \in ToolPointers \cap Lists, NEW k \in 1..Len(ListAt(p)) + 1,
         DropEntry(p, k)
  PROVE  /\ doc[p] \in ListValues
         /\ \E x \in Items, v \in ListValues :
              /\ Edits(p, v) /\ ToSet(v) = EntriesOf(doc[p]) \ {x}
              /\ theirs' = [theirs EXCEPT ![p] = @ \ {x}]
         /\ theirs' \in [Lists -> SUBSET Items]
         /\ loose' = loose
<1>1. p \in Pointers
  BY PointersAssumption
<1>2. ListAt(p) \in ListValues /\ ToSet(ListAt(p)) = EntriesOf(doc[p])
  BY ListAtFacts DEF Typed
<1>3. k \in 1..Len(ListAt(p)) /\ ToolWrites(p, RemoveAt(doc[p], k))
  BY DEF DropEntry
<1>4. doc[p] = ListAt(p)
  <2>1. CASE IsList(doc[p])
    BY <2>1 DEF ListAt
  <2>2. CASE ~IsList(doc[p])
    <3>1. ListAt(p) = << >>
      BY <2>2 DEF ListAt
    <3>2. k \in 1..0
      BY <1>3, <3>1
    <3> QED BY <3>2
  <2> QED BY <2>1, <2>2
<1> DEFINE x == doc[p][k]
           v == RemoveAt(doc[p], k)
<1>5. doc[p] \in ListValues /\ doc[p] \in Seq(Items) /\ Unrepeated(doc[p]) /\ k \in 1..Len(doc[p])
  BY <1>2, <1>3, <1>4, ListFacts
<1>6. v \in ListValues /\ ToSet(v) = ToSet(doc[p]) \ {x}
  BY <1>5, RemoveEntries DEF ListValues
<1>7. x \in Items
  BY <1>5, ElementOfSeq
<1>8. Edits(p, v)
  BY <1>1, <1>3, ToolWritesEdits
<1>9. theirs' = [theirs EXCEPT ![p] = @ \ {x}] /\ loose' = loose
  BY DEF DropEntry
<1>10. theirs \in [Lists -> SUBSET Items]
  BY DEF Typed, TypeOK
<1> HIDE DEF x, v
<1>11. ToSet(v) = EntriesOf(doc[p]) \ {x}
  BY <1>2, <1>4, <1>6
<1>12. theirs' \in [Lists -> SUBSET Items]
  BY <1>9, <1>10
<1> QED BY <1>5, <1>6, <1>7, <1>8, <1>9, <1>11, <1>12

LEMMA SetValueFacts ==
  ASSUME Typed, NEW p \in ToolPointers, NEW v \in ToolScalars \cup {Missing}, SetValue(p, v)
  PROVE  /\ v \in Scalars \cup {Missing} /\ Edits(p, v)
         /\ \A r \in Lists : theirs'[r] = IF r = p THEN {} ELSE theirs[r]
         /\ theirs' \in [Lists -> SUBSET Items]
         /\ loose' = IF v = Missing \/ (p \in DOMAIN owned /\ owned[p] = Whole(v))
                     THEN loose \ {p} ELSE loose \cup {p}
<1>1. p \in Pointers /\ v \in Scalars \cup {Missing}
  BY PointersAssumption, ValuesAssumption
<1>2. Edits(p, v)
  BY <1>1, ToolWritesEdits DEF SetValue
<1>3. theirs' = [r \in Lists |-> IF r = p THEN {} ELSE theirs[r]]
  BY DEF SetValue
<1>4. theirs' \in [Lists -> SUBSET Items]
  BY <1>3 DEF Typed, TypeOK
<1> QED BY <1>1, <1>2, <1>3, <1>4 DEF SetValue

\* What the run's steps leave well formed.
LEMMA PrepareTyped ==
  ASSUME Typed, Prepare
  PROVE  Typed'
<1>1. source \in Sources /\ IsSource(source) /\ ~PatchFails(source)
  BY SourcesAssumption DEF Prepare, Refused, Typed, TypeOK
<1>2. candidate' = [p \in Pointers |-> Patched(source, p)]
  BY DEF Prepare, Candidate
<1>3. \A p \in Pointers : candidate'[p] \in ValuesAt(p)
  BY <1>1, <1>2, PatchedFacts DEF Typed
<1>4. IsManifest(record')
  BY <1>1, RecordFacts DEF Prepare, Typed
<1>5. record' = [p \in DOMAIN record' |-> record'[p]]
  BY DEF Prepare, Record
<1>6. theirs' \in [Lists -> SUBSET Items]
  BY DEF Prepare, Typed, TypeOK
<1>7. todo' \subseteq Surfaces
  BY DEF Prepare, Changed
<1>8. UNCHANGED <<doc, owned, source, cut>> /\ pc' = "apply" /\ txn' = source /\ outcome' = "none"
      /\ loose' \subseteq loose
  BY DEF Prepare
<1> QED BY <1>1, <1>2, <1>3, <1>4, <1>5, <1>6, <1>7, <1>8
        DEF Typed, TypeOK, Functional

LEMMA ApplyTyped ==
  ASSUME Typed, NEW s \in Surfaces, Apply(s)
  PROVE  Typed'
<1>1. doc' = [p \in Pointers |-> IF SurfaceOf[p] = s THEN candidate[p] ELSE doc[p]]
  BY DEF Apply
<1>2. DOMAIN doc' = Pointers /\ \A p \in Pointers : doc'[p] \in ValuesAt(p)
  BY <1>1 DEF Typed, TypeOK
<1>3. doc' = [p \in Pointers |-> doc'[p]]
  BY <1>1
<1>4. theirs' \in [Lists -> SUBSET Items] /\ loose' \subseteq Pointers /\ todo' \subseteq Surfaces
  BY DEF Apply, Typed, TypeOK
<1>5. UNCHANGED <<owned, source, pc, txn, candidate, record, outcome, cut>>
  BY DEF Apply
<1> QED BY <1>2, <1>3, <1>4, <1>5 DEF Typed, TypeOK, Functional

LEMMA EmptyFacts ==
  /\ IsManifest(<< >>) /\ << >> = [p \in DOMAIN << >> |-> << >>[p]] /\ DOMAIN << >> = {}
  /\ DOMAIN Nothing = Pointers /\ \A p \in Pointers : Nothing[p] \in ValuesAt(p)
  /\ Nothing = [p \in Pointers |-> Nothing[p]]
  /\ \A p \in Pointers : Nothing[p] = Missing
<1>1. DOMAIN << >> = {} /\ << >> = [p \in DOMAIN << >> |-> << >>[p]]
  OBVIOUS
<1>2. IsManifest(<< >>)
  BY <1>1 DEF IsManifest
<1> QED BY <1>1, <1>2 DEF Nothing, ValuesAt

LEMMA PublishTyped ==
  ASSUME Typed, Publish
  PROVE  Typed'
<1>1. owned' = record /\ candidate' = Nothing /\ record' = << >> /\ pc' = "idle" /\ outcome' = "done"
      /\ UNCHANGED <<doc, source, txn, todo, cut>>
  BY DEF Publish
<1>2. loose' \subseteq Pointers
  <2>1. IsSource(txn)
    BY SourcesAssumption DEF Typed, TypeOK
  <2> QED BY <2>1 DEF Publish, Typed, TypeOK, IsSource
<1>3. theirs' \in [Lists -> SUBSET Items]
  <2>1. \A p \in Lists : EntriesOf(doc[p]) \subseteq Items
    <3> SUFFICES ASSUME NEW p \in Lists PROVE EntriesOf(doc[p]) \subseteq Items
      OBVIOUS
    <3>1. ListAt(p) \in ListValues /\ ToSet(ListAt(p)) = EntriesOf(doc[p])
      BY ListAtFacts DEF Typed
    <3> QED BY <3>1, ListFacts
  <2> QED BY <2>1 DEF Publish, Typed, TypeOK
<1> QED BY <1>1, <1>2, <1>3, EmptyFacts DEF Typed, TypeOK, Functional

LEMMA ToolTyped ==
  ASSUME Typed, Tool
  PROVE  Typed'
<1>1. ASSUME NEW p \in Pointers, NEW v \in ValuesAt(p), Edits(p, v),
             theirs' \in [Lists -> SUBSET Items], loose' \subseteq Pointers
      PROVE  Typed'
  <2>1. doc' = [r \in Pointers |-> IF r = p THEN v ELSE doc[r]]
    BY <1>1 DEF Edits
  <2>2. DOMAIN doc' = Pointers /\ (\A r \in Pointers : doc'[r] \in ValuesAt(r))
        /\ doc' = [r \in Pointers |-> doc'[r]]
    BY <2>1 DEF Typed, TypeOK
  <2>3. outcome' = "none" /\ UNCHANGED <<owned, source, pc, txn, candidate, record, todo, cut>>
    BY <1>1 DEF Edits, ToolFrame
  <2> QED BY <1>1, <2>2, <2>3 DEF Typed, TypeOK, Functional
<1>2. \A p \in Lists : ListValues \subseteq ValuesAt(p)
  BY DEF ValuesAt
<1>3. ToolPointers \subseteq Pointers /\ loose \subseteq Pointers
  BY PointersAssumption DEF Typed, TypeOK
<1>4. ASSUME NEW p \in ToolPointers \cap Lists, NEW k \in 1..Len(ListAt(p)) + 1,
             NEW x \in ToolItems, AddEntry(p, k, x)
      PROVE  Typed'
  BY <1>1, <1>2, <1>3, <1>4, AddEntryFacts
<1>5. ASSUME NEW p \in ToolPointers \cap Lists, NEW k \in 1..Len(ListAt(p)) + 1, DropEntry(p, k)
      PROVE  Typed'
  BY <1>1, <1>2, <1>3, <1>5, DropEntryFacts
<1>6. ASSUME NEW p \in ToolPointers, NEW v \in ToolScalars \cup {Missing}, SetValue(p, v)
      PROVE  Typed'
  <2>1. /\ v \in Scalars \cup {Missing} /\ Edits(p, v) /\ theirs' \in [Lists -> SUBSET Items]
        /\ loose' \subseteq Pointers
    BY <1>3, <1>6, SetValueFacts
  <2>2. v \in ValuesAt(p)
    BY <2>1 DEF ValuesAt
  <2> QED BY <1>1, <1>3, <2>1, <2>2
<1> QED BY <1>4, <1>5, <1>6 DEF Tool

LEMMA InitTyped == Init => Typed
<1> SUFFICES ASSUME Init PROVE Typed
  OBVIOUS
<1>1. doc = Nothing
  BY DEF Init, Nothing
<1>2. IsManifest(owned) /\ IsManifest(record)
      /\ owned = [p \in DOMAIN owned |-> owned[p]] /\ record = [p \in DOMAIN record |-> record[p]]
  BY EmptyFacts DEF Init
<1> QED BY <1>1, <1>2, EmptyFacts DEF Init, Typed, TypeOK, Functional

LEMMA NextTyped ==
  ASSUME Typed, [Next]_vars
  PROVE  Typed'
<1>1. CASE Refuse
  BY <1>1 DEF Refuse, Typed, TypeOK, Functional
<1>2. CASE Prepare
  BY <1>2, PrepareTyped
<1>3. ASSUME NEW s \in Surfaces, Apply(s) PROVE Typed'
  BY <1>3, ApplyTyped
<1>4. CASE Publish
  BY <1>4, PublishTyped
<1>5. CASE Crash
  <2>1. /\ pc' = "idle" /\ todo' = {} /\ candidate' = Nothing /\ record' = << >>
        /\ outcome' = "crashed" /\ cut' = TRUE
        /\ UNCHANGED <<doc, owned, source, txn, theirs, loose>>
    BY <1>5 DEF Crash
  <2> QED BY <2>1, EmptyFacts DEF Typed, TypeOK, Functional
<1>6. CASE Tool
  BY <1>6, ToolTyped
<1>7. ASSUME NEW q \in Sources, ChangeSource(q) PROVE Typed'
  BY <1>7 DEF ChangeSource, Typed, TypeOK, Functional
<1>8. CASE UNCHANGED vars
  BY <1>8 DEF vars, Typed, TypeOK, Functional
<1> QED BY <1>1, <1>2, <1>3, <1>4, <1>5, <1>6, <1>7, <1>8 DEF Next, Sync

LEMMA AlwaysTyped == Spec => []Typed
BY InitTyped, NextTyped, PTL DEF Spec

\* Whatever runs, crashes and tools do, no list ever holds an entry twice, and
\* documents, manifests and history have the shapes their comments give.
THEOREM TypeCorrect == Spec => []TypeOK
<1>1. Typed => TypeOK
  BY DEF Typed
<1> QED BY <1>1, AlwaysTyped, PTL
-----------------------------------------------------------------------------
(* What a successful run leaves.                                           *)

LEMMA InitRun == Init => RunInv
BY DEF Init, RunInv

LEMMA NextRun ==
  ASSUME ~Interferes, Typed, RunInv, [Next]_vars
  PROVE  RunInv'
<1>1. CASE Refuse
  BY <1>1 DEF Refuse, RunInv
<1>2. CASE Prepare
  <2>1. IsSource(source) /\ ~PatchFails(source)
    BY <1>2, SourcesAssumption DEF Prepare, Refused, Typed, TypeOK
  <2>2. AsPlanned(source, Candidate(source), Record(source))
    BY <2>1, PreparedAsPlanned DEF Typed
  <2>3. /\ pc' = "apply" /\ txn' = source /\ outcome' = "none"
        /\ candidate' = Candidate(source) /\ record' = Record(source)
        /\ todo' = Changed(Candidate(source)) /\ UNCHANGED <<doc, owned, source>>
    BY <1>2 DEF Prepare
  <2>4. ASSUME NEW p \in Pointers, SurfaceOf[p] \notin todo' PROVE doc'[p] = candidate'[p]
    <3>1. SurfaceOf[p] \in Surfaces
      BY PointersAssumption
    <3> QED BY <2>3, <2>4, <3>1 DEF Changed
  <2> QED BY <2>2, <2>3, <2>4 DEF RunInv
<1>3. ASSUME NEW s \in Surfaces, Apply(s) PROVE RunInv'
  <2>1. /\ pc = "apply" /\ todo' = todo \ {s}
        /\ doc' = [p \in Pointers |-> IF SurfaceOf[p] = s THEN candidate[p] ELSE doc[p]]
        /\ UNCHANGED <<owned, source, pc, txn, candidate, record, outcome>>
    BY <1>3 DEF Apply
  <2>2. \A p \in Pointers : SurfaceOf[p] \notin todo' => doc'[p] = candidate'[p]
    BY <2>1 DEF RunInv
  <2> QED BY <2>1, <2>2 DEF RunInv
<1>4. CASE Publish
  <2>1. /\ pc = "apply" /\ todo = {} /\ owned' = record /\ pc' = "idle" /\ outcome' = "done"
        /\ UNCHANGED <<doc, source, txn, todo>>
    BY <1>4 DEF Publish
  <2>2. doc = candidate
    <3>1. \A p \in Pointers : doc[p] = candidate[p]
      BY <2>1 DEF RunInv
    <3> QED BY <3>1 DEF Typed, Functional
  <2> QED BY <2>1, <2>2 DEF RunInv
<1>5. CASE Crash
  BY <1>5 DEF Crash, RunInv
<1>6. CASE Tool
  <2>1. ToolFrame
    <3>1. ToolPointers \subseteq Pointers
      BY PointersAssumption
    <3> QED BY <1>6, <3>1, AddEntryFacts, DropEntryFacts, SetValueFacts DEF Tool, Edits
  <2> QED BY <2>1 DEF ToolFrame, RunInv
<1>7. ASSUME NEW q \in Sources, ChangeSource(q) PROVE RunInv'
  BY <1>7 DEF ChangeSource, RunInv
<1>8. CASE UNCHANGED vars
  BY <1>8 DEF vars, RunInv
<1> QED BY <1>1, <1>2, <1>3, <1>4, <1>5, <1>6, <1>7, <1>8 DEF Next, Sync

LEMMA AlwaysRun ==
  ASSUME ~Interferes
  PROVE  Spec => []RunInv
BY InitRun, NextRun, AlwaysTyped, PTL DEF Spec

\* If no tool writes during a run, preparing the sources again after a run that
\* exits successfully changes no document and no manifest.
THEOREM SuccessMeansSynced ==
  ASSUME ~Interferes
  PROVE  Spec => []DoneMeansSynced
<1>1. ASSUME Typed, RunInv PROVE DoneMeansSynced
  <2> SUFFICES ASSUME outcome = "done"
               PROVE  ~Refused(source) /\ Candidate(source) = doc /\ Record(source) = owned
    BY DEF DoneMeansSynced
  <2>1. TypeOK /\ IsSource(source) /\ AsPlanned(source, doc, owned)
    BY <1>1, SourcesAssumption DEF Typed, TypeOK, RunInv
  <2>2. /\ ~Refused(source)
        /\ \A p \in Pointers : Candidate(source)[p] = doc[p]
        /\ DOMAIN Record(source) = DOMAIN owned
        /\ \A p \in DOMAIN owned : Record(source)[p] = owned[p]
    BY <2>1, AsPlannedIsFixed
  <2>3. /\ Candidate(source) = [p \in Pointers |-> Candidate(source)[p]]
        /\ Record(source) = [p \in DOMAIN Record(source) |-> Record(source)[p]]
    BY DEF Candidate, Record
  <2>4. Candidate(source) = doc
    <3>1. doc = [p \in Pointers |-> doc[p]]
      BY <1>1 DEF Typed, Functional
    <3> QED BY <2>2, <2>3, <3>1
  <2>5. Record(source) = owned
    <3>1. owned = [p \in DOMAIN owned |-> owned[p]]
      BY <1>1 DEF Typed, Functional
    <3> QED BY <2>2, <2>3, <3>1
  <2> QED BY <2>2, <2>4, <2>5
<1> QED BY <1>1, AlwaysTyped, AlwaysRun, PTL

\* If no tool writes during a run, a successful run leaves every entry it does
\* not own ahead of every entry it owns.
THEOREM ForeignEntriesFirst ==
  ASSUME ~Interferes
  PROVE  Spec => []ForeignFirst
<1>1. ASSUME Typed, RunInv PROVE ForeignFirst
  <2> SUFFICES ASSUME outcome = "done", NEW p \in Lists \cap DOMAIN source.gen,
                      NEW i \in 1..Len(doc[p]), NEW j \in 1..Len(doc[p]),
                      doc[p][i] \in owned[p].items, doc[p][j] \notin owned[p].items
               PROVE  j < i
    BY DEF ForeignFirst
  <2>1. IsSource(source) /\ AsPlanned(source, doc, owned)
    BY <1>1, SourcesAssumption DEF Typed, TypeOK, RunInv
  <2>2. PICK f \in ListValues : /\ ToSet(f) \cap ToSet(source.gen[p]) = {}
                                /\ doc[p] = Layout(source, p, f)
                                /\ owned[p] = Entries(ToSet(doc[p]) \ ToSet(f))
    BY <2>1 DEF AsPlanned
  <2>3. doc[p] \in ListValues /\ Len(f) <= Len(doc[p]) /\ \A k \in 1..Len(f) : doc[p][k] = f[k]
    BY <2>1, <2>2, LayoutFacts
  <2>4. /\ doc[p] \in Seq(Items) /\ Unrepeated(doc[p]) /\ ToSet(doc[p]) = {doc[p][k] : k \in 1..Len(doc[p])}
        /\ f \in Seq(Items) /\ ToSet(f) = {f[k] : k \in 1..Len(f)}
    BY <2>3, ListFacts, EntriesInSet
  <2>5. Len(f) \in Nat /\ Len(doc[p]) \in Nat
    BY <2>4
  <2>6. owned[p].items = ToSet(doc[p]) \ ToSet(f)
    BY <2>2 DEF Entries
  <2>7. doc[p][j] \in ToSet(f) /\ doc[p][i] \notin ToSet(f)
    BY <2>4, <2>6
  <2>8. PICK k \in 1..Len(f) : doc[p][j] = f[k]
    BY <2>4, <2>7
  <2>9. k \in 1..Len(doc[p])
    BY <2>3, <2>5
  <2>10. j = k
    BY <2>3, <2>4, <2>8, <2>9 DEF Unrepeated
  <2>11. i \notin 1..Len(f)
    BY <2>3, <2>4, <2>7
  <2> QED BY <2>5, <2>10, <2>11
<1> QED BY <1>1, AlwaysTyped, AlwaysRun, PTL

-----------------------------------------------------------------------------
(* Runs that were killed.                                                  *)

LEMMA PrepareAccepts ==
  ASSUME Typed, Prepare, NEW p \in Pointers
  PROVE  Accepts(doc, p) /\ Accepts(Candidate(source), p)
<1>1. IsSource(source) /\ ~PatchFails(source) /\ Conflicts(source) = {} /\ TypeOK
  BY SourcesAssumption DEF Prepare, Refused, Typed, TypeOK
<1>2. doc[p] \in ValuesAt(p) /\ Candidate(source)[p] = Patched(source, p)
  BY <1>1 DEF TypeOK, Candidate
<1>3. p \notin Lists => doc[p] \in Scalars \cup {Missing}
  BY <1>2 DEF ValuesAt
<1>4. Accepts(doc, p)
  <2>1. p \in DOMAIN source.extend \ (DOMAIN owned \cup DOMAIN source.gen) => doc[p] \notin Scalars
    BY <1>1, PatchFailsAre
  <2>2. ASSUME p \in DOMAIN owned \cup DOMAIN source.gen, doc[p] \in Scalars
        PROVE  p \notin Lists /\ (\/ p \in DOMAIN owned /\ owned[p] = Whole(doc[p])
                                  \/ p \in DOMAIN source.gen /\ doc[p] = source.gen[p])
    BY <1>1, <2>2, ConflictsAre
  <2> QED BY <1>3, <2>1, <2>2 DEF Accepts
<1>5. Accepts(Candidate(source), p)
  <2>0. /\ DOMAIN source.extend \subseteq Lists /\ DOMAIN source.set \subseteq Pointers \ Lists
        /\ source.delete \subseteq Pointers \ (DOMAIN source.gen \cup DOMAIN source.extend \cup DOMAIN source.set)
    BY <1>1 DEF IsSource
  <2>1. ASSUME p \in Lists \cap (DOMAIN source.gen \cup DOMAIN owned \cup DOMAIN source.extend)
        PROVE  Patched(source, p) \notin Scalars
    <3>1. CASE p \in DOMAIN source.gen
      <4>1. ToSet(Foreign(source, p)) \cap ToSet(source.gen[p]) = {} /\ Foreign(source, p) \in ListValues
        BY <1>1, <3>1, ForeignFacts DEF GenItems
      <4>2. Patched(source, p) \in ListValues
        BY <1>1, <2>1, <3>1, <4>1, PatchedFacts, LayoutFacts
      <4> QED BY <4>2, ValuesAssumption
    <3>2. CASE p \in DOMAIN source.extend \ DOMAIN source.gen
      <4>1. AsPlanned(source, Candidate(source), Record(source))
        BY <1>1, PreparedAsPlanned
      <4> QED BY <1>2, <3>2, <4>1, ValuesAssumption DEF AsPlanned
    <3>3. CASE p \in DOMAIN owned \ (DOMAIN source.gen \cup DOMAIN source.extend)
      <4>1. CASE p \in source.delete
        BY <1>1, <4>1, PatchedFacts, ValuesAssumption
      <4>2. CASE p \notin source.delete
        <5>1. Patched(source, p) = Reconciled(source, p)
          BY <1>1, <2>0, <2>1, <3>3, <4>2, PatchedFacts
        <5> QED BY <1>1, <2>1, <3>3, <5>1, ReconciledFacts
      <4> QED BY <4>1, <4>2
    <3> QED BY <2>1, <3>1, <3>2, <3>3
  <2>2. p \in DOMAIN source.gen \ Lists => Patched(source, p) = source.gen[p]
    BY <1>1, PatchedFacts
  <2>3. ASSUME p \in DOMAIN owned \ (Lists \cup DOMAIN source.gen \cup DOMAIN source.set)
        PROVE  Patched(source, p) = Missing
    <3>1. CASE p \in source.delete
      BY <1>1, <3>1, PatchedFacts
    <3>2. CASE p \notin source.delete
      <4>1. Patched(source, p) = Reconciled(source, p)
        BY <1>1, <2>0, <2>3, <3>2, PatchedFacts
      <4> QED BY <1>1, <2>3, <4>1, ReconciledFacts
    <3> QED BY <3>1, <3>2
  <2> QED BY <1>2, <2>1, <2>2, <2>3 DEF Accepts
<1> QED BY <1>4, <1>5

LEMMA InitRepeat == Init => RepeatInv
BY DEF Init, RepeatInv

LEMMA NextRepeat ==
  ASSUME ~Interferes, Typed, RepeatInv, [Next]_vars
  PROVE  RepeatInv'
<1>1. CASE Refuse
  BY <1>1 DEF Refuse, RepeatInv
<1>2. CASE Prepare
  <2>1. /\ pc' = "apply" /\ outcome' = "none" /\ candidate' = Candidate(source)
        /\ UNCHANGED <<doc, owned, source>>
    BY <1>2 DEF Prepare
  <2>2. \A p \in Pointers : Accepts(doc, p) /\ Accepts(Candidate(source), p)
    BY <1>2, PrepareAccepts
  <2> QED BY <2>1, <2>2 DEF RepeatInv, Accepts
<1>3. ASSUME NEW s \in Surfaces, Apply(s) PROVE RepeatInv'
  <2>1. /\ pc = "apply" /\ UNCHANGED <<owned, source, pc, candidate, outcome>>
        /\ doc' = [p \in Pointers |-> IF SurfaceOf[p] = s THEN candidate[p] ELSE doc[p]]
    BY <1>3 DEF Apply
  <2>2. outcome' # "crashed"
    BY <2>1 DEF RepeatInv
  <2>3. ASSUME NEW p \in Pointers PROVE Accepts(doc, p)' /\ Accepts(candidate, p)'
    <3>1. Accepts(doc, p) /\ Accepts(candidate, p)
      BY <2>1 DEF RepeatInv
    <3>2. doc'[p] = candidate[p] \/ doc'[p] = doc[p]
      BY <2>1
    <3> QED BY <2>1, <3>1, <3>2 DEF Accepts
  <2> QED BY <2>1, <2>2, <2>3 DEF RepeatInv
<1>4. CASE Publish
  BY <1>4 DEF Publish, RepeatInv
<1>5. CASE Crash
  <2>1. pc = "apply" /\ pc' = "idle" /\ UNCHANGED <<doc, owned, source>>
    BY <1>5 DEF Crash
  <2> QED BY <2>1 DEF RepeatInv, Accepts
<1>6. CASE Tool
  <2>1. ToolFrame
    <3>1. ToolPointers \subseteq Pointers
      BY PointersAssumption
    <3> QED BY <1>6, <3>1, AddEntryFacts, DropEntryFacts, SetValueFacts DEF Tool, Edits
  <2> QED BY <2>1 DEF ToolFrame, RepeatInv
<1>7. ASSUME NEW q \in Sources, ChangeSource(q) PROVE RepeatInv'
  BY <1>7 DEF ChangeSource, RepeatInv
<1>8. CASE UNCHANGED vars
  BY <1>8 DEF vars, RepeatInv, Accepts
<1> QED BY <1>1, <1>2, <1>3, <1>4, <1>5, <1>6, <1>7, <1>8 DEF Next, Sync

\* If no tool writes during a run, a run killed at any point can be repeated on
\* the same sources, but for a pointer the manifest owns, the plan no longer
\* generates and its patch sets.
THEOREM KilledRunsRepeat ==
  ASSUME ~Interferes
  PROVE  Spec => []KilledRunRepeats
<1>1. ASSUME Typed, RepeatInv PROVE KilledRunRepeats
  <2> SUFFICES ASSUME outcome = "crashed"
               PROVE  /\ Conflicts(source) \subseteq DOMAIN source.set \ DOMAIN source.gen
                      /\ ~PatchFails(source)
    BY DEF KilledRunRepeats
  <2>1. TypeOK /\ IsSource(source) /\ Missing \notin Scalars
    BY <1>1, SourcesAssumption, ValuesAssumption DEF Typed, TypeOK
  <2>2. \A p \in Pointers : Accepts(doc, p)
    BY <1>1 DEF RepeatInv
  <2>3. \A p \in DOMAIN source.extend : p \in Pointers /\ p \in Lists
    BY <2>1, PointersAssumption DEF IsSource
  <2>4. ~PatchFails(source)
    BY <2>1, <2>2, <2>3, PatchFailsAre DEF Accepts
  <2>5. Conflicts(source) \subseteq Pointers
    BY <2>1 DEF Conflicts, TypeOK, IsManifest, IsSource
  <2>6. ASSUME NEW p \in Pointers, p \in Conflicts(source)
        PROVE  p \in DOMAIN source.set \ DOMAIN source.gen
    <3>1. /\ p \in DOMAIN owned \cup DOMAIN source.gen
          /\ doc[p] \in Scalars
          /\ p \notin Lists => /\ ~(p \in DOMAIN owned /\ owned[p] = Whole(doc[p]))
                               /\ ~(p \in DOMAIN source.gen /\ doc[p] = source.gen[p])
      BY <2>1, <2>6, ConflictsAre
    <3> QED BY <2>1, <2>2, <3>1 DEF Accepts
  <2> QED BY <2>4, <2>5, <2>6
<1>2. Spec => []RepeatInv
  BY InitRepeat, NextRepeat, AlwaysTyped, PTL DEF Spec
<1> QED BY <1>1, <1>2, AlwaysTyped, PTL
-----------------------------------------------------------------------------
(* What belongs to the tools.                                              *)

\* The history of p follows a value that does not change.
TheirsAt(p) ==
  /\ p \in Lists => /\ theirs[p] \subseteq EntriesOf(doc[p])
                    /\ p \in DOMAIN owned => theirs[p] \cap owned[p].items = {}
  /\ p \in loose => doc[p] \in Scalars /\ ~(p \in DOMAIN owned /\ owned[p] = Whole(doc[p]))

KeepAt(p) ==
  /\ p \in Lists \cap DOMAIN txn.gen => theirs[p] \cap record[p].items = {}
  /\ p \in Lists \ txn.delete => Only(candidate[p], theirs[p]) = Only(doc[p], theirs[p])
  /\ p \in loose => p \notin DOMAIN owned /\ p \notin DOMAIN txn.gen
  /\ p \in loose \ PatchNames(txn) => candidate[p] = doc[p]

LEMMA AtPointers ==
  ASSUME Typed
  PROVE  /\ TheirsInv <=> \A p \in Pointers : TheirsAt(p)
         /\ KeepInv <=> (pc = "apply" => \A p \in Pointers : KeepAt(p))
<1>1. Lists \subseteq Pointers /\ loose \subseteq Pointers
  BY PointersAssumption DEF Typed, TypeOK
<1> QED BY <1>1 DEF TheirsInv, TheirsAt, KeepInv, KeepAt

\* Entries of S only.
LEMMA OnlyFacts ==
  ASSUME NEW p \in Lists, NEW v \in ValuesAt(p), NEW S
  PROVE  /\ v \in ListValues => Only(v, S) = Kept(v, S)
         /\ v \notin ListValues => Only(v, S) = << >> /\ EntriesOf(v) = {}
         /\ ToSet(Only(v, S)) = EntriesOf(v) \cap S
<1>1. IsList(v) <=> v \in ListValues
  BY PointersAssumption, ListFacts
<1>2. CASE v \in ListValues
  BY <1>1, <1>2, WithoutFacts DEF Only, EntriesOf
<1>3. CASE v \notin ListValues
  BY <1>1, <1>3, ListFacts DEF Only, EntriesOf
<1> QED BY <1>2, <1>3

\* Preparing a plan keeps the entries of S in a list, where S is in the file, is
\* not the compiler's, and does not become the compiler's.
LEMMA PatchedKeeps ==
  ASSUME TypeOK, NEW q, IsSource(q), ~PatchFails(q), NEW p \in Lists \ q.delete,
         p \notin Conflicts(q), NEW S, S \subseteq EntriesOf(doc[p]), S \cap OwnItems(p) = {},
         p \in DOMAIN q.gen => S \cap Record(q)[p].items = {}
  PROVE  Only(Patched(q, p), S) = Only(doc[p], S)
<1>0. p \in Pointers /\ doc[p] \in ValuesAt(p) /\ Patched(q, p) \in ValuesAt(p) /\ p \notin DOMAIN q.set
  BY PointersAssumption, PatchedFacts DEF TypeOK, IsSource
<1>1. /\ Foreign(q, p) \in ListValues /\ ToSet(Foreign(q, p)) \cap GenItems(q, p) = {}
      /\ ToSet(Foreign(q, p)) \subseteq EntriesOf(doc[p])
  BY <1>0, ForeignFacts
<1>2. CASE p \in DOMAIN q.gen
  <2> DEFINE f == Foreign(q, p)
  <2>1. Patched(q, p) = Layout(q, p, f)
    BY <1>0, <1>2, PatchedFacts
  <2>2. ToSet(f) \cap ToSet(q.gen[p]) = {}
    BY <1>1, <1>2 DEF GenItems
  <2>3. /\ Patched(q, p) \in ListValues
        /\ ToSet(q.gen[p]) \subseteq ToSet(Patched(q, p))
        /\ \A R : (ToSet(Patched(q, p)) \ ToSet(f)) \cap R = {} => Kept(Patched(q, p), R) = Kept(f, R)
    BY <1>1, <1>2, <2>1, <2>2, LayoutFacts
  <2>4. Record(q)[p].items = ToSet(Patched(q, p)) \ ToSet(f)
    <3>1. Record(q)[p] = Entries(ToSet(Patched(q, p)) \ ToSet(f))
      BY <1>2, RecordFacts
    <3> QED BY <3>1 DEF Entries
  <2>5. Kept(Patched(q, p), S) = Kept(f, S)
    BY <1>2, <2>3, <2>4
  <2>6. S \cap ToSet(q.gen[p]) = {}
    BY <1>2, <2>2, <2>3, <2>4
  <2>7. CASE doc[p] \in ListValues
    <3> DEFINE R == Items \ (OwnItems(p) \cup GenItems(q, p))
    <3>1. f = Kept(doc[p], R)
      BY <1>0, <1>2, <2>7, EntryByEntryIs, ForeignIs
    <3>2. doc[p] \in Seq(Items) /\ ToSet(doc[p]) \subseteq Items
      BY <2>7, ListFacts
    <3>3. Kept(f, S) = Kept(doc[p], R \cap S)
      BY <3>1, <3>2, KeptKept
    <3>4. ToSet(doc[p]) \cap (R \cap S) = ToSet(doc[p]) \cap S
      BY <1>2, <2>6, <3>2 DEF GenItems
    <3>5. Kept(doc[p], R \cap S) = Kept(doc[p], S)
      BY <3>2, <3>4, KeptSame
    <3> QED BY <1>0, <2>3, <2>5, <2>7, <3>3, <3>5, OnlyFacts
  <2>8. CASE doc[p] \notin ListValues
    <3>1. Only(doc[p], S) = << >> /\ EntriesOf(doc[p]) = {}
      BY <1>0, <2>8, OnlyFacts
    <3>2. ToSet(f) \cap S = {} /\ f \in Seq(Items)
      BY <1>1, <3>1, ListFacts
    <3>3. Kept(f, S) = << >>
      BY <3>2, KeptAllOrNone
    <3> QED BY <1>0, <2>3, <2>5, <3>1, <3>3, OnlyFacts
  <2> QED BY <2>7, <2>8
<1>3. CASE p \notin DOMAIN q.gen
  <2> DEFINE v == Reconciled(q, p)
             base == IF v = Missing THEN << >> ELSE v
  <2>0. v \in ValuesAt(p)
    BY <1>0, ReconciledFacts
  <2>1. Only(v, S) = Only(doc[p], S) /\ S \subseteq EntriesOf(v)
    <3>1. CASE p \in DOMAIN owned
      <4>1. doc[p] \notin Scalars
        BY <1>0, <3>1, ConflictsAre
      <4>2. v = IF Foreign(q, p) # << >> THEN Foreign(q, p) ELSE Missing
        BY <1>0, <1>3, <3>1, ReconciledFacts
      <4>3. Only(v, S) = Kept(Foreign(q, p), S) /\ EntriesOf(v) = ToSet(Foreign(q, p))
        <5>1. CASE Foreign(q, p) # << >>
          BY <1>0, <1>1, <2>0, <4>2, <5>1, OnlyFacts, ListFacts DEF EntriesOf
        <5>2. CASE Foreign(q, p) = << >>
          <6>1. v \notin ListValues
            BY <4>2, <5>2, ValuesAssumption
          <6> QED BY <2>0, <5>2, <6>1, OnlyFacts, KeptOfEmpty, ListFacts
        <5> QED BY <5>1, <5>2
      <4>4. CASE doc[p] \in ListValues
        <5> DEFINE R == Items \ (OwnItems(p) \cup GenItems(q, p))
        <5>1. Foreign(q, p) = Kept(doc[p], R)
          BY <1>0, <3>1, <4>4, EntryByEntryIs, ForeignIs
        <5>2. doc[p] \in Seq(Items) /\ ToSet(doc[p]) \subseteq Items /\ EntriesOf(doc[p]) = ToSet(doc[p])
          BY <4>4, ListFacts DEF EntriesOf
        <5>3. S \subseteq R
          BY <1>3, <5>2 DEF GenItems
        <5> HIDE DEF R
        <5>4. Kept(Foreign(q, p), S) = Kept(doc[p], R \cap S)
          BY <5>1, <5>2, KeptKept
        <5>5. R \cap S = S
          BY <5>3
        <5>6. ToSet(Foreign(q, p)) = ToSet(doc[p]) \cap R
          BY <4>4, <5>1, WithoutFacts
        <5>7. S \subseteq ToSet(Foreign(q, p))
          BY <5>2, <5>3, <5>6
        <5> QED BY <1>0, <4>3, <4>4, <5>4, <5>5, <5>7, OnlyFacts
      <4>5. CASE doc[p] \notin ListValues
        <5>1. Only(doc[p], S) = << >> /\ S = {}
          BY <1>0, <4>5, OnlyFacts
        <5>2. Foreign(q, p) \in Seq(Items) /\ ToSet(Foreign(q, p)) \cap S = {}
          BY <1>1, <5>1, ListFacts
        <5>3. Kept(Foreign(q, p), S) = << >>
          BY <5>2, KeptAllOrNone
        <5> QED BY <4>3, <5>1, <5>3
      <4> QED BY <4>4, <4>5
    <3>2. CASE p \notin DOMAIN owned
      BY <1>0, <1>3, <3>2, ReconciledFacts
    <3> QED BY <3>1, <3>2
  <2>2. CASE p \in DOMAIN q.extend
    <3>1. Patched(q, p) = Extended(base, q.extend[p]) /\ q.extend[p] \in ListValues
      BY <1>0, <1>3, <2>2, PatchedFacts DEF IsSource
    <3>2. v \in {Missing} \cup ListValues
      BY <1>0, <2>0, <2>2, ListFacts DEF PatchFails
    <3>3. base \in ListValues /\ Kept(base, S) = Only(v, S) /\ S \subseteq ToSet(base)
      <4>1. CASE v = Missing
        <5>1. v \notin ListValues
          BY <4>1, ValuesAssumption
        <5> QED BY <2>0, <2>1, <4>1, <5>1, OnlyFacts, KeptOfEmpty, ListFacts
      <4>2. CASE v # Missing
        <5>1. v \in ListValues /\ EntriesOf(v) = ToSet(v)
          BY <3>2, <4>2, ListFacts DEF EntriesOf
        <5> QED BY <2>0, <2>1, <4>2, <5>1, OnlyFacts
      <4> QED BY <4>1, <4>2
    <3> HIDE DEF base
    <3>4. Extended(base, q.extend[p]) \in ListValues
          /\ Kept(Extended(base, q.extend[p]), S) = Kept(base, S)
      BY <3>1, <3>3, ExtendedFacts
    <3> QED BY <1>0, <2>1, <3>1, <3>3, <3>4, OnlyFacts
  <2>3. CASE p \notin DOMAIN q.extend
    <3>1. Patched(q, p) = v
      BY <1>0, <1>3, <2>3, PatchedFacts
    <3> QED BY <2>1, <3>1
  <2> QED BY <2>2, <2>3
<1> QED BY <1>2, <1>3

LEMMA InitTheirs == Init => TheirsInv /\ KeepInv
BY DEF Init, TheirsInv, KeepInv

LEMMA PrepareKeeps ==
  ASSUME Typed, TheirsInv, Prepare, NEW p \in Pointers
  PROVE  TheirsAt(p)' /\ KeepAt(p)'
<1>1. /\ source \in Sources /\ IsSource(source) /\ ~PatchFails(source) /\ Conflicts(source) = {} /\ TypeOK
  BY SourcesAssumption DEF Prepare, Refused, Typed, TypeOK
<1>2. /\ txn' = source /\ candidate' = Candidate(source) /\ record' = Record(source)
      /\ UNCHANGED <<doc, owned, source>>
      /\ loose' = loose \ DOMAIN source.gen
      /\ p \in Lists => theirs'[p] = IF p \in DOMAIN source.gen
                                     THEN theirs[p] \ Record(source)[p].items ELSE theirs[p]
  BY DEF Prepare
<1>3. TheirsAt(p) /\ candidate'[p] = Patched(source, p)
  BY <1>2, AtPointers DEF Candidate
<1>4. TheirsAt(p)'
  BY <1>2, <1>3 DEF TheirsAt
<1>5. p \in Lists \cap DOMAIN source.gen => theirs'[p] \cap record'[p].items = {}
  BY <1>2
<1>6. ASSUME p \in Lists \ source.delete
      PROVE  Only(candidate'[p], theirs'[p]) = Only(doc[p], theirs'[p])
  <2>1. theirs'[p] \subseteq EntriesOf(doc[p]) /\ theirs'[p] \cap OwnItems(p) = {}
    BY <1>2, <1>3, <1>6 DEF TheirsAt, OwnItems
  <2>2. p \in DOMAIN source.gen => theirs'[p] \cap Record(source)[p].items = {}
    BY <1>2, <1>5, <1>6
  <2>3. Only(Patched(source, p), theirs'[p]) = Only(doc[p], theirs'[p])
    BY <1>1, <1>6, <2>1, <2>2, PatchedKeeps
  <2> QED BY <1>3, <2>3
<1>7. ASSUME p \in loose' PROVE p \notin DOMAIN owned /\ p \notin DOMAIN source.gen
  <2>1. doc[p] \in Scalars /\ ~(p \in DOMAIN owned /\ owned[p] = Whole(doc[p])) /\ p \notin DOMAIN source.gen
    BY <1>2, <1>3, <1>7 DEF TheirsAt
  <2> QED BY <1>1, <2>1, ConflictsAre
<1>8. ASSUME p \in loose' \ PatchNames(source) PROVE candidate'[p] = doc[p]
  <2>1. p \notin DOMAIN owned /\ p \notin DOMAIN source.gen /\ doc[p] \in Scalars
    BY <1>2, <1>3, <1>7, <1>8 DEF TheirsAt
  <2>2. p \notin DOMAIN source.extend
    BY <1>1, <2>1, PatchFailsAre
  <2>3. p \notin DOMAIN source.gen \cup source.delete \cup DOMAIN source.set \cup DOMAIN source.extend
    BY <1>8, <2>1, <2>2 DEF PatchNames
  <2>4. Patched(source, p) = Reconciled(source, p)
    BY <1>1, <2>3, PatchedFacts
  <2>5. Reconciled(source, p) = doc[p]
    BY <1>1, <2>1, ReconciledFacts
  <2> QED BY <1>3, <2>4, <2>5
<1> QED BY <1>2, <1>4, <1>5, <1>6, <1>7, <1>8 DEF KeepAt

\* Writing one file keeps it.
LEMMA ApplyKeeps ==
  ASSUME Typed, RunInv, TheirsInv, KeepInv, NEW s \in Surfaces, Apply(s), NEW p \in Pointers
  PROVE  /\ TheirsAt(p)' /\ KeepAt(p)'
         /\ p \in Lists \ txn.delete => Only(doc'[p], theirs[p]) = Only(doc[p], theirs[p])
         /\ p \in loose \ PatchNames(txn) => doc'[p] = doc[p]
<1>1. /\ pc = "apply" /\ UNCHANGED <<owned, source, pc, txn, candidate, record, outcome, cut>>
      /\ doc'[p] = IF SurfaceOf[p] = s THEN candidate[p] ELSE doc[p]
      /\ p \in loose' <=> p \in loose /\ ~(p \in txn.delete /\ SurfaceOf[p] = s)
      /\ p \in Lists => theirs'[p] = IF SurfaceOf[p] = s /\ p \in txn.delete THEN {} ELSE theirs[p]
  BY DEF Apply
<1>2. /\ TheirsAt(p) /\ KeepAt(p) /\ AsPlanned(txn, candidate, record)
      /\ candidate[p] \in ValuesAt(p) /\ doc[p] \in ValuesAt(p) /\ IsSource(txn)
  BY <1>1, AtPointers, SourcesAssumption DEF RunInv, Typed, TypeOK
<1>3. CASE SurfaceOf[p] # s
  BY <1>1, <1>2, <1>3 DEF TheirsAt, KeepAt
<1>4. CASE SurfaceOf[p] = s /\ p \in txn.delete
  <2>1. p \notin loose' /\ (p \in Lists => theirs'[p] = {}) /\ p \in PatchNames(txn)
    BY <1>1, <1>4 DEF PatchNames
  <2> QED BY <1>1, <1>4, <2>1 DEF TheirsAt, KeepAt
<1>5. CASE SurfaceOf[p] = s /\ p \notin txn.delete
  <2>1. /\ doc'[p] = candidate[p] /\ (p \in loose' <=> p \in loose)
        /\ p \in Lists => theirs'[p] = theirs[p]
    BY <1>1, <1>5
  <2>2. p \in Lists => Only(candidate[p], theirs[p]) = Only(doc[p], theirs[p])
    BY <1>2, <1>5 DEF KeepAt
  <2>3. p \in Lists => theirs[p] \subseteq EntriesOf(candidate[p])
    <3> SUFFICES ASSUME p \in Lists PROVE theirs[p] \subseteq EntriesOf(candidate[p])
      OBVIOUS
    <3>1. /\ ToSet(Only(candidate[p], theirs[p])) = EntriesOf(candidate[p]) \cap theirs[p]
          /\ ToSet(Only(doc[p], theirs[p])) = EntriesOf(doc[p]) \cap theirs[p]
      BY <1>2, OnlyFacts
    <3> QED BY <1>2, <2>2, <3>1 DEF TheirsAt
  <2>4. ASSUME p \in loose PROVE candidate[p] \in Scalars /\ p \notin DOMAIN owned
    <3>1. p \notin DOMAIN owned
      BY <1>2, <2>4 DEF KeepAt
    <3>2. CASE p \in DOMAIN txn.set
      <4>1. candidate[p] = txn.set[p] /\ txn.set[p] \in Scalars
        BY <1>2, <3>2 DEF AsPlanned, IsSource
      <4> QED BY <3>1, <4>1
    <3>3. CASE p \notin DOMAIN txn.set
      <4>1. candidate[p] = doc[p]
        BY <1>2, <1>5, <2>4, <3>3 DEF KeepAt, PatchNames
      <4> QED BY <1>2, <2>4, <3>1, <4>1 DEF TheirsAt
    <3> QED BY <3>2, <3>3
  <2>5. TheirsAt(p)'
    BY <1>1, <1>2, <2>1, <2>3, <2>4 DEF TheirsAt
  <2>6. KeepAt(p)'
    BY <1>1, <1>2, <2>1 DEF KeepAt
  <2> QED BY <1>2, <2>1, <2>2, <2>5, <2>6 DEF KeepAt
<1> QED BY <1>3, <1>4, <1>5

LEMMA PublishKeeps ==
  ASSUME Typed, RunInv, TheirsInv, KeepInv, Publish, NEW p \in Pointers
  PROVE  TheirsAt(p)'
<1>1. /\ pc = "apply" /\ todo = {} /\ owned' = record /\ UNCHANGED doc
      /\ loose' = loose \cup (DOMAIN txn.set \ DOMAIN txn.gen)
      /\ p \in Lists => theirs'[p] = IF p \in DOMAIN txn.extend \ DOMAIN txn.gen
                                     THEN theirs[p] \cup (EntriesOf(doc[p]) \cap ToSet(txn.extend[p]))
                                     ELSE theirs[p]
  BY DEF Publish
<1>2. /\ TheirsAt(p) /\ KeepAt(p) /\ AsPlanned(txn, candidate, record) /\ DOMAIN record = DOMAIN txn.gen
      /\ doc[p] = candidate[p] /\ IsSource(txn)
  BY <1>1, AtPointers, SourcesAssumption DEF RunInv, Typed, TypeOK, AsPlanned
<1>3. p \in Lists => /\ theirs'[p] \subseteq EntriesOf(doc[p])
                     /\ p \in DOMAIN record => theirs'[p] \cap record[p].items = {}
  BY <1>1, <1>2 DEF TheirsAt, KeepAt
<1>4. p \in loose' => doc[p] \in Scalars /\ p \notin DOMAIN record
  BY <1>1, <1>2 DEF TheirsAt, KeepAt, AsPlanned, IsSource
<1> QED BY <1>1, <1>3, <1>4 DEF TheirsAt

LEMMA ToolKeeps ==
  ASSUME ~Interferes, Typed, TheirsInv, Tool
  PROVE  pc = "idle" /\ ToolFrame /\ TheirsInv'
<1>0. \A p \in Pointers : TheirsAt(p)
  BY AtPointers
<1>1. ToolPointers \subseteq Pointers /\ Lists \subseteq Pointers
  BY PointersAssumption
<1>2. \A v \in ListValues : EntriesOf(v) = ToSet(v) /\ v \notin Scalars
  BY ListFacts, ValuesAssumption DEF EntriesOf
<1>3. ASSUME NEW p \in Pointers, NEW v, Edits(p, v)
      PROVE  /\ pc = "idle" /\ ToolFrame /\ owned' = owned
             /\ doc'[p] = v /\ \A r \in Pointers \ {p} : doc'[r] = doc[r]
  BY <1>3 DEF Edits, ToolFrame
<1>4. ASSUME NEW p \in ToolPointers \cap Lists, NEW k \in 1..Len(ListAt(p)) + 1,
             NEW x \in ToolItems, AddEntry(p, k, x)
      PROVE  pc = "idle" /\ ToolFrame /\ \A r \in Pointers : TheirsAt(r)'
  <2>1. /\ doc[p] \notin Scalars /\ x \in Items \ EntriesOf(doc[p])
        /\ \E v \in ListValues : Edits(p, v) /\ ToSet(v) = EntriesOf(doc[p]) \cup {x}
        /\ \A r \in Lists \ {p} : theirs'[r] = theirs[r]
        /\ theirs'[p] = IF p \in DOMAIN owned /\ x \in owned[p].items THEN theirs[p]
                        ELSE theirs[p] \cup {x}
        /\ loose' = loose
    BY <1>4, AddEntryFacts
  <2>2. PICK v \in ListValues : Edits(p, v) /\ ToSet(v) = EntriesOf(doc[p]) \cup {x}
    BY <2>1
  <2>3. /\ pc = "idle" /\ ToolFrame /\ owned' = owned
        /\ doc'[p] = v /\ \A r \in Pointers \ {p} : doc'[r] = doc[r]
    BY <1>1, <1>3, <2>2
  <2>4. TheirsAt(p)'
    BY <1>0, <1>1, <1>2, <2>1, <2>2, <2>3 DEF TheirsAt
  <2>5. \A r \in Pointers \ {p} : TheirsAt(r)'
    BY <1>0, <2>1, <2>3 DEF TheirsAt
  <2> QED BY <2>3, <2>4, <2>5
<1>5. ASSUME NEW p \in ToolPointers \cap Lists, NEW k \in 1..Len(ListAt(p)) + 1, DropEntry(p, k)
      PROVE  pc = "idle" /\ ToolFrame /\ \A r \in Pointers : TheirsAt(r)'
  <2>1. PICK x \in Items, v \in ListValues : /\ Edits(p, v) /\ ToSet(v) = EntriesOf(doc[p]) \ {x}
                                             /\ theirs' = [theirs EXCEPT ![p] = @ \ {x}]
    BY <1>5, DropEntryFacts
  <2>2. /\ pc = "idle" /\ ToolFrame /\ owned' = owned
        /\ doc'[p] = v /\ \A r \in Pointers \ {p} : doc'[r] = doc[r]
    BY <1>1, <1>3, <2>1
  <2>3. /\ \A r \in Lists \ {p} : theirs'[r] = theirs[r]
        /\ theirs'[p] = theirs[p] \ {x} /\ loose' = loose /\ doc[p] \notin Scalars
    BY <1>2, <1>5, <2>1, DropEntryFacts DEF Typed, TypeOK
  <2>4. TheirsAt(p)'
    BY <1>0, <1>1, <1>2, <2>1, <2>2, <2>3 DEF TheirsAt
  <2>5. \A r \in Pointers \ {p} : TheirsAt(r)'
    BY <1>0, <2>2, <2>3 DEF TheirsAt
  <2> QED BY <2>2, <2>4, <2>5
<1>6. ASSUME NEW p \in ToolPointers, NEW v \in ToolScalars \cup {Missing}, SetValue(p, v)
      PROVE  pc = "idle" /\ ToolFrame /\ \A r \in Pointers : TheirsAt(r)'
  <2>1. /\ v \in Scalars \cup {Missing} /\ Edits(p, v)
        /\ \A r \in Lists : theirs'[r] = IF r = p THEN {} ELSE theirs[r]
        /\ loose' = IF v = Missing \/ (p \in DOMAIN owned /\ owned[p] = Whole(v))
                    THEN loose \ {p} ELSE loose \cup {p}
    BY <1>6, SetValueFacts
  <2>2. /\ pc = "idle" /\ ToolFrame /\ owned' = owned
        /\ doc'[p] = v /\ \A r \in Pointers \ {p} : doc'[r] = doc[r]
    BY <1>1, <1>3, <2>1
  <2>3. TheirsAt(p)'
    BY <2>1, <2>2 DEF TheirsAt
  <2>4. \A r \in Pointers \ {p} : TheirsAt(r)'
    BY <1>0, <2>1, <2>2 DEF TheirsAt
  <2> QED BY <2>2, <2>3, <2>4
<1>7. Typed'
  BY ToolTyped
<1>8. pc = "idle" /\ ToolFrame /\ \A r \in Pointers : TheirsAt(r)'
  BY <1>4, <1>5, <1>6 DEF Tool
<1>9. TheirsInv'
  <2>1. Lists \subseteq Pointers /\ loose' \subseteq Pointers
    BY <1>1, <1>7 DEF Typed, TypeOK
  <2> QED BY <1>8, <2>1 DEF TheirsInv, TheirsAt
<1> QED BY <1>8, <1>9

LEMMA NextTheirs ==
  ASSUME ~Interferes, Typed, RunInv, TheirsInv, KeepInv, [Next]_vars
  PROVE  TheirsInv' /\ KeepInv'
<1>0. Typed' /\ Lists \subseteq Pointers /\ loose' \subseteq Pointers
  BY NextTyped, PointersAssumption DEF Typed, TypeOK
<1> DEFINE Both == (\A p \in Pointers : TheirsAt(p)') /\ (pc' = "apply" => \A p \in Pointers : KeepAt(p)')
<1>a. Both => TheirsInv' /\ KeepInv'
  BY <1>0 DEF TheirsInv, TheirsAt, KeepInv, KeepAt
<1>1. CASE Refuse
  BY <1>1 DEF Refuse, TheirsInv, KeepInv
<1>2. CASE Prepare
  BY <1>2, <1>a, PrepareKeeps
<1>3. ASSUME NEW s \in Surfaces, Apply(s) PROVE TheirsInv' /\ KeepInv'
  BY <1>3, <1>a, ApplyKeeps
<1>4. CASE Publish
  <2>1. pc' = "idle"
    BY <1>4 DEF Publish
  <2> QED BY <1>4, <1>a, <2>1, PublishKeeps
<1>5. CASE Crash
  BY <1>5 DEF Crash, TheirsInv, KeepInv
<1>6. CASE Tool
  <2>1. pc = "idle" /\ ToolFrame /\ TheirsInv'
    BY <1>6, ToolKeeps
  <2> QED BY <2>1 DEF ToolFrame, KeepInv
<1>7. ASSUME NEW q \in Sources, ChangeSource(q) PROVE TheirsInv' /\ KeepInv'
  BY <1>7 DEF ChangeSource, TheirsInv, KeepInv
<1>8. CASE UNCHANGED vars
  BY <1>8 DEF vars, TheirsInv, KeepInv
<1> QED BY <1>1, <1>2, <1>3, <1>4, <1>5, <1>6, <1>7, <1>8 DEF Next, Sync

LEMMA AlwaysTheirs ==
  ASSUME ~Interferes
  PROVE  Spec => [](TheirsInv /\ KeepInv)
BY InitTheirs, NextTheirs, AlwaysTyped, AlwaysRun, PTL DEF Spec

\* If no tool writes during a run, no step of a run removes or reorders the
\* entries a tool added to a list, nor changes another value a tool set, but at
\* the pointers the patch deletes or sets.
THEOREM ToolWorkIsKept ==
  ASSUME ~Interferes
  PROVE  Spec => ToolWorkKept
<1> DEFINE Keeps == /\ \A p \in Lists \ txn.delete : Only(doc'[p], theirs[p]) = Only(doc[p], theirs[p])
                    /\ \A p \in loose \ PatchNames(txn) : doc'[p] = doc[p]
<1>1. ASSUME Typed, RunInv, TheirsInv, KeepInv, Next, Sync \/ Crash
      PROVE  Keeps
  <2>1. CASE doc' = doc
    BY <2>1
  <2>2. ASSUME NEW s \in Surfaces, Apply(s) PROVE Keeps
    <3>1. Lists \subseteq Pointers /\ loose \subseteq Pointers
      BY <1>1, PointersAssumption DEF Typed, TypeOK
    <3> QED BY <1>1, <2>2, <3>1, ApplyKeeps
  <2>3. Refuse \/ Prepare \/ Publish \/ Crash => doc' = doc
    BY DEF Refuse, Prepare, Publish, Crash
  <2> QED BY <1>1, <2>1, <2>2, <2>3 DEF Sync
<1>2. ASSUME Typed, RunInv, TheirsInv, KeepInv, [Next]_vars
      PROVE  [Sync \/ Crash => Keeps]_vars
  BY <1>1, <1>2
<1>3. Typed /\ RunInv /\ TheirsInv /\ KeepInv /\ [Next]_vars => [Sync \/ Crash => Keeps]_vars
  BY <1>2
<1> HIDE DEF Keeps
<1>4. Spec => [][Sync \/ Crash => Keeps]_vars
  BY <1>3, AlwaysTyped, AlwaysRun, AlwaysTheirs, PTL DEF Spec
<1> USE DEF Keeps
<1> QED BY <1>4 DEF ToolWorkKept
-----------------------------------------------------------------------------
(* What the compiler left, while no run was cut short.                     *)

\* Vouches, at one pointer.
VouchesAt(m, d, L, T, p) ==
  /\ p \in Lists \ L => d[p] \notin Scalars
  /\ p \notin Lists \cup L => d[p] = Missing \/ (p \in DOMAIN m /\ m[p] = Whole(d[p]))
  /\ p \in Lists => EntriesOf(d[p]) \subseteq T[p] \cup (IF p \in DOMAIN m THEN m[p].items ELSE {})

\* The tools' entries once the patch of q has added its own to lists q does not
\* generate.
Extra(q) == [p \in Lists |-> theirs[p] \cup
               (IF p \in DOMAIN q.extend \ DOMAIN q.gen THEN ToSet(q.extend[p]) ELSE {})]

LEMMA VouchesPointwise ==
  ASSUME NEW m, NEW d, NEW L, NEW T
  PROVE  Vouches(m, d, L, T) <=> \A p \in Pointers : VouchesAt(m, d, L, T, p)
BY PointersAssumption DEF Vouches, VouchesAt

LEMMA PrepareVouches ==
  ASSUME Typed, Vouches(owned, doc, loose, theirs), Prepare, NEW p \in Pointers
  PROVE  VouchesAt(record', candidate', loose' \cup (DOMAIN source.set \ DOMAIN source.gen),
                   Extra(source)', p)
<1>1. /\ source \in Sources /\ IsSource(source) /\ ~PatchFails(source) /\ Conflicts(source) = {} /\ TypeOK
  BY SourcesAssumption DEF Prepare, Refused, Typed, TypeOK
<1>2. /\ candidate'[p] = Patched(source, p) /\ record' = Record(source) /\ UNCHANGED source
      /\ loose' = loose \ DOMAIN source.gen
      /\ p \in Lists => theirs'[p] = IF p \in DOMAIN source.gen
                                     THEN theirs[p] \ Record(source)[p].items ELSE theirs[p]
  BY DEF Prepare, Candidate
<1>3. VouchesAt(owned, doc, loose, theirs, p) /\ DOMAIN record' = DOMAIN source.gen
  BY <1>1, <1>2, VouchesPointwise, RecordFacts
<1>4. /\ DOMAIN source.extend \subseteq Lists /\ DOMAIN source.set \subseteq Pointers \ Lists
      /\ source.delete \subseteq Pointers \ (DOMAIN source.gen \cup DOMAIN source.extend \cup DOMAIN source.set)
  BY <1>1 DEF IsSource
<1>5. Patched(source, p) \in ValuesAt(p) /\ doc[p] \in ValuesAt(p) /\ Missing \notin Scalars
  BY <1>1, PatchedFacts, ValuesAssumption DEF TypeOK
<1>6. CASE p \in Lists
  <2>2. Extra(source)'[p] = theirs'[p] \cup (IF p \in DOMAIN source.extend \ DOMAIN source.gen
                                             THEN ToSet(source.extend[p]) ELSE {})
    BY <1>2, <1>6 DEF Extra
  <2> DEFINE f == Foreign(source, p)
  <2>3. /\ f \in ListValues /\ ToSet(f) \subseteq EntriesOf(doc[p])
        /\ ToSet(f) \cap OwnItems(p) = {} /\ ToSet(f) \cap GenItems(source, p) = {}
    BY <1>1, ForeignFacts
  <2>4. ToSet(f) \subseteq theirs[p]
    BY <1>3, <1>6, <2>3 DEF VouchesAt, OwnItems
  <2>5. CASE p \in DOMAIN source.gen
    <3>1. Patched(source, p) = Layout(source, p, f)
      BY <1>1, <1>6, <2>5, PatchedFacts
    <3>2. Patched(source, p) \in ListValues /\ ToSet(f) \subseteq ToSet(Patched(source, p))
      <4>1. ToSet(f) \cap ToSet(source.gen[p]) = {}
        BY <2>3, <2>5 DEF GenItems
      <4> QED BY <1>1, <1>6, <2>3, <2>5, <3>1, <4>1, LayoutFacts
    <3>3. Record(source)[p] = Entries(ToSet(Patched(source, p)) \ ToSet(f))
      BY <1>1, <1>6, <2>5, RecordFacts
    <3>4. record'[p].items = ToSet(Patched(source, p)) \ ToSet(f)
      BY <1>2, <3>3 DEF Entries
    <3>5. ToSet(f) \subseteq theirs'[p]
      BY <1>2, <1>6, <2>4, <2>5, <3>4
    <3>6. EntriesOf(candidate'[p]) = ToSet(Patched(source, p)) /\ candidate'[p] \notin Scalars
      BY <1>2, <3>2, ListFacts, ValuesAssumption DEF EntriesOf
    <3> QED BY <1>3, <1>6, <2>2, <2>5, <3>4, <3>5, <3>6 DEF VouchesAt
  <2>6. CASE p \notin DOMAIN source.gen
    <3> DEFINE v == Reconciled(source, p)
               base == IF v = Missing THEN << >> ELSE v
    <3>0. v \in Scalars \cup {Missing} \cup ListValues /\ theirs'[p] = theirs[p] /\ p \notin DOMAIN record'
      BY <1>1, <1>2, <1>3, <1>6, <2>6, ReconciledFacts, ListFacts
    <3>1. EntriesOf(v) \subseteq theirs[p] /\ (p \notin loose => v \notin Scalars)
      <4>1. CASE p \in DOMAIN owned
        <5>1. v = IF f # << >> THEN f ELSE Missing
          BY <1>1, <1>6, <2>6, <4>1, ReconciledFacts
        <5>2. EntriesOf(v) \subseteq ToSet(f) /\ v \notin Scalars
          BY <2>3, <5>1, ListFacts, ValuesAssumption DEF EntriesOf
        <5> QED BY <2>4, <5>2
      <4>2. CASE p \notin DOMAIN owned
        <5>1. v = doc[p]
          BY <1>1, <2>6, <4>2, ReconciledFacts
        <5> QED BY <1>3, <1>6, <4>2, <5>1 DEF VouchesAt
      <4> QED BY <4>1, <4>2
    <3>2. CASE p \in source.delete
      <4>1. candidate'[p] = Missing
        BY <1>1, <1>2, <3>2, PatchedFacts
      <4>2. EntriesOf(candidate'[p]) = {} /\ candidate'[p] \notin Scalars
        BY <1>5, <4>1, ListFacts DEF EntriesOf
      <4> QED BY <1>6, <4>2 DEF VouchesAt
    <3>3. CASE p \in DOMAIN source.extend
      <4>1. candidate'[p] = Extended(base, source.extend[p]) /\ source.extend[p] \in ListValues
        BY <1>1, <1>2, <2>6, <3>3, PatchedFacts DEF IsSource
      <4>2. v \notin Scalars
        BY <1>1, <3>3 DEF PatchFails
      <4>3. base \in ListValues /\ ToSet(base) \subseteq theirs[p]
        <5>1. CASE v = Missing
          BY <5>1, ListFacts
        <5>2. CASE v # Missing
          <6>1. v \in ListValues
            BY <3>0, <4>2, <5>2
          <6> QED BY <3>1, <5>2, <6>1, ListFacts DEF EntriesOf
        <5> QED BY <5>1, <5>2
      <4> HIDE DEF base
      <4>4. /\ candidate'[p] \in ListValues
            /\ ToSet(candidate'[p]) = ToSet(base) \cup ToSet(source.extend[p])
        BY <4>1, <4>3, ExtendedFacts
      <4>5. EntriesOf(candidate'[p]) = ToSet(candidate'[p]) /\ candidate'[p] \notin Scalars
        BY <4>4, ListFacts, ValuesAssumption DEF EntriesOf
      <4> QED BY <1>6, <2>2, <2>6, <3>0, <3>3, <4>3, <4>4, <4>5 DEF VouchesAt
    <3>4. CASE p \notin source.delete \cup DOMAIN source.extend
      <4>1. candidate'[p] = v
        BY <1>1, <1>2, <1>4, <1>6, <2>6, <3>4, PatchedFacts
      <4> QED BY <1>2, <1>6, <2>2, <2>6, <3>0, <3>1, <4>1 DEF VouchesAt
    <3> QED BY <3>2, <3>3, <3>4
  <2> QED BY <2>5, <2>6
<1>7. CASE p \notin Lists
  <2>1. CASE p \in DOMAIN source.gen
    <3>1. Patched(source, p) = source.gen[p] /\ Record(source)[p] = Whole(source.gen[p])
      BY <1>1, <1>7, <2>1, PatchedFacts, RecordFacts
    <3> QED BY <1>2, <1>3, <1>7, <2>1, <3>1 DEF VouchesAt
  <2>2. CASE p \in DOMAIN source.set \ DOMAIN source.gen
    BY <1>7, <2>2 DEF VouchesAt
  <2>3. CASE p \in source.delete
    <3>1. candidate'[p] = Missing
      BY <1>1, <1>2, <2>3, PatchedFacts
    <3> QED BY <1>7, <3>1 DEF VouchesAt
  <2>4. CASE p \notin DOMAIN source.gen \cup DOMAIN source.set \cup source.delete
    <3>1. p \notin DOMAIN source.extend
      BY <1>4, <1>7
    <3>2. candidate'[p] = Reconciled(source, p)
      BY <1>1, <1>2, <2>4, <3>1, PatchedFacts
    <3>3. CASE p \in DOMAIN owned
      <4>1. candidate'[p] = Missing
        BY <1>1, <1>7, <2>4, <3>2, <3>3, ReconciledFacts
      <4> QED BY <1>7, <4>1 DEF VouchesAt
    <3>4. CASE p \notin DOMAIN owned
      <4>1. candidate'[p] = doc[p]
        BY <1>1, <2>4, <3>2, <3>4, ReconciledFacts
      <4>2. p \notin loose => doc[p] = Missing
        BY <1>3, <1>7, <3>4 DEF VouchesAt
      <4> QED BY <1>2, <1>7, <2>4, <4>1, <4>2 DEF VouchesAt
    <3> QED BY <3>3, <3>4
  <2> QED BY <2>1, <2>2, <2>3, <2>4
<1> QED BY <1>6, <1>7

LEMMA ToolVouches ==
  ASSUME Typed, Vouches(owned, doc, loose, theirs), Tool, NEW r \in Pointers
  PROVE  VouchesAt(owned, doc', loose', theirs', r)
<1>0. VouchesAt(owned, doc, loose, theirs, r)
  BY VouchesPointwise
<1>1. ToolPointers \subseteq Pointers
  BY PointersAssumption
<1>2. /\ \A v \in ListValues : EntriesOf(v) = ToSet(v) /\ v \notin Scalars
      /\ \A v \in Scalars \cup {Missing} : EntriesOf(v) = {}
  BY ListFacts, ValuesAssumption DEF EntriesOf
<1>3. ASSUME NEW p \in Pointers, NEW v, Edits(p, v)
      PROVE  doc'[r] = IF r = p THEN v ELSE doc[r]
  BY <1>3 DEF Edits
<1>4. ASSUME NEW p \in ToolPointers \cap Lists, NEW k \in 1..Len(ListAt(p)) + 1,
             NEW x \in ToolItems, AddEntry(p, k, x)
      PROVE  VouchesAt(owned, doc', loose', theirs', r)
  <2>1. /\ \A l \in Lists \ {p} : theirs'[l] = theirs[l]
        /\ theirs'[p] = IF p \in DOMAIN owned /\ x \in owned[p].items THEN theirs[p]
                        ELSE theirs[p] \cup {x}
        /\ loose' = loose
    BY <1>4, AddEntryFacts
  <2>2. PICK v \in ListValues : Edits(p, v) /\ ToSet(v) = EntriesOf(doc[p]) \cup {x}
    BY <1>4, AddEntryFacts
  <2>3. doc'[r] = IF r = p THEN v ELSE doc[r]
    BY <1>1, <1>3, <2>2
  <2>4. CASE r = p
    <3>1. EntriesOf(doc'[r]) = EntriesOf(doc[r]) \cup {x} /\ doc'[r] \notin Scalars
      BY <1>2, <2>2, <2>3, <2>4
    <3> QED BY <1>0, <2>1, <2>4, <3>1 DEF VouchesAt
  <2>5. CASE r # p
    BY <1>0, <2>1, <2>3, <2>5 DEF VouchesAt
  <2> QED BY <2>4, <2>5
<1>5. ASSUME NEW p \in ToolPointers \cap Lists, NEW k \in 1..Len(ListAt(p)) + 1, DropEntry(p, k)
      PROVE  VouchesAt(owned, doc', loose', theirs', r)
  <2>1. PICK x \in Items, v \in ListValues : /\ Edits(p, v) /\ ToSet(v) = EntriesOf(doc[p]) \ {x}
                                             /\ theirs' = [theirs EXCEPT ![p] = @ \ {x}]
    BY <1>5, DropEntryFacts
  <2>2. /\ \A l \in Lists \ {p} : theirs'[l] = theirs[l]
        /\ theirs'[p] = theirs[p] \ {x} /\ loose' = loose
    BY <1>5, <2>1, DropEntryFacts DEF Typed, TypeOK
  <2>3. doc'[r] = IF r = p THEN v ELSE doc[r]
    BY <1>1, <1>3, <2>1
  <2>4. CASE r = p
    <3>1. EntriesOf(doc'[r]) = EntriesOf(doc[r]) \ {x} /\ doc'[r] \notin Scalars
      BY <1>2, <2>1, <2>3, <2>4
    <3> QED BY <1>0, <2>2, <2>4, <3>1 DEF VouchesAt
  <2>5. CASE r # p
    BY <1>0, <2>2, <2>3, <2>5 DEF VouchesAt
  <2> QED BY <2>4, <2>5
<1>6. ASSUME NEW p \in ToolPointers, NEW v \in ToolScalars \cup {Missing}, SetValue(p, v)
      PROVE  VouchesAt(owned, doc', loose', theirs', r)
  <2>1. /\ v \in Scalars \cup {Missing} /\ Edits(p, v)
        /\ \A l \in Lists : theirs'[l] = IF l = p THEN {} ELSE theirs[l]
        /\ loose' = IF v = Missing \/ (p \in DOMAIN owned /\ owned[p] = Whole(v))
                    THEN loose \ {p} ELSE loose \cup {p}
    BY <1>6, SetValueFacts
  <2>2. doc'[r] = IF r = p THEN v ELSE doc[r]
    BY <1>1, <1>3, <2>1
  <2>3. CASE r = p
    <3>1. EntriesOf(doc'[r]) = {}
      BY <1>2, <2>1, <2>2, <2>3
    <3>2. r \notin loose' => v = Missing \/ (r \in DOMAIN owned /\ owned[r] = Whole(v))
      BY <2>1, <2>3
    <3>3. r \in Lists => ~(r \in DOMAIN owned /\ owned[r] = Whole(v))
      BY OwnershipFacts DEF Typed, TypeOK
    <3> QED BY <2>2, <2>3, <3>1, <3>2, <3>3, ValuesAssumption DEF VouchesAt
  <2>4. CASE r # p
    BY <1>0, <2>1, <2>2, <2>4 DEF VouchesAt
  <2> QED BY <2>3, <2>4
<1> QED BY <1>4, <1>5, <1>6 DEF Tool

LEMMA InitVouch == Init => VouchInv
<1> SUFFICES ASSUME Init PROVE VouchInv
  OBVIOUS
<1>1. /\ pc = "idle" /\ \A p \in Pointers : doc[p] = Missing
      /\ Missing \notin Scalars /\ EntriesOf(Missing) = {}
  BY ListFacts, ValuesAssumption DEF Init, EntriesOf
<1>2. Vouches(owned, doc, loose, theirs)
  BY <1>1, PointersAssumption DEF Vouches
<1> QED BY <1>1, <1>2 DEF VouchInv

LEMMA NextVouch ==
  ASSUME ~Interferes, Typed, RunInv, VouchInv, [Next]_vars
  PROVE  VouchInv'
<1>0. VouchInv <=>
        (~cut => /\ pc = "idle" => Vouches(owned, doc, loose, theirs)
                 /\ pc = "apply" => Vouches(record, candidate,
                      loose \cup (DOMAIN txn.set \ DOMAIN txn.gen), Extra(txn)))
  BY DEF VouchInv, Extra
<1>1. CASE Refuse
  BY <1>1 DEF Refuse, VouchInv, Vouches, EntriesOf, IsList
<1>2. CASE Prepare
  <2>1. pc = "idle" /\ pc' = "apply" /\ txn' = source /\ cut' = cut /\ source' = source
    BY <1>2 DEF Prepare
  <2>2. ASSUME ~cut
        PROVE  Vouches(record', candidate', loose' \cup (DOMAIN source.set \ DOMAIN source.gen),
                       Extra(source)')
    <3>1. Vouches(owned, doc, loose, theirs)
      BY <2>1, <2>2 DEF VouchInv
    <3> QED BY <1>2, <3>1, PrepareVouches, VouchesPointwise
  <2> QED BY <2>1, <2>2 DEF VouchInv, Extra
<1>3. ASSUME NEW s \in Surfaces, Apply(s) PROVE VouchInv'
  <2>1. /\ pc = "apply" /\ UNCHANGED <<pc, txn, candidate, record, cut>>
        /\ \A p \in Pointers : p \in loose /\ p \notin loose' => p \in txn.delete
        /\ \A p \in Lists : theirs'[p] # theirs[p] => p \in txn.delete
    BY <1>3 DEF Apply
  <2>2. \A p \in txn.delete : candidate[p] = Missing
    BY <2>1 DEF RunInv, AsPlanned
  <2> DEFINE S == DOMAIN txn.set \ DOMAIN txn.gen
  <2>3. ASSUME ~cut, NEW p \in Pointers
        PROVE  VouchesAt(record, candidate, loose' \cup S, Extra(txn)', p)
    <3>1. VouchesAt(record, candidate, loose \cup S, Extra(txn), p)
      BY <1>0, <2>1, <2>3, VouchesPointwise
    <3>2. p \in Lists => Extra(txn)'[p] = theirs'[p] \cup
            (IF p \in DOMAIN txn.extend \ DOMAIN txn.gen THEN ToSet(txn.extend[p]) ELSE {})
      BY <2>1 DEF Extra
    <3>3. p \in Lists => Extra(txn)[p] = theirs[p] \cup
            (IF p \in DOMAIN txn.extend \ DOMAIN txn.gen THEN ToSet(txn.extend[p]) ELSE {})
      BY DEF Extra
    <3>4. CASE p \in txn.delete
      <4>1. candidate[p] = Missing /\ Missing \notin Scalars /\ EntriesOf(candidate[p]) = {}
        BY <2>2, <3>4, ListFacts, ValuesAssumption DEF EntriesOf
      <4> QED BY <4>1 DEF VouchesAt
    <3>5. CASE p \notin txn.delete
      <4>1. (p \in loose => p \in loose') /\ (p \in Lists => Extra(txn)'[p] = Extra(txn)[p])
        BY <2>1, <3>2, <3>3, <3>5
      <4> QED BY <3>1, <4>1 DEF VouchesAt
    <3> QED BY <3>4, <3>5
  <2>4. ~cut => Vouches(record, candidate, loose' \cup S, Extra(txn)')
    BY <2>3, VouchesPointwise
  <2> QED BY <2>1, <2>4 DEF VouchInv, Extra
<1>4. CASE Publish
  <2>1. /\ pc = "apply" /\ todo = {} /\ owned' = record /\ pc' = "idle" /\ UNCHANGED <<doc, txn, cut>>
        /\ loose' = loose \cup (DOMAIN txn.set \ DOMAIN txn.gen)
        /\ \A p \in Lists : theirs'[p] = IF p \in DOMAIN txn.extend \ DOMAIN txn.gen
                                THEN theirs[p] \cup (EntriesOf(doc[p]) \cap ToSet(txn.extend[p]))
                                ELSE theirs[p]
    BY <1>4 DEF Publish
  <2>2. ASSUME ~cut, NEW p \in Pointers
        PROVE  VouchesAt(record, doc, loose', theirs', p)
    <3>1. VouchesAt(record, candidate, loose \cup (DOMAIN txn.set \ DOMAIN txn.gen), Extra(txn), p)
      BY <1>0, <2>1, <2>2, VouchesPointwise
    <3>2. doc[p] = candidate[p]
      BY <2>1 DEF RunInv
    <3>3. p \in Lists => EntriesOf(doc[p]) \subseteq
            theirs'[p] \cup (IF p \in DOMAIN record THEN record[p].items ELSE {})
      BY <2>1, <3>1, <3>2 DEF VouchesAt, Extra
    <3> QED BY <2>1, <3>1, <3>2, <3>3 DEF VouchesAt
  <2>3. ~cut => Vouches(record, doc, loose', theirs')
    BY <2>2, VouchesPointwise
  <2> QED BY <2>1, <2>3 DEF VouchInv
<1>5. CASE Crash
  BY <1>5 DEF Crash, VouchInv
<1>6. CASE Tool
  <2>1. ToolFrame
    <3>1. ToolPointers \subseteq Pointers
      BY PointersAssumption
    <3> QED BY <1>6, <3>1, AddEntryFacts, DropEntryFacts, SetValueFacts DEF Tool, Edits
  <2>2. pc = "idle" /\ UNCHANGED <<owned, pc, cut>>
    BY <2>1 DEF ToolFrame
  <2>3. ~cut => Vouches(owned, doc', loose', theirs')
    BY <1>0, <1>6, <2>2, ToolVouches, VouchesPointwise
  <2> QED BY <2>2, <2>3 DEF VouchInv
<1>7. ASSUME NEW q \in Sources, ChangeSource(q) PROVE VouchInv'
  BY <1>7 DEF ChangeSource, VouchInv, Vouches, EntriesOf, IsList
<1>8. CASE UNCHANGED vars
  BY <1>8 DEF vars, VouchInv, Vouches, EntriesOf, IsList
<1> QED BY <1>1, <1>2, <1>3, <1>4, <1>5, <1>6, <1>7, <1>8 DEF Next, Sync

LEMMA AlwaysVouch ==
  ASSUME ~Interferes
  PROVE  Spec => []VouchInv
BY InitVouch, NextVouch, AlwaysTyped, AlwaysRun, PTL DEF Spec

\* If no tool writes during a run and no run was cut short, every entry and value
\* a successful run leaves is in the current plan or somebody else's.
THEOREM NothingIsForgotten ==
  ASSUME ~Interferes
  PROVE  Spec => []NothingForgotten
<1>1. ASSUME Typed, RunInv, VouchInv PROVE NothingForgotten
  <2> SUFFICES ASSUME outcome = "done", ~cut, NEW p \in Pointers
               PROVE  IF IsList(doc[p])
                      THEN EntriesOf(doc[p]) \subseteq theirs[p] \cup GenItems(source, p)
                             \cup (IF p \in DOMAIN source.extend THEN ToSet(source.extend[p]) ELSE {})
                      ELSE doc[p] # Missing => p \in DOMAIN source.gen \cup DOMAIN source.set \cup loose
    BY DEF NothingForgotten, GenItems
  <2>1. IsSource(source) /\ AsPlanned(source, doc, owned) /\ pc = "idle" /\ doc[p] \in ValuesAt(p)
    BY <1>1, SourcesAssumption DEF Typed, TypeOK, RunInv
  <2>2. VouchesAt(owned, doc, loose, theirs, p) /\ DOMAIN owned = DOMAIN source.gen
    BY <1>1, <2>1, VouchesPointwise DEF VouchInv, AsPlanned
  <2>3. CASE IsList(doc[p])
    <3>1. p \in Lists
      BY <2>1, <2>3, ListFacts
    <3>2. CASE p \in DOMAIN owned
      <4>1. PICK f \in ListValues : /\ ToSet(f) \cap ToSet(source.gen[p]) = {}
                                    /\ doc[p] = Layout(source, p, f)
                                    /\ owned[p] = Entries(ToSet(doc[p]) \ ToSet(f))
        BY <2>1, <2>2, <3>1, <3>2 DEF AsPlanned
      <4>2. ToSet(doc[p]) \subseteq ToSet(f) \cup ToSet(source.gen[p])
              \cup (IF p \in DOMAIN source.extend THEN ToSet(source.extend[p]) ELSE {})
        BY <2>1, <2>2, <3>1, <3>2, <4>1, LayoutFacts
      <4>3. owned[p].items = ToSet(doc[p]) \ ToSet(f)
        BY <4>1 DEF Entries
      <4> QED BY <2>2, <2>3, <3>1, <3>2, <4>2, <4>3 DEF VouchesAt, GenItems
    <3>3. CASE p \notin DOMAIN owned
      BY <2>2, <2>3, <3>1, <3>3 DEF VouchesAt
    <3> QED BY <3>2, <3>3
  <2>4. CASE ~IsList(doc[p])
    <3>1. doc[p] \in Scalars \cup {Missing}
      BY <2>4 DEF IsList
    <3> QED BY <2>2, <2>4, <3>1 DEF VouchesAt
  <2> QED BY <2>3, <2>4
<1> QED BY <1>1, AlwaysTyped, AlwaysRun, AlwaysVouch, PTL

\* If no tool writes during a run and no run was cut short, the compiler accepts
\* its own earlier output, whatever the sources are by now.
THEOREM OwnOutputIsAccepted ==
  ASSUME ~Interferes
  PROVE  Spec => []OwnOutputAccepted
<1>1. ASSUME Typed, VouchInv PROVE OwnOutputAccepted
  <2> SUFFICES ASSUME pc = "idle", ~cut, NEW p \in Conflicts(source) PROVE p \in loose
    BY DEF OwnOutputAccepted
  <2>1. TypeOK /\ IsSource(source) /\ Missing \notin Scalars
    BY <1>1, SourcesAssumption, ValuesAssumption DEF Typed, TypeOK
  <2>2. p \in Pointers
    BY <2>1 DEF Conflicts, TypeOK, IsManifest, IsSource
  <2>3. VouchesAt(owned, doc, loose, theirs, p)
    BY <1>1, <2>2, VouchesPointwise DEF VouchInv
  <2>4. /\ doc[p] \in Scalars
        /\ p \notin Lists => ~(p \in DOMAIN owned /\ owned[p] = Whole(doc[p]))
    BY <2>1, <2>2, ConflictsAre
  <2> QED BY <2>1, <2>3, <2>4 DEF VouchesAt
<1> QED BY <1>1, AlwaysTyped, AlwaysVouch, PTL
=============================================================================
