---------------------------- MODULE Unwrap_proofs ----------------------------
(***************************************************************************)
(* Proofs about Peel and Unwrap, for any commands, any classes of words,   *)
(* any rules and any session.                                              *)
(***************************************************************************)
EXTENDS Unwrap, FiniteSetTheorems, SequenceTheorems, WellFoundedInduction, TLAPS

-----------------------------------------------------------------------------
(* Induction.  The library rules take the property as an operator, which   *)
(* the provers cannot instantiate; here it is a set, and induction is the  *)
(* existence of a least counterexample (WFMin).                            *)

LEMMA LessThanIsWellFounded == IsWellFoundedOn({ss \in Nat \X Nat : ss[1] < ss[2]}, Nat)
BY NatLessThanWellFounded DEF OpToRel

\* A set with zero, and with n + 1 whenever it has n, has every natural number.
THEOREM NatSetInduction ==
  ASSUME NEW T, 0 \in T, \A n \in Nat : n \in T => n + 1 \in T
  PROVE  Nat \subseteq T
<1> DEFINE R == {ss \in Nat \X Nat : ss[1] < ss[2]}
           Rest == Nat \ T
<1> SUFFICES ASSUME Rest # {} PROVE FALSE
  OBVIOUS
<1>1. IsWellFoundedOn(R, Nat) /\ Rest \subseteq Nat
  BY LessThanIsWellFounded
<1> HIDE DEF R, Rest
<1>2. PICK n \in Rest : \A m \in Rest : <<m, n>> \notin R
  BY <1>1, WFMin
<1> USE DEF R, Rest
<1>3. n \in Nat /\ n # 0 /\ n - 1 \in Nat /\ n - 1 < n /\ (n - 1) + 1 = n
  BY <1>2
<1>4. n - 1 \in T
  <2>1. <<n - 1, n>> \in R
    BY <1>3
  <2>2. n - 1 \notin Rest
    BY <1>2, <2>1
  <2> QED BY <1>3, <2>2
<1> QED BY <1>2, <1>3, <1>4
-----------------------------------------------------------------------------
(* Names.                                                                  *)

\* A word without a directory is its own basename.
LEMMA BasenameOfName ==
  ASSUME NEW piece, piece \notin DOMAIN Paths
  PROVE  Basename(<<piece>>) = <<piece>>
<1>1. {k \in DOMAIN <<piece>> : <<piece>>[k] \in DOMAIN Paths} = {}
  OBVIOUS
<1> QED
  BY <1>1 DEF Basename

-----------------------------------------------------------------------------
(* Commands.                                                               *)

\* As the shell may be given them: a word that is not quoted has one piece.
Commands == {c \in Seq(ShellWords) : WellFormed(c)}

Size(c) == Cardinality(Places(c))

LEMMA PlaceIs ==
  ASSUME NEW c, NEW i, NEW l
  PROVE  <<i, l>> \in Places(c) <=> i \in DOMAIN c /\ l \in DOMAIN c[i].pieces
BY DEF Places

LEMMA PlacesArePairs ==
  ASSUME NEW c, NEW p \in Places(c)
  PROVE  p = <<p[1], p[2]>> /\ p[1] \in DOMAIN c /\ p[2] \in DOMAIN c[p[1]].pieces
BY DEF Places

LEMMA Whole ==
  ASSUME NEW c \in Commands, NEW i \in DOMAIN c
  PROVE  /\ c[i] \in ShellWords /\ c[i].pieces \in Seq(STRING) /\ Len(c[i].pieces) > 0
         /\ c[i].quoted \in BOOLEAN /\ (~c[i].quoted => Len(c[i].pieces) = 1)
<1>1. c \in Seq(ShellWords) /\ WellFormed(c)
  BY DEF Commands
<1>2. c[i] \in ShellWords
  BY <1>1
<1>3. c[i].pieces \in Seq(STRING) /\ c[i].quoted \in BOOLEAN
  BY <1>2 DEF ShellWords
<1>4. Len(c[i].pieces) > 0 /\ (~c[i].quoted => Len(c[i].pieces) = 1)
  BY <1>1, Zenon DEF WellFormed
<1> QED BY <1>2, <1>3, <1>4

LEMMA PlacesFinite ==
  ASSUME NEW c \in Commands
  PROVE  IsFiniteSet(Places(c)) /\ Size(c) \in Nat
<1> DEFINE f == [i \in 1..Len(c) |-> {i} \X DOMAIN c[i].pieces]
           S == {{i} \X DOMAIN c[i].pieces : i \in DOMAIN c}
<1>1. DOMAIN c = 1..Len(c) /\ Len(c) \in Nat
  BY DEF Commands
<1>2. f \in Surjection(1..Len(c), S)
  BY <1>1 DEF Surjection
<1>3. IsFiniteSet(1..Len(c))
  BY <1>1, FS_Interval
<1>4. IsFiniteSet(S)
  <2> HIDE DEF f, S
  <2> QED BY <1>2, <1>3, FS_Surjection
<1>5. ASSUME NEW T \in S PROVE IsFiniteSet(T)
  <2>1. PICK i \in DOMAIN c : T = {i} \X DOMAIN c[i].pieces
    OBVIOUS
  <2>2. c[i].pieces \in Seq(STRING)
    BY <2>1, Whole
  <2>3. DOMAIN c[i].pieces = 1..Len(c[i].pieces) /\ Len(c[i].pieces) \in Nat
    BY <2>2
  <2>4. IsFiniteSet(DOMAIN c[i].pieces)
    BY <2>3, FS_Interval
  <2> QED BY <2>1, <2>4, FS_Singleton, FS_Product
<1>6. IsFiniteSet(UNION S)
  <2> HIDE DEF S
  <2> QED BY <1>4, <1>5, FS_UNION
<1>7. IsFiniteSet(Places(c))
  BY <1>6 DEF Places
<1> QED BY <1>7, FS_CardinalityType DEF Size

-----------------------------------------------------------------------------
(***************************************************************************)
(* Every step of peeling puts the pieces of at most one word, or what is   *)
(* left of them, before the words that stood behind it.                    *)
(***************************************************************************)

\* The words of c from k on, behind pieces that replace what stood before them.
Rebuilt(c, pieces, k) == Words(pieces) \o SubSeq(c, k, Len(c))

LEMMA RebuiltIs ==
  ASSUME NEW c \in Commands, NEW k \in 1..Len(c) + 1, NEW q \in Seq(STRING)
  PROVE  /\ Rebuilt(c, q, k) \in Commands
         /\ Len(Rebuilt(c, q, k)) = Len(q) + Len(c) + 1 - k
         /\ \A i \in 1..Len(q) : Rebuilt(c, q, k)[i] = Word(q[i])
         /\ \A i \in Len(q) + 1..Len(q) + Len(c) + 1 - k :
              Rebuilt(c, q, k)[i] = c[k + i - Len(q) - 1]
<1> DEFINE s == Words(q)
           t == SubSeq(c, k, Len(c))
           d == s \o t
<1>1. c \in Seq(ShellWords) /\ Len(c) \in Nat /\ DOMAIN c = 1..Len(c)
  BY DEF Commands
<1>2. Len(q) \in Nat /\ DOMAIN q = 1..Len(q) /\ \A i \in 1..Len(q) : q[i] \in STRING
  OBVIOUS
<1>3. \A i \in 1..Len(q) : Word(q[i]) \in ShellWords
  <2> SUFFICES ASSUME NEW i \in 1..Len(q) PROVE Word(q[i]) \in ShellWords
    OBVIOUS
  <2>1. <<q[i]>> \in Seq(STRING)
    BY <1>2
  <2> QED BY <2>1 DEF Word, ShellWords
<1>4. s = [i \in 1..Len(q) |-> Word(q[i])]
  BY <1>2 DEF Words
<1>5. s \in Seq(ShellWords) /\ Len(s) = Len(q) /\ \A i \in 1..Len(q) : s[i] = Word(q[i])
  BY <1>2, <1>3, <1>4
<1>6. t \in Seq(ShellWords) /\ Len(t) = Len(c) + 1 - k
      /\ \A i \in 1..Len(c) + 1 - k : t[i] = c[k + i - 1]
  <2>1. \A i \in k..Len(c) : c[i] \in ShellWords
    BY <1>1
  <2>2. k \in Int /\ Len(c) \in Int
    BY <1>1
  <2>3. /\ t \in Seq(ShellWords)
        /\ Len(t) = IF k <= Len(c) THEN Len(c) - k + 1 ELSE 0
        /\ \A i \in 1..(Len(c) - k + 1) : t[i] = c[k + i - 1]
    BY <1>1, <2>1, <2>2, SubSeqProperties
  <2>4. k <= Len(c) \/ k = Len(c) + 1
    BY <1>1
  <2> QED BY <1>1, <2>3, <2>4
<1> HIDE DEF s, t
<1>7. /\ d \in Seq(ShellWords) /\ Len(d) = Len(q) + Len(c) + 1 - k
      /\ \A i \in 1..Len(q) : d[i] = Word(q[i])
      /\ \A i \in Len(q) + 1..Len(q) + Len(c) + 1 - k : d[i] = c[k + i - Len(q) - 1]
  <2>1. d \in Seq(ShellWords) /\ Len(d) = Len(s) + Len(t)
        /\ \A i \in 1..Len(s) + Len(t) : d[i] = IF i <= Len(s) THEN s[i] ELSE t[i - Len(s)]
    <3>0. s \in Seq(ShellWords) /\ t \in Seq(ShellWords)
      BY <1>5, <1>6
    <3>1. s \o t \in Seq(ShellWords) /\ Len(s \o t) = Len(s) + Len(t)
      BY <3>0
    <3>2. ASSUME NEW i \in 1..Len(s) + Len(t)
          PROVE  (s \o t)[i] = IF i <= Len(s) THEN s[i] ELSE t[i - Len(s)]
      BY <3>0
    <3> QED BY <3>1, <3>2
  <2>2. ASSUME NEW i \in 1..Len(q) PROVE d[i] = Word(q[i])
    BY <1>1, <1>2, <1>5, <1>6, <2>1
  <2>3. ASSUME NEW i \in Len(q) + 1..Len(q) + Len(c) + 1 - k PROVE d[i] = c[k + i - Len(q) - 1]
    <3>1. i - Len(q) \in 1..Len(c) + 1 - k /\ i \in 1..Len(s) + Len(t) /\ ~(i <= Len(s))
      BY <1>1, <1>2, <1>5, <1>6
    <3>2. d[i] = t[i - Len(q)]
      BY <1>5, <2>1, <3>1
    <3>3. k + (i - Len(q)) - 1 = k + i - Len(q) - 1
      BY <1>1, <1>2
    <3> QED BY <1>6, <3>1, <3>2, <3>3
  <2> QED BY <1>1, <1>5, <1>6, <2>1, <2>2, <2>3
<1> HIDE DEF d
<1>8. ASSUME NEW i \in DOMAIN d
      PROVE  Len(d[i].pieces) > 0 /\ (~d[i].quoted => Len(d[i].pieces) = 1)
  <2>1. CASE i \in 1..Len(q)
    <3>1. d[i] = Word(q[i])
      BY <1>7, <2>1
    <3>2. d[i].pieces = <<q[i]>> /\ Len(<<q[i]>>) = 1
      BY <3>1 DEF Word
    <3> QED BY <3>2
  <2>2. CASE i \in Len(q) + 1..Len(q) + Len(c) + 1 - k
    <3>1. k + i - Len(q) - 1 \in DOMAIN c
      BY <1>1, <1>2, <2>2
    <3> QED BY <1>7, <2>2, <3>1, Whole
  <2> QED BY <1>1, <1>2, <1>7, <2>1, <2>2
<1>9. d \in Commands
  BY <1>7, <1>8 DEF Commands, WellFormed
<1>10. d = Rebuilt(c, q, k)
  BY DEF d, s, t, Rebuilt
<1> QED BY <1>7, <1>9, <1>10

\* Nothing is gained, and something lost where a word or a piece is left out.
LEMMA RebuiltIsSmaller ==
  ASSUME NEW c \in Commands, NEW k \in 2..Len(c) + 1, NEW j \in 1..k - 1,
         NEW q \in Seq(STRING), Len(q) <= Len(c[j].pieces)
  PROVE  /\ Size(Rebuilt(c, q, k)) <= Size(c)
         /\ j > 1 \/ Len(q) < Len(c[j].pieces) => Size(Rebuilt(c, q, k)) < Size(c)
<1> DEFINE d == Rebuilt(c, q, k)
           n == Len(q)
           from == [p \in Places(d) |-> IF p[1] <= n THEN <<j, p[1]>> ELSE <<k + p[1] - n - 1, p[2]>>]
<1>1. Len(c) \in Nat /\ DOMAIN c = 1..Len(c) /\ n \in Nat
  BY DEF Commands
<1>2. /\ d \in Commands /\ Len(d) = n + Len(c) + 1 - k /\ DOMAIN d = 1..n + Len(c) + 1 - k
      /\ \A i \in 1..n : d[i] = Word(q[i])
      /\ \A i \in n + 1..n + Len(c) + 1 - k : d[i] = c[k + i - n - 1]
  <2>1. k \in 1..Len(c) + 1
    BY <1>1
  <2>2. d \in Commands /\ Len(d) = n + Len(c) + 1 - k
        /\ (\A i \in 1..n : d[i] = Word(q[i]))
        /\ (\A i \in n + 1..n + Len(c) + 1 - k : d[i] = c[k + i - n - 1])
    BY <2>1, RebuiltIs
  <2>3. DOMAIN d = 1..Len(d)
    BY <2>2 DEF Commands
  <2> QED BY <2>2, <2>3
<1>3. j \in DOMAIN c /\ c[j].pieces \in Seq(STRING)
  BY <1>1, Whole
<1>4. DOMAIN c[j].pieces = 1..Len(c[j].pieces)
  BY <1>3
<1> HIDE DEF d
<1>5. ASSUME NEW p \in Places(d)
      PROVE  /\ p = <<p[1], p[2]>> /\ p[1] \in 1..n + Len(c) + 1 - k
             /\ p[1] <= n => p[2] = 1 /\ <<j, p[1]>> \in Places(c)
             /\ ~(p[1] <= n) => <<k + p[1] - n - 1, p[2]>> \in Places(c)
  <2>1. p = <<p[1], p[2]>> /\ p[1] \in DOMAIN d /\ p[2] \in DOMAIN d[p[1]].pieces
    BY PlacesArePairs
  <2>2. CASE p[1] <= n
    <3>1. p[1] \in 1..n /\ p[1] \in 1..Len(c[j].pieces)
      BY <1>1, <1>2, <1>3, <2>1, <2>2
    <3>2. d[p[1]].pieces = <<q[p[1]]>>
      <4>1. d[p[1]] = Word(q[p[1]])
        BY <1>2, <3>1
      <4> QED BY <4>1 DEF Word
    <3>3. p[2] = 1
      BY <2>1, <3>2
    <3>4. <<j, p[1]>> \in Places(c)
      BY <1>3, <1>4, <3>1, PlaceIs
    <3> QED BY <1>2, <2>1, <2>2, <3>3, <3>4
  <2>3. CASE ~(p[1] <= n)
    <3> DEFINE i == k + p[1] - n - 1
    <3>1. p[1] \in n + 1..n + Len(c) + 1 - k /\ i \in DOMAIN c
      BY <1>1, <1>2, <2>1, <2>3
    <3>2. d[p[1]] = c[i]
      BY <1>2, <3>1
    <3> HIDE DEF i
    <3>3. <<i, p[2]>> \in Places(c)
      BY <2>1, <3>1, <3>2, PlaceIs
    <3> QED BY <1>2, <2>1, <2>3, <3>3 DEF i
  <2> QED BY <2>2, <2>3
<1>6. from \in [Places(d) -> Places(c)]
  BY <1>5
<1>7. ASSUME NEW p \in Places(d), NEW r \in Places(d), from[p] = from[r] PROVE p = r
  <2>1. p[1] \in Nat /\ r[1] \in Nat /\ p = <<p[1], p[2]>> /\ r = <<r[1], r[2]>>
    <3>1. /\ p[1] \in 1..n + Len(c) + 1 - k /\ r[1] \in 1..n + Len(c) + 1 - k
          /\ p = <<p[1], p[2]>> /\ r = <<r[1], r[2]>>
      BY <1>5, Zenon
    <3> QED BY <1>1, <3>1
  <2>2. CASE p[1] <= n /\ r[1] <= n
    <3>1. <<j, p[1]>> = <<j, r[1]>>
      BY <1>7, <2>2
    <3> QED BY <1>5, <2>1, <2>2, <3>1
  <2>3. CASE ~(p[1] <= n) /\ ~(r[1] <= n)
    <3>1. <<k + p[1] - n - 1, p[2]>> = <<k + r[1] - n - 1, r[2]>>
      BY <1>7, <2>3
    <3>2. k + p[1] - n - 1 = k + r[1] - n - 1 /\ p[2] = r[2]
      BY <3>1
    <3>3. p[1] = r[1]
      BY <1>1, <2>1, <3>2
    <3> QED BY <2>1, <3>2, <3>3
  <2>4. CASE p[1] <= n /\ ~(r[1] <= n)
    <3>1. <<j, p[1]>> = <<k + r[1] - n - 1, r[2]>>
      BY <1>7, <2>4
    <3>2. j = k + r[1] - n - 1
      BY <3>1
    <3> QED BY <1>1, <2>1, <2>4, <3>2
  <2>5. CASE ~(p[1] <= n) /\ r[1] <= n
    <3>1. <<j, r[1]>> = <<k + p[1] - n - 1, p[2]>>
      BY <1>7, <2>5
    <3>2. j = k + p[1] - n - 1
      BY <3>1
    <3> QED BY <1>1, <2>1, <2>5, <3>2
  <2> QED BY <2>2, <2>3, <2>4, <2>5
<1>8. from \in Injection(Places(d), Places(c))
  <2>1. DOMAIN from = Places(d)
    OBVIOUS
  <2> HIDE DEF from
  <2> QED BY <1>6, <1>7, <2>1 DEF Injection, IsInjective
<1>9. IsFiniteSet(Places(c)) /\ Size(c) \in Nat /\ Size(d) \in Nat
  BY <1>2, PlacesFinite
<1>10. Size(d) <= Size(c) /\ (Size(d) = Size(c) <=> from \in Surjection(Places(d), Places(c)))
  <2> HIDE DEF from
  <2> QED BY <1>8, <1>9, FS_Injection DEF Size
<1>11. ASSUME j > 1 \/ n < Len(c[j].pieces)
       PROVE  from \notin Surjection(Places(d), Places(c))
  <2> DEFINE lost == IF j > 1 THEN <<1, 1>> ELSE <<j, n + 1>>
  <2>1. lost \in Places(c)
    <3>1. CASE j > 1
      <4>1. 1 \in DOMAIN c
        BY <1>1
      <4>2. c[1].pieces \in Seq(STRING) /\ Len(c[1].pieces) > 0
        BY <4>1, Whole
      <4>3. 1 \in DOMAIN c[1].pieces
        BY <4>2
      <4> QED BY <3>1, <4>1, <4>3, PlaceIs
    <3>2. CASE ~(j > 1)
      <4>1. n + 1 \in DOMAIN c[j].pieces
        BY <1>1, <1>3, <1>4, <1>11, <3>2
      <4> QED BY <1>3, <3>2, <4>1, PlaceIs
    <3> QED BY <3>1, <3>2
  <2>2. ASSUME NEW p \in Places(d) PROVE from[p] # lost
    <3>1. p[1] \in 1..n + Len(c) + 1 - k
      BY <1>5
    <3>2. CASE p[1] <= n
      <4>1. from[p] = <<j, p[1]>>
        BY <3>2
      <4> QED BY <1>1, <3>1, <3>2, <4>1
    <3>3. CASE ~(p[1] <= n)
      <4>1. from[p] = <<k + p[1] - n - 1, p[2]>>
        BY <3>3
      <4>2. k + p[1] - n - 1 >= k
        BY <1>1, <3>1, <3>3
      <4>3. k + p[1] - n - 1 # 1 /\ k + p[1] - n - 1 # j
        BY <1>1, <3>1, <4>2
      <4> QED BY <4>1, <4>3
    <3> QED BY <3>2, <3>3
  <2> HIDE DEF lost, from
  <2> QED BY <2>1, <2>2 DEF Surjection
<1>12. Size(d) <= Size(c) /\ (j > 1 \/ n < Len(c[j].pieces) => Size(d) < Size(c))
  <2> HIDE DEF from
  <2> QED BY <1>9, <1>10, <1>11
<1> QED BY <1>12 DEF d
-----------------------------------------------------------------------------
(***************************************************************************)
(* Peeling ends: every step leaves a word or a piece out, or else makes a  *)
(* head bare, which stays bare.                                            *)
(***************************************************************************)

LEMMA FirstExists ==
  ASSUME NEW S, S \subseteq Nat, S # {}
  PROVE  \E m \in S : \A j \in S : m <= j
<1> DEFINE R == {ss \in Nat \X Nat : ss[1] < ss[2]}
<1>1. IsWellFoundedOn(R, Nat)
  BY LessThanIsWellFounded
<1> HIDE DEF R
<1>2. PICK m \in S : \A j \in S : <<j, m>> \notin R
  BY <1>1, WFMin
<1>3. ASSUME NEW j \in S PROVE m <= j
  <2>1. m \in Nat /\ j \in Nat /\ <<j, m>> \notin R
    BY <1>2
  <2>2. ~(j < m)
    BY <2>1 DEF R
  <2> QED BY <2>1, <2>2
<1> QED BY <1>3

LEMMA LastExists ==
  ASSUME NEW n \in Nat, NEW S, S \subseteq 1..n, S # {}
  PROVE  \E m \in S : \A j \in S : j <= m
<1> DEFINE T == {n - j : j \in S}
<1>1. T \subseteq Nat /\ T # {}
  <2>1. ASSUME NEW j \in 1..n PROVE n - j \in Nat
    OBVIOUS
  <2>2. \A j \in S : j \in 1..n
    OBVIOUS
  <2>3. T \subseteq Nat
    BY <2>1, <2>2
  <2>4. PICK j : j \in S
    OBVIOUS
  <2>5. n - j \in T
    BY <2>4
  <2> QED BY <2>3, <2>5
<1> HIDE DEF T
<1>2. PICK x \in T : \A y \in T : x <= y
  BY <1>1, FirstExists
<1>3. PICK m \in S : x = n - m
  BY <1>2 DEF T
<1>4. ASSUME NEW j \in S PROVE j <= m
  <2>1. n - j \in T
    BY DEF T
  <2>2. n - m <= n - j /\ m \in Nat /\ j \in Nat
    BY <1>2, <1>3, <2>1
  <2> QED BY <2>2
<1> QED BY <1>4

LEMMA Prepended ==
  ASSUME NEW S, NEW x \in S, NEW s \in Seq(S)
  PROVE  <<x>> \o s \in Seq(S) /\ Len(<<x>> \o s) = 1 + Len(s) /\ (<<x>> \o s)[1] = x
<1> DEFINE one == <<x>>
<1>1. one \in Seq(S) /\ Len(one) = 1 /\ one[1] = x /\ Len(s) \in Nat
  OBVIOUS
<1> HIDE DEF one
<1>2. one \o s \in Seq(S) /\ Len(one \o s) = Len(one) + Len(s)
      /\ \A i \in 1..Len(one) + Len(s) : (one \o s)[i] = IF i <= Len(one) THEN one[i] ELSE s[i - Len(one)]
  BY <1>1, ConcatProperties
<1>3. (one \o s)[1] = x
  BY <1>1, <1>2
<1> QED BY <1>1, <1>2, <1>3 DEF one

\* What a path ends in is a name, and has no more pieces than the path.
LEMMA BasenameIs ==
  ASSUME NEW pieces \in Seq(STRING), Len(pieces) > 0
  PROVE  /\ Basename(pieces) \in Seq(STRING)
         /\ 0 < Len(Basename(pieces)) /\ Len(Basename(pieces)) <= Len(pieces)
         /\ Basename(pieces)[1] \notin DOMAIN Paths
<1> DEFINE directories == {k \in DOMAIN pieces : pieces[k] \in DOMAIN Paths}
           last == CHOOSE k \in directories : \A j \in directories : j <= k
           name == Paths[pieces[last]]
           rest == SubSeq(pieces, last + 1, Len(pieces))
<1>1. Len(pieces) \in Nat /\ DOMAIN pieces = 1..Len(pieces)
  OBVIOUS
<1>2. CASE directories = {}
  BY <1>1, <1>2 DEF Basename
<1>3. CASE directories # {}
  <2>1. directories \subseteq 1..Len(pieces)
    BY <1>1
  <2>2. last \in directories
    <3> HIDE DEF directories
    <3> QED BY <1>1, <1>3, <2>1, LastExists
  <2>3. last \in 1..Len(pieces) /\ name \in STRING /\ name \notin DOMAIN Paths
    BY <2>1, <2>2, PiecesAssumption
  <2>4. Basename(pieces) = <<name>> \o rest
    BY <1>3 DEF Basename
  <2> HIDE DEF last, name
  <2>5. rest \in Seq(STRING) /\ Len(rest) <= Len(pieces) - 1
    <3>1. \A i \in last + 1..Len(pieces) : pieces[i] \in STRING
      BY <1>1, <2>3
    <3>2. last + 1 \in Int /\ Len(pieces) \in Int
      BY <1>1, <2>3
    <3>3. /\ rest \in Seq(STRING)
          /\ Len(rest) = IF last + 1 <= Len(pieces) THEN Len(pieces) - (last + 1) + 1 ELSE 0
      BY <3>1, <3>2, SubSeqProperties
    <3> QED BY <1>1, <2>3, <3>3
  <2> HIDE DEF rest
  <2>6. <<name>> \o rest \in Seq(STRING) /\ Len(<<name>> \o rest) = 1 + Len(rest)
        /\ (<<name>> \o rest)[1] = name
    BY <2>3, <2>5, Prepended
  <2> DEFINE whole == <<name>> \o rest
  <2> HIDE DEF whole
  <2>7. whole \in Seq(STRING) /\ Len(whole) = 1 + Len(rest) /\ whole[1] = name /\ Basename(pieces) = whole
    BY <2>4, <2>6 DEF whole
  <2> DEFINE n == Len(pieces)
             m == Len(rest)
  <2>8. n \in Nat /\ m \in Nat /\ m <= n - 1 /\ Len(whole) = 1 + m
    BY <1>1, <2>5, <2>7
  <2> HIDE DEF n, m
  <2>9. 0 < Len(whole) /\ Len(whole) <= n
    BY <2>8
  <2> QED BY <2>3, <2>7, <2>9 DEF n
<1> QED BY <1>2, <1>3

Bare(w) == ~w.quoted /\ Basename(w.pieces) = w.pieces

Weight(c) == 2 * Size(c) - (IF Bare(c[1]) THEN 1 ELSE 0)

LEMMA WeightIs ==
  ASSUME NEW c \in Commands, c # << >>
  PROVE  Weight(c) \in Nat /\ 1 <= Weight(c) /\ Weight(c) <= MaxPeels(c) /\ 2 * Size(c) <= Weight(c) + 1
         /\ MaxPeels(c) \in Nat
<1>1. Size(c) \in Nat /\ IsFiniteSet(Places(c))
  BY PlacesFinite
<1>2. 1 \in DOMAIN c
  BY DEF Commands
<1>3. <<1, 1>> \in Places(c)
  <2>1. c[1].pieces \in Seq(STRING) /\ Len(c[1].pieces) > 0
    BY <1>2, Whole
  <2>2. 1 \in DOMAIN c[1].pieces
    BY <2>1
  <2> QED BY <1>2, <2>2, PlaceIs
<1>4. Size(c) >= 1
  BY <1>1, <1>3, FS_EmptySet DEF Size
<1>5. MaxPeels(c) = 2 * Size(c)
  BY DEF MaxPeels, Size
<1> DEFINE bare == Bare(c[1])
<1>6. Weight(c) = 2 * Size(c) - (IF bare THEN 1 ELSE 0)
  BY DEF Weight
<1> HIDE DEF bare
<1> QED BY <1>1, <1>4, <1>5, <1>6

\* A command rebuilt from less weighs less.
LEMMA LessWeight ==
  ASSUME NEW c \in Commands, c # << >>, NEW d \in Commands, d # << >>,
         Size(d) <= Size(c), Size(d) < Size(c) \/ (Bare(d[1]) /\ ~Bare(c[1]))
  PROVE  Weight(d) < Weight(c)
<1>1. Size(c) \in Nat /\ Size(d) \in Nat
  BY PlacesFinite
<1> DEFINE x == Bare(c[1])
           y == Bare(d[1])
<1>2. /\ Weight(c) = 2 * Size(c) - (IF x THEN 1 ELSE 0)
      /\ Weight(d) = 2 * Size(d) - (IF y THEN 1 ELSE 0)
      /\ Size(d) < Size(c) \/ (y /\ ~x)
  BY DEF Weight
<1> HIDE DEF x, y
<1> QED BY <1>1, <1>2

\* What stands behind the first words.
LEMMA FromIsSmaller ==
  ASSUME NEW c \in Commands, c # << >>, NEW k, k # 1, k \in Nat, NEW d \in From(c, k)
  PROVE  d \in Commands /\ d # << >> /\ Weight(d) < Weight(c)
<1>1. Len(c) \in Nat /\ DOMAIN c = 1..Len(c)
  BY DEF Commands
<1>2. k \in 2..Len(c) /\ d = SubSeq(c, k, Len(c))
  BY <1>1 DEF From
<1>3. << >> \in Seq(STRING) /\ Len(<< >>) = 0
  OBVIOUS
<1>4. k \in 1..Len(c) + 1 /\ k \in 2..Len(c) + 1 /\ k - 1 \in 1..k - 1
  BY <1>1, <1>2
<1> DEFINE none == << >>
           r == Rebuilt(c, none, k)
<1> HIDE DEF none
<1>5. none \in Seq(STRING) /\ Len(none) = 0
  BY <1>3 DEF none
<1>6. r \in Commands /\ Len(r) = Len(c) + 1 - k
  <2>1. r \in Commands /\ Len(r) = Len(none) + Len(c) + 1 - k
    BY <1>4, <1>5, RebuiltIs
  <2> QED BY <1>1, <1>4, <1>5, <2>1
<1>7. r = d
  <2>1. d \in Seq(ShellWords)
    <3>1. \A i \in k..Len(c) : c[i] \in ShellWords
      BY <1>1, <1>2, Whole
    <3>2. k \in Int /\ Len(c) \in Int
      BY <1>1, <1>2
    <3> QED BY <1>2, <3>1, <3>2, SubSeqProperties
  <2>2. Words(none) = << >>
    BY DEF Words, none
  <2> QED BY <1>2, <2>1, <2>2 DEF Rebuilt
<1>8. Size(r) < Size(c)
  <2>1. k - 1 \in DOMAIN c
    BY <1>1, <1>2
  <2>2. Len(c[k - 1].pieces) \in Nat /\ Len(c[k - 1].pieces) > 0
    BY <2>1, Whole
  <2>3. Len(none) < Len(c[k - 1].pieces) /\ Len(none) <= Len(c[k - 1].pieces)
    BY <1>5, <2>2
  <2> QED BY <1>4, <1>5, <2>3, RebuiltIsSmaller
<1>9. r # << >>
  BY <1>1, <1>2, <1>6
<1>10. Size(r) \in Nat /\ Size(c) \in Nat
  BY <1>6, PlacesFinite
<1> HIDE DEF r
<1> QED BY <1>6, <1>7, <1>8, <1>9, <1>10, LessWeight

\* The head without its quotes and directory.
LEMMA BareIsSmaller ==
  ASSUME NEW c \in Commands, c # << >>, c[1].quoted \/ Basename(c[1].pieces) # c[1].pieces
  PROVE  LET d == Words(Basename(c[1].pieces)) \o Tail(c)
         IN  d \in Commands /\ d # << >> /\ Weight(d) < Weight(c)
<1> DEFINE q == Basename(c[1].pieces)
           r == Rebuilt(c, q, 2)
<1>1. Len(c) \in Nat /\ DOMAIN c = 1..Len(c) /\ 1 \in DOMAIN c /\ 2 \in 1..Len(c) + 1
      /\ 2 \in 2..Len(c) + 1 /\ 1 \in 1..2 - 1
  BY DEF Commands
<1>2. c[1].pieces \in Seq(STRING) /\ Len(c[1].pieces) > 0
  BY <1>1, Whole
<1>3. q \in Seq(STRING) /\ 0 < Len(q) /\ Len(q) <= Len(c[1].pieces) /\ q[1] \notin DOMAIN Paths
  BY <1>2, BasenameIs
<1>4. ~Bare(c[1])
  BY DEF Bare
<1> HIDE DEF q
<1>5. r \in Commands /\ Len(r) = Len(q) + Len(c) + 1 - 2 /\ r[1] = Word(q[1])
  <2>1. /\ r \in Commands /\ Len(r) = Len(q) + Len(c) + 1 - 2
        /\ \A i \in 1..Len(q) : r[i] = Word(q[i])
    BY <1>1, <1>3, RebuiltIs
  <2>2. 1 \in 1..Len(q)
    BY <1>3
  <2> QED BY <2>1, <2>2
<1>6. Size(r) <= Size(c)
  BY <1>1, <1>3, RebuiltIsSmaller
<1>7. r # << >>
  <2>1. Len(r) > 0
    BY <1>1, <1>3, <1>5
  <2> QED BY <2>1
<1>8. Bare(r[1])
  <2>1. Basename(<<q[1]>>) = <<q[1]>>
    BY <1>3, BasenameOfName
  <2> QED BY <1>5, <2>1 DEF Bare, Word
<1>9. Tail(c) = SubSeq(c, 2, Len(c))
  BY <1>1 DEF Commands
<1>10. r = Words(Basename(c[1].pieces)) \o Tail(c)
  BY <1>9 DEF Rebuilt, q
<1> HIDE DEF r
<1>11. Weight(r) < Weight(c)
  BY <1>4, <1>5, <1>6, <1>7, <1>8, LessWeight
<1> QED BY <1>5, <1>7, <1>10, <1>11

\* What env -S runs.
LEMMA PayloadIsSmaller ==
  ASSUME NEW c \in Commands, c # << >>, NEW d \in Payload(c)
  PROVE  d \in Commands /\ d # << >> /\ Weight(d) < Weight(c)
<1> DEFINE splits == {k \in 2..Len(c) : OneOf(c[k], {"-S", "--split-string"})}
           first == CHOOSE k \in splits : \A j \in splits : k <= j
           q == c[first + 1].pieces
           r == Rebuilt(c, q, first + 2)
<1>1. Len(c) \in Nat /\ DOMAIN c = 1..Len(c)
  BY DEF Commands
<1>2. splits # {} /\ first # Len(c) /\ d = Words(q) \o SubSeq(c, first + 2, Len(c))
  BY DEF Payload
<1>3. first \in splits
  <2>1. splits \subseteq Nat
    BY <1>1
  <2> HIDE DEF splits
  <2> QED BY <1>2, <2>1, FirstExists
<1>4. first \in 2..Len(c)
  BY <1>3
<1> HIDE DEF first, splits
<1>5. /\ first + 1 \in DOMAIN c /\ first + 2 \in 1..Len(c) + 1 /\ first + 2 \in 2..Len(c) + 1
      /\ first + 1 \in 1..(first + 2) - 1 /\ first + 1 > 1
  <2> DEFINE n == Len(c)
             f == first
  <2>1. n \in Nat /\ f \in 2..n /\ f # n
    BY <1>1, <1>2, <1>4
  <2> HIDE DEF n, f
  <2>2. f + 1 \in 1..n /\ f + 2 \in 1..n + 1 /\ f + 2 \in 2..n + 1 /\ f + 1 \in 1..(f + 2) - 1 /\ f + 1 > 1
    BY <2>1
  <2> QED BY <1>1, <2>2 DEF n, f
<1>6. q \in Seq(STRING) /\ Len(q) > 0 /\ Len(q) \in Nat
  BY <1>5, Whole
<1>7. Len(q) <= Len(c[first + 1].pieces)
  BY <1>6
<1> HIDE DEF q
<1> DEFINE k == first + 2
           j == first + 1
<1>8. k \in 1..Len(c) + 1 /\ k \in 2..Len(c) + 1 /\ j \in 1..k - 1 /\ j > 1 /\ Len(q) <= Len(c[j].pieces)
  BY <1>5, <1>7
<1>9. r = Rebuilt(c, q, k)
  OBVIOUS
<1> HIDE DEF k, j, r
<1>10. r \in Commands /\ Len(r) = Len(q) + Len(c) + 1 - k
  BY <1>6, <1>8, <1>9, RebuiltIs
<1>11. Size(r) <= Size(c) /\ Size(r) < Size(c)
  BY <1>6, <1>8, <1>9, RebuiltIsSmaller
<1>12. r # << >>
  <2>1. Len(r) > 0
    BY <1>1, <1>6, <1>8, <1>10
  <2> QED BY <2>1
<1>13. Weight(r) < Weight(c)
  BY <1>10, <1>11, <1>12, LessWeight
<1>14. r = d
  BY <1>2 DEF r, Rebuilt
<1> QED BY <1>10, <1>12, <1>13, <1>14
-----------------------------------------------------------------------------
(***************************************************************************)
(* The search for the wrapped command.                                     *)
(***************************************************************************)

\* One word of it, told over a search of the words behind.
Read(c, w, start, scan, k) ==
  [left \in 0..start |->
     IF k > Len(c) THEN 0
     ELSE IF Says(c[k], "--") THEN IF k < Len(c) THEN k + 1 ELSE 0
     ELSE IF OneOf(c[k], w.lookups) THEN 0
     ELSE IF IsOption(c[k]) THEN scan[k + (IF OneOf(c[k], w.values) THEN 2 ELSE 1)][left]
     ELSE IF w.assignments /\ IsAssignment(c[k]) THEN scan[k + 1][left]
     ELSE IF left > 0 THEN scan[k + 1][left - 1]
     ELSE k]

\* The definition by recursion has a solution, and Scan is it.
LEMMA ScanDef ==
  ASSUME NEW c \in Commands, NEW w, NEW start \in Nat
  PROVE  \A k \in 1..Len(c) + 2 : Scan(c, w, start)[k] = Read(c, w, start, Scan(c, w, start), k)
<1> DEFINE n == Len(c) + 2
           Solves(g) == g = [k \in 1..n |-> Read(c, w, start, g, k)]
           Begun(g, m) == /\ g = [k \in 1..n |-> g[k]]
                          /\ \A k \in 1..n : k > n - m => g[k] = Read(c, w, start, g, k)
           Solved == {m \in Nat : \E g : Begun(g, m)}
<1>1. Len(c) \in Nat /\ n \in Nat
  BY DEF Commands
<1>2. ASSUME NEW g, NEW h, NEW k \in 1..n, \A j \in 1..n : j > k => g[j] = h[j]
      PROVE  Read(c, w, start, g, k) = Read(c, w, start, h, k)
  <2>1. k <= Len(c) => /\ k + 1 \in 1..n /\ k + 1 > k /\ k + 2 \in 1..n /\ k + 2 > k
    BY <1>1
  <2>2. k <= Len(c) => g[k + 1] = h[k + 1] /\ g[k + 2] = h[k + 2]
    BY <1>2, <2>1
  <2>3. CASE k > Len(c)
    BY <2>3 DEF Read
  <2>4. CASE ~(k > Len(c))
    <3>1. g[k + 1] = h[k + 1] /\ g[k + 2] = h[k + 2]
      BY <1>1, <2>2, <2>4
    <3>2. \A b \in BOOLEAN : g[k + (IF b THEN 2 ELSE 1)] = h[k + (IF b THEN 2 ELSE 1)]
      BY <3>1
    <3>3. g[k + (IF OneOf(c[k], w.values) THEN 2 ELSE 1)] = h[k + (IF OneOf(c[k], w.values) THEN 2 ELSE 1)]
      BY <3>2 DEF OneOf
    <3> QED BY <3>1, <3>3 DEF Read
  <2> QED BY <2>3, <2>4
<1>3. 0 \in Solved
  <2> DEFINE g == [k \in 1..n |-> 0]
  <2>1. Begun(g, 0)
    BY <1>1
  <2> QED BY <2>1
<1>4. ASSUME NEW m \in Nat, m \in Solved PROVE m + 1 \in Solved
  <2>1. PICK g : Begun(g, m)
    BY <1>4
  <2> DEFINE h == [k \in 1..n |-> IF k = n - m THEN Read(c, w, start, g, k) ELSE g[k]]
  <2>2. h = [k \in 1..n |-> h[k]]
    OBVIOUS
  <2>3. \A j \in 1..n : j # n - m => h[j] = g[j]
    OBVIOUS
  <2>4. n - m \in 1..n => h[n - m] = Read(c, w, start, g, n - m)
    OBVIOUS
  <2> HIDE DEF h
  <2>5. ASSUME NEW k \in 1..n, k > n - (m + 1) PROVE h[k] = Read(c, w, start, h, k)
    <3>1. Read(c, w, start, g, k) = Read(c, w, start, h, k)
      <4>1. \A j \in 1..n : j > k => g[j] = h[j]
        BY <1>1, <2>3, <2>5
      <4> QED BY <1>2, <4>1
    <3>2. h[k] = Read(c, w, start, g, k)
      <4>1. CASE k = n - m
        BY <2>4, <4>1
      <4>2. CASE k # n - m
        <5>1. k > n - m
          BY <1>1, <2>5, <4>2
        <5>2. g[k] = Read(c, w, start, g, k)
          BY <2>1, <5>1
        <5> QED BY <2>3, <4>2, <5>2
      <4> QED BY <4>1, <4>2
    <3> QED BY <3>1, <3>2
  <2>6. Begun(h, m + 1)
    BY <2>2, <2>5
  <2> HIDE DEF Begun
  <2> QED BY <2>6
<1> HIDE DEF Solved
<1>5. n \in Solved
  BY <1>1, <1>3, <1>4, NatSetInduction
<1>6. PICK g : Begun(g, n)
  BY <1>5 DEF Solved
<1>7. Solves(g)
  <2>1. \A k \in 1..n : g[k] = Read(c, w, start, g, k)
    BY <1>1, <1>6
  <2> QED BY <1>6, <2>1
<1>8. Scan(c, w, start) = CHOOSE s : Solves(s)
  BY DEF Scan, Read
<1>9. Solves(Scan(c, w, start))
  <2> HIDE DEF Solves
  <2> QED BY <1>7, <1>8
<1> DEFINE s == Scan(c, w, start)
<1>10. s = [k \in 1..n |-> Read(c, w, start, s, k)]
  BY <1>9
<1> HIDE DEF s
<1>11. \A k \in 1..n : s[k] = Read(c, w, start, s, k)
  BY <1>10
<1> QED BY <1>11 DEF s

LEMMA ScanIs ==
  ASSUME NEW c \in Commands, NEW w, NEW start \in Nat, NEW k \in 1..Len(c) + 2, NEW left \in 0..start
  PROVE  LET scan == Scan(c, w, start)
         IN scan[k][left] =
              IF k > Len(c) THEN 0
              ELSE IF Says(c[k], "--") THEN IF k < Len(c) THEN k + 1 ELSE 0
              ELSE IF OneOf(c[k], w.lookups) THEN 0
              ELSE IF IsOption(c[k]) THEN scan[k + (IF OneOf(c[k], w.values) THEN 2 ELSE 1)][left]
              ELSE IF w.assignments /\ IsAssignment(c[k]) THEN scan[k + 1][left]
              ELSE IF left > 0 THEN scan[k + 1][left - 1]
              ELSE k
<1> DEFINE s == Scan(c, w, start)
<1>1. s[k] = Read(c, w, start, s, k)
  BY ScanDef
<1> HIDE DEF s
<1>2. s[k][left] = Read(c, w, start, s, k)[left]
  BY <1>1
<1> QED BY <1>2 DEF Read, s

\* It finds no word it has already read.
LEMMA ScanLooksAhead ==
  ASSUME NEW c \in Commands, NEW w, NEW start \in Nat, NEW k \in 1..Len(c) + 2, NEW left \in 0..start
  PROVE  Scan(c, w, start)[k][left] = 0 \/ Scan(c, w, start)[k][left] \in k..Len(c)
<1> DEFINE n == Len(c) + 2
           scan == Scan(c, w, start)
           Ahead(j) == \A l \in 0..start : scan[j][l] = 0 \/ scan[j][l] \in j..Len(c)
           T == {m \in Nat : \A j \in 1..n : j > n - m => Ahead(j)}
<1>1. Len(c) \in Nat /\ n \in Nat
  BY DEF Commands
<1>2. 0 \in T
  BY <1>1
<1>3. ASSUME NEW m \in Nat, m \in T PROVE m + 1 \in T
  <2> SUFFICES ASSUME NEW j \in 1..n, j > n - (m + 1) PROVE Ahead(j)
    BY <1>1
  <2>1. CASE j > n - m
    BY <1>3, <2>1
  <2>2. CASE ~(j > n - m)
    <3>1. \A i \in 1..n : i > j => Ahead(i)
      BY <1>1, <1>3, <2>2
    <3> SUFFICES ASSUME NEW l \in 0..start PROVE scan[j][l] = 0 \/ scan[j][l] \in j..Len(c)
      OBVIOUS
    <3>2. scan[j][l] =
              IF j > Len(c) THEN 0
              ELSE IF Says(c[j], "--") THEN IF j < Len(c) THEN j + 1 ELSE 0
              ELSE IF OneOf(c[j], w.lookups) THEN 0
              ELSE IF IsOption(c[j]) THEN scan[j + (IF OneOf(c[j], w.values) THEN 2 ELSE 1)][l]
              ELSE IF w.assignments /\ IsAssignment(c[j]) THEN scan[j + 1][l]
              ELSE IF l > 0 THEN scan[j + 1][l - 1]
              ELSE j
      BY ScanIs
    <3>3. j <= Len(c) => Ahead(j + 1) /\ Ahead(j + 2)
      <4>1. j <= Len(c) => j + 1 \in 1..n /\ j + 1 > j /\ j + 2 \in 1..n /\ j + 2 > j
        BY <1>1
      <4> HIDE DEF Ahead
      <4> QED BY <3>1, <4>1
    <3>4. j <= Len(c) => /\ scan[j + 1][l] = 0 \/ scan[j + 1][l] \in j + 1..Len(c)
                         /\ scan[j + 2][l] = 0 \/ scan[j + 2][l] \in j + 2..Len(c)
                         /\ l > 0 => scan[j + 1][l - 1] = 0 \/ scan[j + 1][l - 1] \in j + 1..Len(c)
      <4>1. l > 0 => l - 1 \in 0..start
        OBVIOUS
      <4> QED BY <3>3, <4>1
    <3> HIDE DEF scan, n
    <3>5. \A x : (x = 0 \/ x \in j + 1..Len(c) \/ x \in j + 2..Len(c)) => (x = 0 \/ x \in j..Len(c))
      BY <1>1
    <3>6. CASE j > Len(c)
      BY <3>2, <3>6
    <3>7. CASE ~(j > Len(c))
      <4>1. j <= Len(c) /\ j \in j..Len(c) /\ (j < Len(c) => j + 1 \in j..Len(c))
        BY <1>1, <3>7
      <4> DEFINE step == IF OneOf(c[j], w.values) THEN 2 ELSE 1
      <4>2. scan[j + step][l] = 0 \/ scan[j + step][l] \in j + 1..Len(c) \/ scan[j + step][l] \in j + 2..Len(c)
        <5>1. step = 1 \/ step = 2
          OBVIOUS
        <5> HIDE DEF step
        <5> QED BY <3>4, <4>1, <5>1
      <4>3. CASE ~Says(c[j], "--") /\ ~OneOf(c[j], w.lookups) /\ IsOption(c[j])
        BY <3>2, <3>5, <3>7, <4>2, <4>3
      <4>4. CASE Says(c[j], "--") \/ OneOf(c[j], w.lookups) \/ ~IsOption(c[j])
        BY <3>2, <3>4, <3>5, <3>7, <4>1, <4>4
      <4> QED BY <4>3, <4>4
    <3> QED BY <3>6, <3>7
  <2> QED BY <2>1, <2>2
<1> HIDE DEF T
<1>4. n \in T
  BY <1>1, <1>2, <1>3, NatSetInduction
<1>5. Ahead(k)
  BY <1>1, <1>4 DEF T
<1> QED BY <1>5

LEMMA WrappedIs ==
  ASSUME NEW c \in Commands, NEW p \in DOMAIN Wrappers
  PROVE  /\ Wrapped(c, Wrappers[p]) \in Nat /\ Wrapped(c, Wrappers[p]) # 1
         /\ Wrappers[p].positionals \in Nat
<1>1. Wrappers[p].positionals \in {0, 1}
  BY DEF Wrappers, Taking
<1>2. Len(c) \in Nat /\ 2 \in 1..Len(c) + 2
  BY DEF Commands
<1> DEFINE start == Wrappers[p].positionals
<1>3. start \in Nat /\ start \in 0..start
  BY <1>1
<1>4. Wrapped(c, Wrappers[p]) = Scan(c, Wrappers[p], start)[2][start]
  BY DEF Wrapped, WrappedFrom
<1> HIDE DEF start
<1>5. Wrapped(c, Wrappers[p]) = 0 \/ Wrapped(c, Wrappers[p]) \in 2..Len(c)
  BY <1>2, <1>3, <1>4, ScanLooksAhead
<1> QED BY <1>2, <1>3, <1>5 DEF start

\* Every step of peeling ends in a lighter command.
LEMMA PeelIsSmaller ==
  ASSUME NEW c \in Commands, NEW d \in PeelOnce(c)
  PROVE  c # << >> /\ d \in Commands /\ d # << >> /\ Weight(d) < Weight(c)
<1> DEFINE head == c[1]
           program == Basename(head.pieces)
           redirects == ~head.quoted /\ head.pieces[1] \in Redirects \cup Operators
<1>1. c # << >>
  BY DEF PeelOnce
<1>2. CASE redirects
  <2>1. d \in From(c, 2) \/ d \in From(c, 3)
    BY <1>1, <1>2 DEF PeelOnce
  <2> QED BY <1>1, <2>1, FromIsSmaller
<1>3. CASE ~redirects /\ IsAssignment(head)
  <2>1. d \in From(c, 2)
    BY <1>1, <1>3 DEF PeelOnce
  <2> QED BY <1>1, <2>1, FromIsSmaller
<1>4. CASE ~redirects /\ ~IsAssignment(head)
  <2>1. \/ (head.quoted \/ program # head.pieces) /\ d = Words(program) \o Tail(c)
        \/ \E p \in Programs(c) : d \in From(c, Wrapped(c, Wrappers[p]))
        \/ d \in Payload(c)
    <3> DEFINE A == IF head.quoted \/ program # head.pieces THEN {Words(program) \o Tail(c)} ELSE {}
               B == {From(c, Wrapped(c, Wrappers[p])) : p \in Programs(c)}
               C == IF program = <<"env">> THEN Payload(c) ELSE {}
    <3>1. PeelOnce(c) = A \cup C \cup UNION B
      BY <1>1, <1>4 DEF PeelOnce
    <3>2. d \in A \/ d \in UNION B \/ d \in C
      <4> HIDE DEF A, B, C
      <4> QED BY <3>1
    <3>3. d \in A => (head.quoted \/ program # head.pieces) /\ d = Words(program) \o Tail(c)
      OBVIOUS
    <3>4. d \in UNION B => \E p \in Programs(c) : d \in From(c, Wrapped(c, Wrappers[p]))
      OBVIOUS
    <3>5. d \in C => d \in Payload(c)
      OBVIOUS
    <3> QED BY <3>2, <3>3, <3>4, <3>5
  <2>2. CASE (head.quoted \/ program # head.pieces) /\ d = Words(program) \o Tail(c)
    BY <1>1, <2>2, BareIsSmaller
  <2>3. ASSUME NEW p \in Programs(c), d \in From(c, Wrapped(c, Wrappers[p]))
        PROVE  d \in Commands /\ d # << >> /\ Weight(d) < Weight(c)
    <3> DEFINE k == Wrapped(c, Wrappers[p])
    <3>1. k \in Nat /\ k # 1
      BY WrappedIs DEF Programs
    <3>2. d \in From(c, k)
      BY <2>3
    <3> HIDE DEF k
    <3> QED BY <1>1, <3>1, <3>2, FromIsSmaller
  <2>4. CASE d \in Payload(c)
    BY <1>1, <2>4, PayloadIsSmaller
  <2> QED BY <1>1, <2>1, <2>2, <2>3, <2>4
<1> QED BY <1>2, <1>3, <1>4
-----------------------------------------------------------------------------
(***************************************************************************)
(* All the spellings of a command: MaxPeels is no bound on them.           *)
(***************************************************************************)

\* A set grown step by step exists.
Grows(g, P, F, a, m) == g \in [0..m -> P] /\ g[0] = a /\ \A n \in 1..m : g[n] = F[g[n - 1]]

LEMMA Grown ==
  ASSUME NEW P, NEW F \in [P -> P], NEW a \in P, NEW m \in Nat
  PROVE  \E g : Grows(g, P, F, a, m)
<1> DEFINE T == {x \in Nat : \E g : Grows(g, P, F, a, x)}
<1>1. 0 \in T
  <2> DEFINE g == [n \in 0..0 |-> a]
  <2>1. Grows(g, P, F, a, 0)
    BY DEF Grows
  <2> QED BY <2>1
<1>2. ASSUME NEW x \in Nat, x \in T PROVE x + 1 \in T
  <2>1. PICK g : Grows(g, P, F, a, x)
    BY <1>2
  <2> DEFINE h == [n \in 0..x + 1 |-> IF n = x + 1 THEN F[g[x]] ELSE g[n]]
  <2>2. g[x] \in P /\ F[g[x]] \in P
    BY <2>1 DEF Grows
  <2>3. h \in [0..x + 1 -> P]
    <3>1. ASSUME NEW n \in 0..x + 1, n # x + 1 PROVE g[n] \in P
      <4>1. n \in 0..x
        BY <3>1
      <4> QED BY <2>1, <4>1 DEF Grows
    <3> QED BY <2>2, <3>1
  <2>4. h[x + 1] = F[g[x]] /\ \A n \in 0..x : h[n] = g[n]
    OBVIOUS
  <2> HIDE DEF h
  <2>5. h[0] = a /\ \A n \in 1..x + 1 : h[n] = F[h[n - 1]]
    <3>1. h[0] = a
      BY <2>1, <2>4 DEF Grows
    <3>2. ASSUME NEW n \in 1..x + 1 PROVE h[n] = F[h[n - 1]]
      <4>1. CASE n = x + 1
        <5>1. n - 1 = x /\ x \in 0..x
          BY <4>1
        <5> QED BY <2>4, <4>1, <5>1
      <4>2. CASE n # x + 1
        <5>1. n \in 1..x /\ n \in 0..x /\ n - 1 \in 0..x
          BY <4>2
        <5> QED BY <2>1, <2>4, <5>1 DEF Grows
      <4> QED BY <4>1, <4>2
    <3> QED BY <3>1, <3>2
  <2>6. Grows(h, P, F, a, x + 1)
    BY <2>3, <2>5 DEF Grows
  <2> QED BY <2>6
<1> HIDE DEF T
<1>3. m \in T
  BY <1>1, <1>2, NatSetInduction
<1> QED BY <1>3 DEF T

LEMMA PeelReach ==
  ASSUME NEW c \in Commands, MaxPeels(c) \in Nat
  PROVE  LET reach == Reach(PeelOnce, c)
         IN /\ reach[0] = {c}
            /\ \A n \in 0..MaxPeels(c) : reach[n] \in SUBSET Commands
            /\ \A n \in 1..MaxPeels(c) :
                 reach[n] = reach[n - 1] \cup UNION {PeelOnce(d) : d \in reach[n - 1]}
<1> DEFINE m == MaxPeels(c)
           F == [X \in SUBSET Commands |-> X \cup UNION {PeelOnce(d) : d \in X}]
           Def(g) == [n \in 0..m |-> IF n = 0 THEN {c} ELSE g[n - 1] \cup UNION {PeelOnce(d) : d \in g[n - 1]}]
<1>1. F \in [SUBSET Commands -> SUBSET Commands]
  BY PeelIsSmaller
<1>2. \A X \in SUBSET Commands : F[X] = X \cup UNION {PeelOnce(d) : d \in X}
  OBVIOUS
<1>3. {c} \in SUBSET Commands
  OBVIOUS
<1> HIDE DEF F, m
<1>4. \E g : Grows(g, SUBSET Commands, F, {c}, m)
  <2> DEFINE start == {c}
             sets == SUBSET Commands
  <2>1. start \in sets /\ m \in Nat /\ F \in [sets -> sets]
    BY <1>1, <1>3 DEF m
  <2> HIDE DEF start, sets
  <2>2. \E g : Grows(g, sets, F, start, m)
    BY <2>1, Grown, Zenon
  <2> QED BY <2>2 DEF start, sets
<1>5. PICK g : g \in [0..m -> SUBSET Commands] /\ g[0] = {c} /\ \A n \in 1..m : g[n] = F[g[n - 1]]
  BY <1>4 DEF Grows
<1>6. g = Def(g)
  <2>1. ASSUME NEW n \in 0..m, n # 0
        PROVE  g[n] = g[n - 1] \cup UNION {PeelOnce(d) : d \in g[n - 1]}
    <3>1. n \in 1..m /\ n - 1 \in 0..m
      BY <2>1 DEF m
    <3>2. g[n] = F[g[n - 1]] /\ g[n - 1] \in SUBSET Commands
      BY <1>5, <3>1
    <3> QED BY <1>2, <3>2
  <2>2. g = [n \in 0..m |-> g[n]] /\ g[0] = {c}
    BY <1>5
  <2> QED BY <2>1, <2>2
<1>7. Reach(PeelOnce, c) = CHOOSE h : h = Def(h)
  BY DEF Reach, m
<1> DEFINE reach == Reach(PeelOnce, c)
<1>8. reach = Def(reach)
  <2> HIDE DEF Def
  <2> QED BY <1>6, <1>7
<1> HIDE DEF reach
<1>9. 0 \in 0..m /\ reach[0] = {c}
  BY <1>8 DEF m
<1>10. ASSUME NEW n \in 1..m
       PROVE  reach[n] = reach[n - 1] \cup UNION {PeelOnce(d) : d \in reach[n - 1]}
  <2>1. n \in 0..m /\ n # 0
    BY DEF m
  <2> QED BY <1>8, <2>1
<1>11. \A n \in 0..m : reach[n] \in SUBSET Commands
  <2> DEFINE T == {n \in Nat : n <= m => reach[n] \in SUBSET Commands}
  <2>1. 0 \in T
    BY <1>9
  <2>2. ASSUME NEW n \in Nat, n \in T PROVE n + 1 \in T
    <3> SUFFICES ASSUME n + 1 <= m PROVE reach[n + 1] \in SUBSET Commands
      OBVIOUS
    <3>1. n <= m /\ n + 1 \in 1..m /\ (n + 1) - 1 = n
      BY DEF m
    <3>2. reach[n] \in SUBSET Commands
      BY <2>2, <3>1
    <3>3. reach[n + 1] = reach[n] \cup UNION {PeelOnce(d) : d \in reach[n]}
      BY <1>10, <3>1
    <3> QED BY <3>2, <3>3, PeelIsSmaller
  <2> HIDE DEF T
  <2>3. Nat \subseteq T
    BY <2>1, <2>2, NatSetInduction
  <2> QED BY <2>3 DEF T, m
<1> QED BY <1>9, <1>10, <1>11 DEF reach, m

\* What is reached is reached as early as its weight tells.
LEMMA ReachedInTime ==
  ASSUME NEW c \in Commands, c # << >>, NEW n \in 0..MaxPeels(c), NEW d \in Reach(PeelOnce, c)[n]
  PROVE  /\ d \in Commands /\ d # << >> /\ Weight(d) <= Weight(c) /\ (d # c => Weight(d) < Weight(c))
         /\ d \in Reach(PeelOnce, c)[Weight(c) - Weight(d)]
<1> DEFINE m == MaxPeels(c)
           reach == Reach(PeelOnce, c)
           InTime(e) == /\ e \in Commands /\ e # << >> /\ Weight(e) <= Weight(c)
                        /\ e # c => Weight(e) < Weight(c)
                        /\ e \in reach[Weight(c) - Weight(e)]
           T == {i \in Nat : i <= m => \A e \in reach[i] : InTime(e)}
<1>1. m \in Nat /\ Weight(c) \in Nat /\ Weight(c) <= m
  BY WeightIs
<1>2. /\ reach[0] = {c}
      /\ \A i \in 1..m : reach[i] = reach[i - 1] \cup UNION {PeelOnce(e) : e \in reach[i - 1]}
  BY <1>1, PeelReach
<1> HIDE DEF m, reach
<1>3. 0 \in T
  <2>1. InTime(c)
    <3>1. Weight(c) - Weight(c) = 0
      BY <1>1
    <3> QED BY <1>1, <1>2, <3>1
  <2> HIDE DEF InTime
  <2> QED BY <1>2, <2>1
<1>4. ASSUME NEW i \in Nat, i \in T PROVE i + 1 \in T
  <2> SUFFICES ASSUME i + 1 <= m, NEW f \in reach[i + 1] PROVE InTime(f)
    OBVIOUS
  <2>1. i <= m /\ i + 1 \in 1..m /\ (i + 1) - 1 = i
    BY <1>1
  <2>2. reach[i + 1] = reach[i] \cup UNION {PeelOnce(e) : e \in reach[i]}
    BY <1>2, <2>1
  <2>3. \A e \in reach[i] : InTime(e)
    BY <1>4, <2>1
  <2>4. CASE f \in reach[i]
    BY <2>3, <2>4
  <2>5. ASSUME NEW e \in reach[i], f \in PeelOnce(e) PROVE InTime(f)
    <3>1. /\ e \in Commands /\ e # << >> /\ Weight(e) <= Weight(c)
          /\ e \in reach[Weight(c) - Weight(e)]
      BY <2>3
    <3>2. f \in Commands /\ f # << >> /\ Weight(f) < Weight(e)
      BY <2>5, <3>1, PeelIsSmaller
    <3>3. Weight(e) \in Nat /\ Weight(f) \in Nat /\ 1 <= Weight(f)
      BY <3>1, <3>2, WeightIs
    <3> DEFINE j == Weight(c) - Weight(e)
               k == Weight(c) - Weight(f)
    <3>4. j \in Nat /\ k \in Nat /\ j + 1 <= k /\ k <= m
      BY <1>1, <3>1, <3>2, <3>3
    <3>5. f \in reach[j + 1]
      <4>1. j + 1 \in 1..m /\ (j + 1) - 1 = j
        BY <1>1, <3>4
      <4>2. e \in reach[j]
        BY <3>1
      <4> HIDE DEF j
      <4>3. reach[j + 1] = reach[j] \cup UNION {PeelOnce(x) : x \in reach[j]}
        BY <1>2, <4>1
      <4> QED BY <2>5, <4>2, <4>3
    <3> HIDE DEF j, k
    <3>6. f \in reach[k]
      <4> DEFINE U == {x \in Nat : j + 1 + x <= m => f \in reach[j + 1 + x]}
      <4>1. 0 \in U
        BY <3>4, <3>5
      <4>2. ASSUME NEW x \in Nat, x \in U PROVE x + 1 \in U
        <5> SUFFICES ASSUME j + 1 + (x + 1) <= m PROVE f \in reach[j + 1 + (x + 1)]
          OBVIOUS
        <5> DEFINE y == j + 1 + (x + 1)
        <5>1. y \in 1..m /\ y - 1 = j + 1 + x /\ j + 1 + x <= m
          BY <1>1, <3>4
        <5>2. f \in reach[y - 1]
          BY <4>2, <5>1
        <5> HIDE DEF y
        <5>3. f \in reach[y]
          BY <1>2, <5>1, <5>2
        <5> QED BY <5>3 DEF y
      <4> HIDE DEF U
      <4>3. Nat \subseteq U
        BY <4>1, <4>2, NatSetInduction
      <4>4. k - (j + 1) \in Nat /\ j + 1 + (k - (j + 1)) = k
        BY <3>4
      <4>5. k - (j + 1) \in U
        BY <4>3, <4>4
      <4> QED BY <3>4, <4>4, <4>5 DEF U
    <3>7. Weight(f) < Weight(c) /\ Weight(f) <= Weight(c)
      BY <1>1, <3>1, <3>2, <3>3
    <3> QED BY <3>2, <3>6, <3>7 DEF k
  <2> HIDE DEF InTime
  <2> QED BY <2>2, <2>4, <2>5
<1> HIDE DEF T
<1>5. Nat \subseteq T
  BY <1>3, <1>4, NatSetInduction
<1>6. n \in Nat /\ n <= m /\ n \in T
  BY <1>1, <1>5 DEF m
<1>7. InTime(d)
  <2> HIDE DEF InTime
  <2> QED BY <1>6 DEF T, reach
<1> QED BY <1>7 DEF reach

(***************************************************************************)
(* Peeling ends: the spellings of a command, found in at most MaxPeels     *)
(* steps, are all there are; another step finds nothing new (spellings     *)
(* loops until its worklist is empty, with no bound of its own).           *)
(***************************************************************************)
THEOREM PeelingEnds ==
  ASSUME NEW c \in Commands, c # << >>, NEW d \in Closure(PeelOnce, c)
  PROVE  /\ PeelOnce(d) \subseteq Closure(PeelOnce, c)
         /\ d \in Commands /\ d # << >> /\ (d # c => Weight(d) < Weight(c))
<1> DEFINE m == MaxPeels(c)
           reach == Reach(PeelOnce, c)
<1>1. m \in Nat /\ Weight(c) \in Nat /\ Weight(c) <= m /\ m \in 0..m
  BY WeightIs
<1>2. /\ \A i \in 1..m : reach[i] = reach[i - 1] \cup UNION {PeelOnce(e) : e \in reach[i - 1]}
  BY <1>1, PeelReach
<1>3. Closure(PeelOnce, c) = reach[m]
  BY DEF Closure
<1>4. d \in Commands /\ d # << >> /\ Weight(d) <= Weight(c) /\ (d # c => Weight(d) < Weight(c))
      /\ d \in reach[Weight(c) - Weight(d)]
  BY <1>1, <1>3, ReachedInTime
<1>5. Weight(d) \in Nat /\ 1 <= Weight(d)
  BY <1>4, WeightIs
<1> HIDE DEF m, reach
<1> DEFINE j == Weight(c) - Weight(d)
<1>6. j \in Nat /\ j + 1 \in 1..m /\ (j + 1) - 1 = j
  BY <1>1, <1>4, <1>5
<1>7. d \in reach[j]
  BY <1>4
<1> HIDE DEF j
<1>8. PeelOnce(d) \subseteq reach[j + 1]
  <2>1. reach[j + 1] = reach[j] \cup UNION {PeelOnce(e) : e \in reach[j]}
    BY <1>2, <1>6
  <2> QED BY <1>7, <2>1
<1>9. reach[j + 1] \subseteq reach[m]
  <2> DEFINE U == {x \in Nat : j + 1 + x <= m => reach[j + 1] \subseteq reach[j + 1 + x]}
  <2>1. 0 \in U
    BY <1>6
  <2>2. ASSUME NEW x \in Nat, x \in U PROVE x + 1 \in U
    <3> SUFFICES ASSUME j + 1 + (x + 1) <= m PROVE reach[j + 1] \subseteq reach[j + 1 + (x + 1)]
      OBVIOUS
    <3> DEFINE y == j + 1 + (x + 1)
    <3>1. y \in 1..m /\ y - 1 = j + 1 + x /\ j + 1 + x <= m
      BY <1>1, <1>6
    <3>2. reach[j + 1] \subseteq reach[y - 1]
      BY <2>2, <3>1
    <3> HIDE DEF y
    <3>3. reach[y - 1] \subseteq reach[y]
      BY <1>2, <3>1
    <3>4. reach[j + 1] \subseteq reach[y]
      BY <3>2, <3>3
    <3> QED BY <3>4 DEF y
  <2> HIDE DEF U
  <2>3. Nat \subseteq U
    BY <2>1, <2>2, NatSetInduction
  <2>4. m - (j + 1) \in Nat /\ j + 1 + (m - (j + 1)) = m /\ m <= m
    BY <1>1, <1>6
  <2>5. m - (j + 1) \in U
    BY <2>3, <2>4
  <2> QED BY <2>4, <2>5 DEF U
<1> QED BY <1>3, <1>4, <1>8, <1>9
-----------------------------------------------------------------------------
(***************************************************************************)
(* Each step of `passes` towards the command inside is also a step of the  *)
(* search for denied spellings: a wrapper the plugin sees through when it  *)
(* allows is one it sees through when it denies.                           *)
(***************************************************************************)

\* What a transparent wrapper wraps, and what makes it one.
LEMMA TransparentIs ==
  ASSUME NEW c, NEW d \in Transparent(c)
  PROVE  /\ c # << >> /\ ~c[1].quoted
         /\ \E p \in Programs(c) \cap DOMAIN TransparentWrappers :
              /\ c[1].pieces[1] \in DOMAIN Paths => c[1].pieces[1] \in SystemPaths
              /\ d \in From(c, Wrapped(c, Wrappers[p]))
              /\ \A j \in 2..Wrapped(c, Wrappers[p]) - 1 :
                   (IsOption(c[j]) \/ Says(c[j], "-")) /\ ~Says(c[j], "--") => IsHarmless(c[j], p)
<1> DEFINE piece == c[1].pieces[1]
           plain == {q \in Programs(c) \cap DOMAIN TransparentWrappers :
                       piece \in DOMAIN Paths => piece \in SystemPaths}
           harmless(k, q) == \A j \in 2..k - 1 :
                       (IsOption(c[j]) \/ Says(c[j], "-")) /\ ~Says(c[j], "--") => IsHarmless(c[j], q)
           inside(q) == IF harmless(Wrapped(c, Wrappers[q]), q)
                        THEN From(c, Wrapped(c, Wrappers[q])) ELSE {}
<1>1. c # << >> /\ ~c[1].quoted
  BY DEF Transparent
<1>2. Transparent(c) = UNION {inside(q) : q \in plain}
  BY <1>1 DEF Transparent
<1>3. PICK p \in plain : d \in inside(p)
  <2> HIDE DEF inside, harmless
  <2> QED BY <1>2
<1>4. harmless(Wrapped(c, Wrappers[p]), p) /\ d \in From(c, Wrapped(c, Wrappers[p]))
  <2> HIDE DEF harmless
  <2> QED BY <1>3
<1> QED BY <1>1, <1>3, <1>4

\* Nothing that stands before a command passes for a transparent wrapper.
LEMMA TransparentHead ==
  ASSUME NEW c \in Commands, NEW d \in Transparent(c)
  PROVE  ~Redirecting(c[1]) /\ ~IsAssignment(c[1])
<1> DEFINE piece == c[1].pieces[1]
<1>1. /\ c # << >> /\ ~c[1].quoted
      /\ \E p \in Programs(c) \cap DOMAIN TransparentWrappers :
           piece \in DOMAIN Paths => piece \in SystemPaths
  BY TransparentIs
<1>2. PICK p \in Programs(c) \cap DOMAIN TransparentWrappers :
        piece \in DOMAIN Paths => piece \in SystemPaths
  BY <1>1
<1>3. c[1].pieces = <<piece>>
  <2>1. 1 \in DOMAIN c
    BY <1>1 DEF Commands
  <2>2. c[1].pieces \in Seq(STRING) /\ Len(c[1].pieces) = 1
    BY <1>1, <2>1, Whole
  <2> QED BY <2>2
<1>4. p \in DOMAIN Wrappers /\ Basename(<<piece>>) = <<p>>
  BY <1>2, <1>3 DEF Programs
<1>5. piece \notin Redirects \cup Operators /\ piece \notin Assignments
  <2>1. CASE piece \in DOMAIN Paths
    BY <1>2, <2>1, PiecesAssumption
  <2>2. CASE piece \notin DOMAIN Paths
    <3>1. <<piece>> = <<p>>
      BY <1>4, <2>2, BasenameOfName
    <3>2. piece = p
      BY <3>1
    <3> QED BY <1>4, <3>2, NamesAssumption
  <2> QED BY <2>1, <2>2
<1> QED BY <1>5 DEF Redirecting, IsAssignment

THEOREM TransparentIsPeeled ==
  ASSUME NEW c \in Commands
  PROVE  Transparent(c) \subseteq PeelOnce(c)
<1> SUFFICES ASSUME NEW d \in Transparent(c) PROVE d \in PeelOnce(c)
  OBVIOUS
<1>1. c # << >> /\ \E p \in Programs(c) : d \in From(c, Wrapped(c, Wrappers[p]))
  BY TransparentIs
<1>2. ~Redirecting(c[1]) /\ ~IsAssignment(c[1])
  BY TransparentHead
<1> QED BY <1>1, <1>2 DEF PeelOnce, Redirecting

\* A wrapped command is shorter.
LEMMA TransparentIsShorter ==
  ASSUME NEW c \in Commands, NEW d \in Transparent(c)
  PROVE  d \in Commands /\ Len(d) < Len(c)
<1>1. d \in Commands
  BY TransparentIsPeeled, PeelIsSmaller
<1>2. PICK p \in Programs(c) : d \in From(c, Wrapped(c, Wrappers[p]))
  BY TransparentIs
<1> DEFINE k == Wrapped(c, Wrappers[p])
<1>3. k \in Nat /\ k # 1
  BY WrappedIs DEF Programs
<1>4. d \in From(c, k)
  BY <1>2
<1> HIDE DEF k
<1>5. k \in DOMAIN c /\ d = SubSeq(c, k, Len(c))
  BY <1>4 DEF From
<1>6. c \in Seq(ShellWords) /\ Len(c) \in Nat /\ DOMAIN c = 1..Len(c)
  BY DEF Commands
<1>7. Len(SubSeq(c, k, Len(c))) = Len(c) - k + 1
  <2>1. \A i \in k..Len(c) : c[i] \in ShellWords
    BY <1>5, <1>6
  <2>2. k \in Int /\ Len(c) \in Int
    BY <1>5, <1>6
  <2>3. Len(SubSeq(c, k, Len(c))) = IF k <= Len(c) THEN Len(c) - k + 1 ELSE 0
    BY <2>1, <2>2, SubSeqProperties
  <2> QED BY <1>5, <1>6, <2>3
<1> QED BY <1>1, <1>3, <1>5, <1>6, <1>7

-----------------------------------------------------------------------------
(***************************************************************************)
(* The search finds the command behind the words the wrapper introduces it *)
(* with.                                                                   *)
(***************************************************************************)

LEMMA SearchFinds ==
  ASSUME NEW c \in Commands, NEW w, w.positionals \in Nat, NEW k \in 2..Len(c),
         NEW last \in 1..Len(c), NEW own, Introduces(c, k, w, last, own)
  PROVE  Wrapped(c, w) = k
<1> DEFINE start == w.positionals
           scan == Scan(c, w, start)
           assigns(j) == w.assignments /\ IsAssignment(c[j])
           takes(j) == IsOption(c[j]) /\ OneOf(c[j], w.values)
           stops(j) == Says(c[j], "--") \/ OneOf(c[j], w.lookups)
           arguments == {j \in own : ~IsOption(c[j]) /\ ~assigns(j)}
           Left(j) == {i \in arguments : i >= j}
           left(j) == Cardinality(Left(j))
           Finds(j) == (j \in own \/ j = last + 1) => scan[j][left(j)] = k
           T == {n \in Nat : \A j \in 2..last + 1 : j + n >= last + 1 => Finds(j)}
<1>1. /\ last \in {k - 2, k - 1} /\ own \subseteq 2..last
      /\ \A j \in 2..last : j \in own \/ (j - 1 \in own /\ takes(j - 1))
      /\ \A j \in own : ~Says(c[j], "--") /\ ~OneOf(c[j], w.lookups)
                       /\ (takes(j) => j + 1 \in (2..last) \ own)
      /\ Cardinality(arguments) = start
      /\ IF last = k - 2 THEN Says(c[k - 1], "--")
         ELSE ~Says(c[k], "--") /\ ~OneOf(c[k], w.lookups) /\ ~IsOption(c[k]) /\ ~assigns(k)
  <2>1. /\ last \in {k - 2, k - 1} /\ own \subseteq 2..last
        /\ \A j \in 2..last : j \in own \/ (j - 1 \in own /\ takes(j - 1))
        /\ \A j \in own : /\ ~Says(c[j], "--") /\ ~OneOf(c[j], w.lookups)
                          /\ takes(j) => j + 1 \in (2..last) \ own
        /\ Cardinality(arguments) = start
    BY Zenon DEF Introduces
  <2>2. IF last = k - 2 THEN Says(c[k - 1], "--")
        ELSE ~Says(c[k], "--") /\ ~OneOf(c[k], w.lookups) /\ ~IsOption(c[k]) /\ ~assigns(k)
    BY Zenon DEF Introduces
  <2> HIDE DEF arguments, takes, assigns
  <2>3. \A j \in own : ~Says(c[j], "--") /\ ~OneOf(c[j], w.lookups)
                     /\ (takes(j) => j + 1 \in (2..last) \ own)
    BY <2>1
  <2> QED BY <2>1, <2>2, <2>3
<1>2. Len(c) \in Nat /\ k \in Nat /\ last \in Nat /\ last + 1 <= k /\ k <= Len(c)
  <2>1. c \in Seq(ShellWords)
    BY DEF Commands
  <2>2. last \in {k - 2, k - 1}
    BY <1>1
  <2> QED BY <2>1, <2>2
<1>3. \A j \in own : j \in Nat /\ j >= 2 /\ j <= last
  BY <1>1, <1>2
<1>4. \A j \in arguments : j \in own
  OBVIOUS
<1>5. \A j \in own : j \in arguments <=> ~IsOption(c[j]) /\ ~assigns(j)
  OBVIOUS
<1> HIDE DEF arguments, takes, assigns
<1>6. \A j \in 2..last : j \in own \/ (j - 1 \in own /\ takes(j - 1))
  BY <1>1
<1>7. \A j \in own : ~stops(j)
  BY <1>1
<1>8. \A j \in own : takes(j) => j + 1 \in 2..last /\ j + 1 \notin own
  BY <1>1
<1>9. Cardinality(arguments) = start /\ start \in Nat /\ IsFiniteSet(arguments)
  <2>1. IsFiniteSet(2..last)
    BY <1>2, FS_Interval
  <2>2. arguments \subseteq 2..last
    BY <1>1, <1>4
  <2> QED BY <1>1, <2>1, <2>2, FS_Subset
<1>a. ASSUME NEW j PROVE left(j) \in 0..start /\ IsFiniteSet(Left(j))
  <2>1. Left(j) \subseteq arguments
    OBVIOUS
  <2> HIDE DEF Left
  <2>2. IsFiniteSet(Left(j)) /\ Cardinality(Left(j)) <= Cardinality(arguments)
    BY <1>9, <2>1, FS_Subset
  <2>3. Cardinality(Left(j)) \in Nat
    BY <2>2, FS_CardinalityType
  <2> QED BY <1>9, <2>2, <2>3
<1>b. left(2) = start
  <2>1. Left(2) = arguments
    BY <1>3, <1>4
  <2> HIDE DEF Left
  <2> QED BY <1>9, <2>1
<1>c. left(last + 1) = 0
  <2>1. Left(last + 1) = {}
    BY <1>2, <1>3, <1>4
  <2> HIDE DEF Left
  <2> QED BY <2>1, FS_EmptySet
<1>d. ASSUME NEW j \in arguments PROVE left(j) > 0 /\ left(j) - 1 = left(j + 1)
  <2>1. j \in Nat /\ \A i \in arguments : i \in Nat
    BY <1>3, <1>4
  <2>2. Left(j) = Left(j + 1) \cup {j} /\ j \notin Left(j + 1)
    <3>1. \A i \in arguments : i >= j <=> i >= j + 1 \/ i = j
      BY <2>1
    <3>2. ~(j >= j + 1) /\ j >= j
      BY <2>1
    <3> QED BY <3>1, <3>2
  <2>3. IsFiniteSet(Left(j + 1)) /\ left(j + 1) \in 0..start
    BY <1>a
  <2> HIDE DEF Left
  <2>4. left(j) = left(j + 1) + 1
    BY <2>2, <2>3, FS_AddElement
  <2> HIDE DEF left
  <2> QED BY <1>9, <2>3, <2>4
<1>e. ASSUME NEW j \in own, j \notin arguments PROVE left(j) = left(j + 1)
  <2>1. \A i \in arguments : i >= j <=> i >= j + 1
    <3>1. j \in Nat /\ \A i \in arguments : i \in Nat /\ i # j
      BY <1>3, <1>4, <1>e
    <3> QED BY <3>1
  <2>2. Left(j) = Left(j + 1)
    BY <2>1
  <2> QED BY <2>2
<1>f. ASSUME NEW j \in own, takes(j) PROVE left(j) = left(j + 2)
  <2>1. j + 1 \notin arguments /\ j \notin arguments
    <3>1. j + 1 \notin own
      BY <1>8, <1>f
    <3> QED BY <1>4, <1>5, <1>f, <3>1 DEF takes
  <2>2. \A i \in arguments : i >= j <=> i >= j + 2
    <3>1. j \in Nat /\ \A i \in arguments : i \in Nat /\ i # j /\ i # j + 1
      BY <1>3, <1>4, <2>1
    <3> QED BY <3>1
  <2>3. Left(j) = Left(j + 2)
    BY <2>2
  <2> QED BY <2>3
<1>10. ASSUME NEW j \in own
       PROVE  /\ ~takes(j) => (j + 1 \in own \/ j + 1 = last + 1) /\ j + 1 \in 2..last + 1
              /\ takes(j) => (j + 2 \in own \/ j + 2 = last + 1) /\ j + 2 \in 2..last + 1
  <2>1. j \in 2..last
    BY <1>2, <1>3
  <2>2. CASE ~takes(j)
    <3>1. j + 1 \in 2..last => j + 1 \in own
      <4> SUFFICES ASSUME j + 1 \in 2..last, j + 1 \notin own PROVE FALSE
        OBVIOUS
      <4>1. (j + 1) - 1 \in own /\ takes((j + 1) - 1)
        BY <1>6
      <4>2. (j + 1) - 1 = j
        BY <2>1
      <4> QED BY <2>2, <4>1, <4>2
    <3> QED BY <1>2, <2>1, <2>2, <3>1
  <2>3. CASE takes(j)
    <3>1. j + 1 \in 2..last /\ j + 1 \notin own
      BY <1>8, <2>3
    <3>2. j + 2 \in 2..last => j + 2 \in own
      <4> SUFFICES ASSUME j + 2 \in 2..last, j + 2 \notin own PROVE FALSE
        OBVIOUS
      <4>1. (j + 2) - 1 \in own
        BY <1>6
      <4>2. (j + 2) - 1 = j + 1
        BY <2>1
      <4> QED BY <3>1, <4>1, <4>2
    <3> QED BY <1>2, <2>1, <2>3, <3>1, <3>2
  <2> QED BY <2>2, <2>3
<1>11. ASSUME NEW j \in 1..Len(c) + 2, NEW l \in 0..start
       PROVE  scan[j][l] =
              IF j > Len(c) THEN 0
              ELSE IF Says(c[j], "--") THEN IF j < Len(c) THEN j + 1 ELSE 0
              ELSE IF OneOf(c[j], w.lookups) THEN 0
              ELSE IF IsOption(c[j]) THEN scan[j + (IF OneOf(c[j], w.values) THEN 2 ELSE 1)][l]
              ELSE IF w.assignments /\ IsAssignment(c[j]) THEN scan[j + 1][l]
              ELSE IF l > 0 THEN scan[j + 1][l - 1]
              ELSE j
  <2> HIDE DEF start
  <2> QED BY <1>9, ScanIs
<1> HIDE DEF scan, start, left
\* Past the words of its own.
<1>12. scan[last + 1][left(last + 1)] = k
  <2>1. last + 1 \in 1..Len(c) + 2 /\ 0 \in 0..start /\ ~(last + 1 > Len(c))
    BY <1>2, <1>9
  <2>2. CASE last = k - 2
    <3>1. Says(c[last + 1], "--") /\ last + 1 < Len(c) /\ (last + 1) + 1 = k
      <4>1. k - 1 = last + 1
        BY <1>2, <2>2
      <4> QED BY <1>1, <1>2, <2>2, <4>1
    <3> QED BY <1>c, <1>11, <2>1, <3>1
  <2>3. CASE last # k - 2
    <3>1. k = last + 1
      BY <1>1, <1>2, <2>3
    <3>2. /\ ~Says(c[last + 1], "--") /\ ~OneOf(c[last + 1], w.lookups) /\ ~IsOption(c[last + 1])
          /\ ~(w.assignments /\ IsAssignment(c[last + 1]))
      BY <1>1, <2>3, <3>1 DEF assigns
    <3> QED BY <1>c, <1>11, <2>1, <3>1, <3>2
  <2> QED BY <2>2, <2>3
\* From one of its own to the next.
<1>13. ASSUME NEW j \in own,
              ~takes(j) => scan[j + 1][left(j + 1)] = k,
              takes(j) => scan[j + 2][left(j + 2)] = k
       PROVE  scan[j][left(j)] = k
  <2>1. j \in 1..Len(c) + 2 /\ left(j) \in 0..start /\ ~(j > Len(c))
    <3>1. j \in Nat /\ j >= 2 /\ j <= last
      BY <1>3
    <3>2. left(j) \in 0..start
      BY <1>a DEF left, start
    <3> QED BY <1>2, <3>1, <3>2
  <2>2. ~Says(c[j], "--") /\ ~OneOf(c[j], w.lookups)
    BY <1>7
  <2>3. scan[j][left(j)] =
              IF IsOption(c[j]) THEN scan[j + (IF OneOf(c[j], w.values) THEN 2 ELSE 1)][left(j)]
              ELSE IF assigns(j) THEN scan[j + 1][left(j)]
              ELSE IF left(j) > 0 THEN scan[j + 1][left(j) - 1]
              ELSE j
    BY <1>11, <2>1, <2>2 DEF assigns
  <2>4. CASE takes(j)
    <3>1. left(j) = left(j + 2)
      BY <1>f, <2>4 DEF left
    <3>2. scan[j][left(j)] = scan[j + 2][left(j)]
      BY <2>3, <2>4 DEF takes
    <3> QED BY <1>13, <2>4, <3>1, <3>2
  <2>5. CASE ~takes(j) /\ j \notin arguments
    <3>1. left(j) = left(j + 1)
      BY <1>e, <2>5 DEF left
    <3>2. scan[j][left(j)] = scan[j + 1][left(j)]
      BY <1>5, <2>3, <2>5 DEF takes
    <3> QED BY <1>13, <2>5, <3>1, <3>2
  <2>6. CASE j \in arguments
    <3>1. left(j) > 0 /\ left(j) - 1 = left(j + 1)
      BY <1>d, <2>6 DEF left
    <3>2. ~IsOption(c[j]) /\ ~assigns(j)
      BY <1>5, <2>6
    <3>3. scan[j][left(j)] = scan[j + 1][left(j) - 1]
      BY <2>3, <3>1, <3>2
    <3> QED BY <1>13, <3>1, <3>2, <3>3 DEF takes
  <2> QED BY <2>4, <2>5, <2>6
<1>14. 0 \in T
  <2>1. ASSUME NEW j \in 2..last + 1, j + 0 >= last + 1 PROVE Finds(j)
    <3>1. j = last + 1
      BY <1>2, <2>1
    <3> QED BY <1>12, <3>1
  <2> HIDE DEF Finds
  <2> QED BY <2>1
<1>15. ASSUME NEW n \in Nat, n \in T PROVE n + 1 \in T
  <2> SUFFICES ASSUME NEW j \in 2..last + 1, j + (n + 1) >= last + 1 PROVE Finds(j)
    OBVIOUS
  <2>1. CASE j = last + 1
    BY <1>12, <2>1
  <2>2. CASE j # last + 1
    <3> SUFFICES ASSUME j \in own PROVE scan[j][left(j)] = k
      BY <2>2
    <3>1. ~takes(j) => scan[j + 1][left(j + 1)] = k
      <4> SUFFICES ASSUME ~takes(j) PROVE scan[j + 1][left(j + 1)] = k
        OBVIOUS
      <4>1. (j + 1 \in own \/ j + 1 = last + 1) /\ j + 1 \in 2..last + 1
        BY <1>10
      <4>2. (j + 1) + n >= last + 1
        BY <1>2
      <4> QED BY <1>15, <4>1, <4>2
    <3>2. takes(j) => scan[j + 2][left(j + 2)] = k
      <4> SUFFICES ASSUME takes(j) PROVE scan[j + 2][left(j + 2)] = k
        OBVIOUS
      <4>1. (j + 2 \in own \/ j + 2 = last + 1) /\ j + 2 \in 2..last + 1
        BY <1>10
      <4>2. (j + 2) + n >= last + 1
        BY <1>2
      <4> QED BY <1>15, <4>1, <4>2
    <3> QED BY <1>13, <3>1, <3>2
  <2> QED BY <2>1, <2>2
<1> HIDE DEF T
<1>16. last \in T
  BY <1>2, <1>14, <1>15, NatSetInduction
<1>17. Finds(2)
  <2>1. 2 \in 2..last + 1 /\ 2 + last >= last + 1
    BY <1>2
  <2> HIDE DEF Finds
  <2> QED BY <1>16, <2>1 DEF T
<1>18. 2 \in own \/ 2 = last + 1
  <2>1. 1 \notin own
    BY <1>3
  <2>2. CASE 2 \in 2..last
    <3>1. 2 - 1 = 1
      OBVIOUS
    <3> QED BY <1>6, <2>1, <2>2, <3>1
  <2>3. CASE 2 \notin 2..last
    BY <1>2, <2>3
  <2> QED BY <2>2, <2>3
<1>19. scan[2][start] = k
  BY <1>b, <1>17, <1>18 DEF left, start
<1> QED BY <1>19 DEF Wrapped, WrappedFrom, scan, start

-----------------------------------------------------------------------------
(***************************************************************************)
(* Layers: the plugin goes from each to the next, and where it allows a    *)
(* command through nowhere else.                                           *)
(***************************************************************************)

LEMMA OneProgram ==
  ASSUME NEW c, NEW p \in Programs(c), NEW q \in Programs(c)
  PROVE  p = q
<1>1. <<p>> = <<q>>
  BY DEF Programs
<1> QED BY <1>1

\* Behind a redirection or an assignment.
LEMMA LeadsIs ==
  ASSUME NEW c \in Commands, c # << >>, Redirecting(c[1]) \/ IsAssignment(c[1]),
         NEW d \in From(c, IF Redirecting(c[1]) /\ c[1].pieces[1] \notin Redirects THEN 3 ELSE 2)
  PROVE  d \in PeelOnce(c) /\ Transparent(c) = {}
<1>1. Transparent(c) = {}
  BY TransparentHead
<1>2. CASE Redirecting(c[1])
  <2>1. PeelOnce(c) = From(c, IF c[1].pieces[1] \in Redirects THEN 2 ELSE 3)
    BY <1>2 DEF PeelOnce, Redirecting
  <2> QED BY <1>1, <1>2, <2>1
<1>3. CASE ~Redirecting(c[1])
  <2>1. PeelOnce(c) = From(c, 2)
    BY <1>3 DEF PeelOnce, Redirecting
  <2> QED BY <1>1, <1>3, <2>1
<1> QED BY <1>2, <1>3

\* Inside a wrapper.
LEMMA InsideIs ==
  ASSUME NEW c \in Commands, c # << >>, ~Redirecting(c[1]), ~IsAssignment(c[1]),
         NEW p \in Programs(c), NEW k \in 2..Len(c), NEW last \in 1..Len(c), NEW own,
         NEW d \in From(c, k), Introduces(c, k, Wrappers[p], last, own)
  PROVE  /\ d \in PeelOnce(c)
         /\ \A e \in Transparent(c) :
              /\ e = d /\ ~c[1].quoted /\ c[1].pieces[1] \notin DOMAIN Paths \ SystemPaths
              /\ p \in DOMAIN TransparentWrappers
              /\ \A j \in own : IsOption(c[j]) => IsHarmless(c[j], p)
<1>1. p \in DOMAIN Wrappers
  BY DEF Programs
<1>2. Wrapped(c, Wrappers[p]) = k
  BY <1>1, WrappedIs, SearchFinds
<1>3. d \in PeelOnce(c)
  BY <1>2 DEF PeelOnce, Redirecting
<1>4. ASSUME NEW e \in Transparent(c)
      PROVE  /\ e = d /\ ~c[1].quoted /\ c[1].pieces[1] \notin DOMAIN Paths \ SystemPaths
             /\ p \in DOMAIN TransparentWrappers
             /\ \A j \in own : IsOption(c[j]) => IsHarmless(c[j], p)
  <2>1. ~c[1].quoted
        /\ \E q \in Programs(c) \cap DOMAIN TransparentWrappers :
              /\ c[1].pieces[1] \in DOMAIN Paths => c[1].pieces[1] \in SystemPaths
              /\ e \in From(c, Wrapped(c, Wrappers[q]))
              /\ \A j \in 2..Wrapped(c, Wrappers[q]) - 1 :
                   (IsOption(c[j]) \/ Says(c[j], "-")) /\ ~Says(c[j], "--") => IsHarmless(c[j], q)
    BY TransparentIs
  <2>2. PICK q \in Programs(c) \cap DOMAIN TransparentWrappers :
              /\ c[1].pieces[1] \in DOMAIN Paths => c[1].pieces[1] \in SystemPaths
              /\ e \in From(c, Wrapped(c, Wrappers[q]))
              /\ \A j \in 2..Wrapped(c, Wrappers[q]) - 1 :
                   (IsOption(c[j]) \/ Says(c[j], "-")) /\ ~Says(c[j], "--") => IsHarmless(c[j], q)
    BY <2>1
  <2>3. q = p
    BY OneProgram
  <2>4. /\ e \in From(c, k)
        /\ \A j \in 2..k - 1 :
             (IsOption(c[j]) \/ Says(c[j], "-")) /\ ~Says(c[j], "--") => IsHarmless(c[j], p)
    BY <1>2, <2>2, <2>3
  <2>5. e = d
    BY <2>4 DEF From
  <2>6. \A j \in own : j \in 2..k - 1 /\ ~Says(c[j], "--")
    <3>1. last \in {k - 2, k - 1} /\ own \subseteq 2..last /\ \A j \in own : ~Says(c[j], "--")
      BY DEF Introduces
    <3>2. last \in Nat /\ k \in Nat /\ last <= k - 1
      <4>1. Len(c) \in Nat
        BY DEF Commands
      <4> QED BY <3>1, <4>1
    <3> QED BY <3>1, <3>2
  <2>7. \A j \in own : IsOption(c[j]) => IsHarmless(c[j], p)
    BY <2>4, <2>6
  <2> QED BY <2>1, <2>2, <2>3, <2>5, <2>7
<1> QED BY <1>3, <1>4

LEMMA WrapsIs ==
  ASSUME NEW c \in Commands, c # << >>, NEW d, NEW open \in BOOLEAN, Wraps(c, d, open)
  PROVE  d \in PeelOnce(c) /\ \A e \in Transparent(c) : open /\ e = d
<1> DEFINE head == c[1]
           leads == Redirecting(head) \/ IsAssignment(head)
           foreign == head.quoted \/ head.pieces[1] \in DOMAIN Paths \ SystemPaths
           Leading == /\ leads /\ ~open
                      /\ d \in From(c, IF Redirecting(head) /\ head.pieces[1] \notin Redirects THEN 3 ELSE 2)
           Inside(p, k, last, own) ==
             /\ d \in From(c, k) /\ Introduces(c, k, Wrappers[p], last, own)
             /\ open <=> /\ ~foreign /\ p \in DOMAIN TransparentWrappers
                         /\ \A j \in own : IsOption(c[j]) => IsHarmless(c[j], p)
           ByPath == /\ ~leads /\ ~open
                     /\ head.quoted \/ Basename(head.pieces) # head.pieces
                     /\ Programs(c) \cap DOMAIN TransparentWrappers # {} => foreign
                     /\ d = Words(Basename(head.pieces)) \o Tail(c)
           Split == ~leads /\ ~open /\ Basename(head.pieces) = <<"env">> /\ d \in Payload(c)
<1>1. \/ Leading
      \/ /\ ~leads
         /\ \E p \in Programs(c), k \in 2..Len(c), last \in 1..Len(c) :
              \E own \in SUBSET (2..last) : Inside(p, k, last, own)
      \/ ByPath \/ Split
  BY Zenon DEF Wraps
<1>2. CASE Leading
  BY <1>2, LeadsIs
<1>3. CASE /\ ~leads
           /\ \E p \in Programs(c), k \in 2..Len(c), last \in 1..Len(c) :
                \E own \in SUBSET (2..last) : Inside(p, k, last, own)
  <2> HIDE DEF Inside
  <2>0. PICK p \in Programs(c), k \in 2..Len(c), last \in 1..Len(c) : \E own : Inside(p, k, last, own)
    BY <1>3
  <2>1. PICK own : Inside(p, k, last, own)
    BY <2>0
  <2>2. /\ d \in From(c, k) /\ Introduces(c, k, Wrappers[p], last, own)
        /\ open <=> /\ ~foreign /\ p \in DOMAIN TransparentWrappers
                    /\ \A j \in own : IsOption(c[j]) => IsHarmless(c[j], p)
    BY <2>1 DEF Inside
  <2>3. d \in PeelOnce(c)
    BY <1>3, <2>2, InsideIs
  <2>4. ASSUME NEW e \in Transparent(c) PROVE open /\ e = d
    <3>1. /\ e = d /\ ~c[1].quoted /\ c[1].pieces[1] \notin DOMAIN Paths \ SystemPaths
          /\ p \in DOMAIN TransparentWrappers
          /\ \A j \in own : IsOption(c[j]) => IsHarmless(c[j], p)
      BY <1>3, <2>2, InsideIs
    <3> QED BY <2>2, <3>1
  <2> QED BY <2>3, <2>4
<1>4. CASE ByPath
  <2>1. d \in PeelOnce(c)
    BY <1>4 DEF PeelOnce, Redirecting
  <2>2. ASSUME NEW e \in Transparent(c) PROVE FALSE
    <3>1. ~c[1].quoted /\ \E q \in Programs(c) \cap DOMAIN TransparentWrappers :
              c[1].pieces[1] \in DOMAIN Paths => c[1].pieces[1] \in SystemPaths
      BY TransparentIs
    <3> QED BY <1>4, <3>1
  <2> QED BY <2>1, <2>2
<1>5. CASE Split
  <2>1. d \in PeelOnce(c)
    BY <1>5 DEF PeelOnce, Redirecting
  <2>2. ASSUME NEW e \in Transparent(c) PROVE FALSE
    <3>1. PICK q \in Programs(c) \cap DOMAIN TransparentWrappers : TRUE
      BY TransparentIs
    <3>2. "env" \in Programs(c)
      BY <1>5 DEF Programs, Wrappers
    <3>3. q = "env"
      BY <3>1, <3>2, OneProgram
    <3> QED BY <3>1, <3>3 DEF TransparentWrappers
  <2> QED BY <2>1, <2>2
<1> QED BY <1>1, <1>2, <1>3, <1>4, <1>5

-----------------------------------------------------------------------------
LEMMA TransparentReach ==
  ASSUME NEW c \in Commands, MaxPeels(c) \in Nat
  PROVE  LET reach == Reach(Transparent, c)
         IN /\ reach[0] = {c}
            /\ \A n \in 0..MaxPeels(c) : reach[n] \in SUBSET Commands
            /\ \A n \in 1..MaxPeels(c) :
                 reach[n] = reach[n - 1] \cup UNION {Transparent(d) : d \in reach[n - 1]}
<1> DEFINE m == MaxPeels(c)
           F == [X \in SUBSET Commands |-> X \cup UNION {Transparent(d) : d \in X}]
           Def(g) == [n \in 0..m |-> IF n = 0 THEN {c} ELSE g[n - 1] \cup UNION {Transparent(d) : d \in g[n - 1]}]
<1>1. F \in [SUBSET Commands -> SUBSET Commands]
  BY TransparentIsShorter
<1>2. \A X \in SUBSET Commands : F[X] = X \cup UNION {Transparent(d) : d \in X}
  OBVIOUS
<1>3. {c} \in SUBSET Commands
  OBVIOUS
<1> HIDE DEF F, m
<1>4. \E g : Grows(g, SUBSET Commands, F, {c}, m)
  <2> DEFINE start == {c}
             sets == SUBSET Commands
  <2>1. start \in sets /\ m \in Nat /\ F \in [sets -> sets]
    BY <1>1, <1>3 DEF m
  <2> HIDE DEF start, sets
  <2>2. \E g : Grows(g, sets, F, start, m)
    BY <2>1, Grown, Zenon
  <2> QED BY <2>2 DEF start, sets
<1>5. PICK g : g \in [0..m -> SUBSET Commands] /\ g[0] = {c} /\ \A n \in 1..m : g[n] = F[g[n - 1]]
  BY <1>4 DEF Grows
<1>6. g = Def(g)
  <2>1. ASSUME NEW n \in 0..m, n # 0
        PROVE  g[n] = g[n - 1] \cup UNION {Transparent(d) : d \in g[n - 1]}
    <3>1. n \in 1..m /\ n - 1 \in 0..m
      BY <2>1 DEF m
    <3>2. g[n] = F[g[n - 1]] /\ g[n - 1] \in SUBSET Commands
      BY <1>5, <3>1
    <3> QED BY <1>2, <3>2
  <2>2. g = [n \in 0..m |-> g[n]] /\ g[0] = {c}
    BY <1>5
  <2> QED BY <2>1, <2>2
<1>7. Reach(Transparent, c) = CHOOSE h : h = Def(h)
  BY DEF Reach, m
<1> DEFINE reach == Reach(Transparent, c)
<1>8. reach = Def(reach)
  <2> HIDE DEF Def
  <2> QED BY <1>6, <1>7
<1> HIDE DEF reach
<1>9. 0 \in 0..m /\ reach[0] = {c}
  BY <1>8 DEF m
<1>10. ASSUME NEW n \in 1..m
       PROVE  reach[n] = reach[n - 1] \cup UNION {Transparent(d) : d \in reach[n - 1]}
  <2>1. n \in 0..m /\ n # 0
    BY DEF m
  <2> QED BY <1>8, <2>1
<1>11. \A n \in 0..m : reach[n] \in SUBSET Commands
  <2> DEFINE T == {n \in Nat : n <= m => reach[n] \in SUBSET Commands}
  <2>1. 0 \in T
    BY <1>9
  <2>2. ASSUME NEW n \in Nat, n \in T PROVE n + 1 \in T
    <3> SUFFICES ASSUME n + 1 <= m PROVE reach[n + 1] \in SUBSET Commands
      OBVIOUS
    <3>1. n <= m /\ n + 1 \in 1..m /\ (n + 1) - 1 = n
      BY DEF m
    <3>2. reach[n] \in SUBSET Commands
      BY <2>2, <3>1
    <3>3. reach[n + 1] = reach[n] \cup UNION {Transparent(d) : d \in reach[n]}
      BY <1>10, <3>1
    <3> QED BY <3>2, <3>3, TransparentIsShorter
  <2> HIDE DEF T
  <2>3. Nat \subseteq T
    BY <2>1, <2>2, NatSetInduction
  <2> QED BY <2>3 DEF T, m
<1> QED BY <1>9, <1>10, <1>11 DEF reach, m


LEMMA LayersAre ==
  ASSUME NEW line \in Lines, NEW i \in DOMAIN line
  PROVE  LET layers == line[i].layers
         IN /\ Len(layers) \in Nat /\ Len(layers) > 0 /\ DOMAIN layers = 1..Len(layers)
            /\ \A k \in 1..Len(layers) : /\ layers[k].words \in Commands /\ layers[k].words # << >>
                                         /\ layers[k].open \in BOOLEAN
            /\ \A k \in 1..Len(layers) - 1 : Wraps(layers[k].words, layers[k + 1].words, layers[k].open)
            /\ ~layers[Len(layers)].words[1].quoted /\ Programs(layers[Len(layers)].words) = {}
<1> DEFINE layers == line[i].layers
           L == [words : Seq(ShellWords), open : BOOLEAN]
           Step(k) == IF k < Len(layers) THEN Wraps(layers[k].words, layers[k + 1].words, layers[k].open)
                      ELSE ~layers[k].words[1].quoted /\ Programs(layers[k].words) = {}
<1>1. /\ layers \in Seq(L) \ {<<>>}
      /\ \A k \in DOMAIN layers : WellFormed(layers[k].words) /\ layers[k].words # <<>> /\ Step(k)
  BY LinesAssumption
<1> HIDE DEF layers, Step
<1>2. Len(layers) \in Nat /\ Len(layers) > 0 /\ DOMAIN layers = 1..Len(layers)
  BY <1>1
<1>3. ASSUME NEW k \in 1..Len(layers)
      PROVE  layers[k].words \in Commands /\ layers[k].words # << >> /\ layers[k].open \in BOOLEAN
  <2>1. layers[k] \in L
    <3> HIDE DEF L
    <3> QED BY <1>1, <1>2
  <2>2. layers[k].words \in Seq(ShellWords) /\ layers[k].open \in BOOLEAN
    BY <2>1
  <2> QED BY <1>1, <1>2, <2>2 DEF Commands
<1>4. ASSUME NEW k \in 1..Len(layers) - 1
      PROVE  Wraps(layers[k].words, layers[k + 1].words, layers[k].open)
  <2>1. k \in DOMAIN layers /\ k < Len(layers)
    BY <1>2
  <2> QED BY <1>1, <2>1 DEF Step
<1>5. ~layers[Len(layers)].words[1].quoted /\ Programs(layers[Len(layers)].words) = {}
  <2>1. Len(layers) \in DOMAIN layers /\ ~(Len(layers) < Len(layers))
    BY <1>2
  <2> QED BY <1>1, <2>1 DEF Step
<1> QED BY <1>2, <1>3, <1>4, <1>5 DEF layers

\* The plugin peels its way to every layer.
LEMMA LayersArePeeled ==
  ASSUME NEW line \in Lines, NEW i \in DOMAIN line, NEW k \in 2..Len(line[i].layers)
  PROVE  line[i].layers[k].words \in Peeled(line)
<1> DEFINE layers == line[i].layers
           c == layers[1].words
           Inside(j) == layers[j].words \in Closure(PeelOnce, c) /\ layers[j].words # c
           T == {j \in Nat : j + 2 <= Len(layers) => Inside(j + 2)}
<1>1. /\ Len(layers) \in Nat /\ Len(layers) > 0 /\ DOMAIN layers = 1..Len(layers)
      /\ \A j \in 1..Len(layers) : /\ layers[j].words \in Commands /\ layers[j].words # << >>
                                   /\ layers[j].open \in BOOLEAN
      /\ \A j \in 1..Len(layers) - 1 : Wraps(layers[j].words, layers[j + 1].words, layers[j].open)
  BY LayersAre
<1> HIDE DEF layers
<1>2. c \in Commands /\ c # << >> /\ c \in Closure(PeelOnce, c)
  <2>1. 1 \in 1..Len(layers)
    BY <1>1
  <2>2. c \in Commands /\ c # << >>
    BY <1>1, <2>1
  <2> HIDE DEF c
  <2>3. MaxPeels(c) \in Nat
    BY <2>2, WeightIs
  <2>4. Reach(PeelOnce, c)[0] = {c} /\ \A n \in 1..MaxPeels(c) :
          Reach(PeelOnce, c)[n] = Reach(PeelOnce, c)[n - 1] \cup UNION {PeelOnce(d) : d \in Reach(PeelOnce, c)[n - 1]}
    BY <2>2, <2>3, PeelReach
  <2> DEFINE reach == Reach(PeelOnce, c)
             U == {n \in Nat : n <= MaxPeels(c) => c \in reach[n]}
  <2>5. 0 \in U
    BY <2>4
  <2>6. ASSUME NEW n \in Nat, n \in U PROVE n + 1 \in U
    <3> SUFFICES ASSUME n + 1 <= MaxPeels(c) PROVE c \in reach[n + 1]
      OBVIOUS
    <3>1. n + 1 \in 1..MaxPeels(c) /\ (n + 1) - 1 = n /\ n <= MaxPeels(c)
      BY <2>3
    <3>2. c \in reach[n]
      BY <2>6, <3>1
    <3> QED BY <2>4, <3>1, <3>2
  <2> HIDE DEF U
  <2>7. MaxPeels(c) \in U
    BY <2>3, <2>5, <2>6, NatSetInduction
  <2>8. c \in reach[MaxPeels(c)]
    BY <2>3, <2>7 DEF U
  <2> QED BY <2>2, <2>8 DEF Closure
<1> HIDE DEF c
<1>3. ASSUME NEW j \in 1..Len(layers) - 1, layers[j].words \in Closure(PeelOnce, c)
      PROVE  Inside(j + 1)
  <2> DEFINE d == layers[j].words
             e == layers[j + 1].words
  <2>1. d \in Commands /\ d # << >> /\ layers[j].open \in BOOLEAN /\ Wraps(d, e, layers[j].open)
    <3>1. j \in 1..Len(layers)
      BY <1>1
    <3> QED BY <1>1, <3>1
  <2>2. d \in Closure(PeelOnce, c)
    BY <1>3
  <2> HIDE DEF d, e
  <2>3. e \in PeelOnce(d)
    BY <2>1, WrapsIs
  <2>4. e \in Commands /\ e # << >> /\ Weight(e) < Weight(d)
    BY <2>1, <2>3, PeelIsSmaller
  <2>5. PeelOnce(d) \subseteq Closure(PeelOnce, c) /\ (d # c => Weight(d) < Weight(c))
    BY <1>2, <2>2, PeelingEnds
  <2>6. Weight(c) \in Nat /\ Weight(d) \in Nat /\ Weight(e) \in Nat
    BY <1>2, <2>1, <2>4, WeightIs
  <2>7. e # c
    BY <2>4, <2>5, <2>6
  <2> QED BY <2>3, <2>5, <2>7 DEF e
<1>4. 0 \in T
  <2> SUFFICES ASSUME 0 + 2 <= Len(layers) PROVE Inside(0 + 2)
    OBVIOUS
  <2>1. 1 \in 1..Len(layers) - 1 /\ 1 + 1 = 0 + 2
    BY <1>1
  <2>2. Inside(1 + 1)
    BY <1>2, <1>3, <2>1 DEF c
  <2> QED BY <2>1, <2>2
<1>5. ASSUME NEW j \in Nat, j \in T PROVE (j + 1) \in T
  <2> SUFFICES ASSUME (j + 1) + 2 <= Len(layers) PROVE Inside((j + 1) + 2)
    OBVIOUS
  <2>1. j + 2 \in 1..Len(layers) - 1 /\ (j + 2) + 1 = (j + 1) + 2 /\ j + 2 <= Len(layers)
    BY <1>1
  <2>2. Inside(j + 2)
    BY <1>5, <2>1
  <2>3. Inside((j + 2) + 1)
    BY <1>3, <2>1, <2>2
  <2> QED BY <2>1, <2>3
<1> HIDE DEF T
<1>6. Nat \subseteq T
  BY <1>4, <1>5, NatSetInduction
<1>7. Inside(k)
  <2> HIDE DEF Inside
  <2>1. k - 2 \in Nat /\ (k - 2) + 2 = k /\ k <= Len(layers)
    BY <1>1 DEF layers
  <2>2. k - 2 \in T
    BY <1>6, <2>1
  <2> QED BY <2>1, <2>2 DEF T
<1>8. layers[k].words \in Spellings(c)
  BY <1>7 DEF Spellings
<1>9. c \in Resources(line)
  BY DEF c, layers, Resources, Typed
<1> QED BY <1>8, <1>9 DEF Peeled, layers

\* Where `passes` goes from a command to the next is from a layer to the next.
LEMMA PassesLayers ==
  ASSUME NEW line \in Lines, NEW i \in DOMAIN line, NEW e \in Closure(Transparent, Typed(line[i]))
  PROVE  LET layers == line[i].layers
         IN \E k \in DOMAIN layers :
              /\ e = layers[k].words
              /\ \A j \in 1..k - 1 : /\ layers[j].open
                                     /\ layers[j].words \in Closure(Transparent, Typed(line[i]))
                                     /\ Len(layers[j].words) > Len(layers[k].words)
<1> DEFINE layers == line[i].layers
           c == layers[1].words
           m == MaxPeels(c)
           reach == Reach(Transparent, c)
           Behind(j, k, n) == /\ layers[j].open /\ layers[j].words \in reach[n]
                              /\ Len(layers[j].words) > Len(layers[k].words)
           Chain(f, n) == \E k \in 1..Len(layers) :
                            f = layers[k].words /\ \A j \in 1..k - 1 : Behind(j, k, n)
           T == {n \in Nat : n <= m => \A f \in reach[n] : Chain(f, n)}
<1>1. /\ Len(layers) \in Nat /\ Len(layers) > 0 /\ DOMAIN layers = 1..Len(layers)
      /\ \A j \in 1..Len(layers) : /\ layers[j].words \in Commands /\ layers[j].words # << >>
                                   /\ layers[j].open \in BOOLEAN
      /\ \A j \in 1..Len(layers) - 1 : Wraps(layers[j].words, layers[j + 1].words, layers[j].open)
      /\ Programs(layers[Len(layers)].words) = {}
  BY LayersAre
<1> HIDE DEF layers
<1>2. 1 \in 1..Len(layers) /\ c \in Commands /\ c # << >>
  BY <1>1
<1>3. m \in Nat
  BY <1>2, WeightIs
<1>4. /\ reach[0] = {c}
      /\ \A n \in 0..m : reach[n] \in SUBSET Commands
      /\ \A n \in 1..m : reach[n] = reach[n - 1] \cup UNION {Transparent(d) : d \in reach[n - 1]}
  BY <1>2, <1>3, TransparentReach
<1> HIDE DEF m, reach
<1>5. 0 \in T
  <2> SUFFICES ASSUME NEW f \in reach[0] PROVE Chain(f, 0)
    OBVIOUS
  <2>1. f = layers[1].words /\ \A j \in 1..1 - 1 : Behind(j, 1, 0)
    <3> HIDE DEF Behind
    <3>1. 1..1 - 1 = {}
      OBVIOUS
    <3> QED BY <1>4, <3>1
  <2> HIDE DEF Behind
  <2> QED BY <1>2, <2>1
<1>6. ASSUME NEW n \in Nat, n \in T PROVE n + 1 \in T
  <2> SUFFICES ASSUME n + 1 <= m, NEW f \in reach[n + 1] PROVE Chain(f, n + 1)
    OBVIOUS
  <2>1. n <= m /\ n \in 0..m /\ n + 1 \in 1..m /\ (n + 1) - 1 = n
    BY <1>3
  <2>2. reach[n + 1] = reach[n] \cup UNION {Transparent(d) : d \in reach[n]}
    BY <1>4, <2>1
  <2>3. \A d \in reach[n] : Chain(d, n)
    BY <1>6, <2>1
  <2>4. \A j, k : Behind(j, k, n) => Behind(j, k, n + 1)
    BY <2>2
  <2> HIDE DEF Behind
  <2>5. CASE f \in reach[n]
    <3>1. PICK k \in 1..Len(layers) : f = layers[k].words /\ \A j \in 1..k - 1 : Behind(j, k, n)
      BY <2>3, <2>5
    <3> QED BY <2>4, <3>1
  <2>6. ASSUME NEW d \in reach[n], f \in Transparent(d) PROVE Chain(f, n + 1)
    <3>1. PICK k \in 1..Len(layers) : d = layers[k].words /\ \A j \in 1..k - 1 : Behind(j, k, n)
      BY <2>3
    <3>2. d \in Commands /\ d # << >> /\ layers[k].open \in BOOLEAN
      BY <1>1, <3>1
    <3>3. Len(f) < Len(d) /\ f \in Commands
      BY <2>6, <3>2, TransparentIsShorter
    <3>4. k < Len(layers)
      <4>1. \E p \in Programs(d) \cap DOMAIN TransparentWrappers : f \in From(d, Wrapped(d, Wrappers[p]))
        BY <2>6, TransparentIs
      <4>2. Programs(d) # {}
        BY <4>1
      <4>3. k # Len(layers)
        BY <1>1, <3>1, <4>2
      <4>4. Len(layers) \in Nat
        BY <1>1
      <4> QED BY <4>3, <4>4
    <3>5. Wraps(d, layers[k + 1].words, layers[k].open)
      <4>1. k \in 1..Len(layers) - 1
        BY <1>1, <3>4
      <4> QED BY <1>1, <3>1, <4>1
    <3>6. layers[k].open /\ f = layers[k + 1].words
      BY <2>6, <3>2, <3>5, WrapsIs
    <3>7. k + 1 \in 1..Len(layers) /\ (k + 1) - 1 = k
      BY <1>1, <3>4
    <3>8. ASSUME NEW j \in 1..k PROVE Behind(j, k + 1, n + 1)
      <4>1. Len(f) \in Nat /\ Len(d) \in Nat
        BY <3>2, <3>3 DEF Commands
      <4>2. CASE j = k
        BY <2>2, <3>1, <3>3, <3>6, <4>1, <4>2 DEF Behind
      <4>3. CASE j # k
        <5>1. j \in 1..k - 1 /\ j \in 1..Len(layers)
          BY <1>1, <4>3
        <5>2. /\ layers[j].open /\ layers[j].words \in reach[n]
              /\ Len(layers[j].words) > Len(d)
          BY <3>1, <5>1 DEF Behind
        <5>3. layers[j].words \in Commands
          BY <1>1, <5>1
        <5>4. Len(layers[j].words) \in Nat
          BY <5>3 DEF Commands
        <5>5. Len(layers[j].words) > Len(f)
          BY <3>3, <4>1, <5>2, <5>4
        <5> QED BY <2>2, <3>6, <5>2, <5>5 DEF Behind
      <4> QED BY <4>2, <4>3
    <3> QED BY <3>6, <3>7, <3>8
  <2> HIDE DEF Chain
  <2> QED BY <2>2, <2>5, <2>6
<1> HIDE DEF T
<1>7. m \in T
  BY <1>3, <1>5, <1>6, NatSetInduction
<1>8. Closure(Transparent, c) = reach[m]
  BY DEF Closure, reach, m
<1>9. c = Typed(line[i])
  BY DEF Typed, layers
<1>10. Chain(e, m)
  <2> HIDE DEF Chain, c
  <2>1. e \in reach[m]
    BY <1>8, <1>9
  <2> QED BY <1>3, <1>7, <2>1 DEF T
<1> HIDE DEF c
<1> QED BY <1>1, <1>8, <1>9, <1>10 DEF layers

LEMMA PassesIs ==
  ASSUME NEW line \in Lines, NEW i \in DOMAIN line, NEW rules, Passes(rules, Typed(line[i]))
  PROVE  LET layers == line[i].layers
         IN \/ Evaluate(rules, Typed(line[i])) = "allow"
            \/ \E k \in DOMAIN layers :
                 /\ \E r \in Specific(rules, layers[k].words) : r.effect = "allow"
                 /\ \A j \in 1..k - 1 : layers[j].open /\ Specific(rules, layers[j].words) = {}
<1> SUFFICES ASSUME Evaluate(rules, Typed(line[i])) # "allow"
             PROVE  \E k \in DOMAIN line[i].layers :
                      /\ \E r \in Specific(rules, line[i].layers[k].words) : r.effect = "allow"
                      /\ \A j \in 1..k - 1 : /\ line[i].layers[j].open
                                             /\ Specific(rules, line[i].layers[j].words) = {}
  OBVIOUS
<1> DEFINE layers == line[i].layers
           c == Typed(line[i])
<1>1. PICK d \in Closure(Transparent, c) :
        /\ \E r \in Specific(rules, d) : r.effect = "allow"
        /\ \A e \in Closure(Transparent, c) : Len(e) > Len(d) => Specific(rules, e) = {}
  BY Zenon DEF Passes
<1>2. PICK k \in DOMAIN layers :
        /\ d = layers[k].words
        /\ \A j \in 1..k - 1 : /\ layers[j].open /\ layers[j].words \in Closure(Transparent, c)
                               /\ Len(layers[j].words) > Len(layers[k].words)
  BY PassesLayers
<1> HIDE DEF layers, c
<1>3. \A j \in 1..k - 1 : layers[j].open /\ Specific(rules, layers[j].words) = {}
  BY <1>1, <1>2
<1> QED BY <1>1, <1>2, <1>3 DEF layers

-----------------------------------------------------------------------------
(***************************************************************************)
(* The review of a call.                                                   *)
(***************************************************************************)

Fields == {"at", "line", "agent", "effect", "judged", "rules", "read", "loaded"}

\* Until the plugin decides, the effect is OpenCode's.  A call that is decided
\* is denied, had nothing to peel, or was reviewed under the rules it carries.
ReviewInv ==
  /\ DOMAIN call = Fields
  /\ call.at # "idle" => call.line \in Lines
  /\ call.at \in {"hook", "session"} => call.effect = call.judged /\ ~call.loaded
  /\ call.at = "done" =>
       \/ call.effect = "deny"
       \/ ~call.loaded /\ Peeled(call.line) = {} /\ call.effect = call.judged
       \/ call.loaded /\ call.effect = Review(call.rules, call.line, call.judged)

THEOREM Reviewed == Spec => []ReviewInv
<1>1. Init => ReviewInv
  BY DEF Init, ReviewInv, Idle, Fields
<1>2. ASSUME ReviewInv, [Next]_vars PROVE ReviewInv'
  <2>1. ASSUME NEW line \in Lines, NEW named, Call(line, named) PROVE ReviewInv'
    <3> DEFINE rules == RulesOf(IF named = Unnamed THEN agent ELSE named, grants)
               effect == Judge(rules, Resources(line))
    <3>1. call' = [Idle EXCEPT !.at = "hook", !.line = line, !.agent = named,
                               !.effect = effect, !.judged = effect, !.rules = rules]
      BY <2>1 DEF Call
    <3> HIDE DEF rules, effect
    <3>2. DOMAIN call' = Fields /\ call'.at = "hook" /\ call'.line = line
          /\ call'.effect = effect /\ call'.judged = effect /\ call'.loaded = FALSE
      BY <3>1 DEF Idle, Fields
    <3> QED BY <3>2 DEF ReviewInv
  <2>2. CASE LeaveAlone
    <3>1. /\ DOMAIN call' = Fields /\ call'.at = "done" /\ call'.line = call.line
          /\ call'.effect = call.effect /\ call'.judged = call.judged /\ call'.loaded = call.loaded
      BY <1>2, <2>2 DEF LeaveAlone, ReviewInv, Fields
    <3>2. /\ call.line \in Lines /\ call.effect = call.judged /\ ~call.loaded
          /\ call.effect = "deny" \/ Peeled(call.line) = {}
      BY <1>2, <2>2 DEF LeaveAlone, ReviewInv
    <3> QED BY <3>1, <3>2 DEF ReviewInv, Peeled
  <2>3. CASE ReadSession
    <3>1. /\ DOMAIN call' = Fields /\ call'.at = "session" /\ call'.line = call.line
          /\ call'.effect = call.effect /\ call'.judged = call.judged /\ call'.loaded = call.loaded
      BY <1>2, <2>3 DEF ReadSession, ReviewInv, Fields
    <3>2. call.line \in Lines /\ call.effect = call.judged /\ ~call.loaded
      BY <1>2, <2>3 DEF ReadSession, ReviewInv
    <3> QED BY <3>1, <3>2 DEF ReviewInv
  <2>4. CASE Decide
    <3> DEFINE rules == RulesOf(Asker, call.read.grants)
               effect == Review(rules, call.line, call.effect)
    <3>1. call' = [call EXCEPT !.at = "done", !.rules = rules, !.loaded = TRUE, !.effect = effect]
          /\ call.at = "session"
      BY <2>4 DEF Decide
    <3> HIDE DEF rules, effect
    <3>2. /\ DOMAIN call' = Fields /\ call'.at = "done" /\ call'.line = call.line /\ call'.rules = rules
          /\ call'.effect = effect /\ call'.judged = call.judged /\ call'.loaded = TRUE
      BY <1>2, <3>1 DEF ReviewInv, Fields
    <3>3. call.line \in Lines /\ call.effect = call.judged
      BY <1>2, <3>1 DEF ReviewInv
    <3>4. call'.effect = Review(call'.rules, call'.line, call'.judged)
      BY <3>2, <3>3 DEF effect
    <3> QED BY <3>2, <3>3, <3>4 DEF ReviewInv
  <2>5. CASE Fail
    <3>1. /\ DOMAIN call' = Fields /\ call'.at = "done" /\ call'.line = call.line
          /\ call'.effect = "deny"
      BY <1>2, <2>5 DEF Fail, ReviewInv, Fields
    <3>2. call.line \in Lines
      BY <1>2, <2>5 DEF Fail, ReviewInv
    <3> QED BY <3>1, <3>2 DEF ReviewInv
  <2>6. CASE Answer
    BY <2>6 DEF Answer, ReviewInv, Idle, Fields
  <2>7. CASE call' = call
    BY <1>2, <2>7 DEF ReviewInv, Peeled
  <2> QED
    BY <1>2, <2>1, <2>2, <2>3, <2>4, <2>5, <2>6, <2>7 DEF Next, Switch, Grant, vars
<1> QED BY <1>1, <1>2, PTL DEF Spec

(***************************************************************************)
(* A call that is not denied has no command at any layer, behind any chain *)
(* of wrappers, assignments, redirections, quotes and paths, that the      *)
(* rules the plugin read deny.                                             *)
(***************************************************************************)
THEOREM DenyHolds == Spec => []DenyReachesInside
<1>1. ReviewInv => DenyReachesInside
  <2> SUFFICES ASSUME ReviewInv, call.at = "done", call.effect # "deny",
                      NEW i \in DOMAIN call.line, NEW k \in 2..Len(call.line[i].layers)
               PROVE  Evaluate(call.rules, call.line[i].layers[k].words) # "deny"
    BY DEF DenyReachesInside
  <2>1. call.line \in Lines
    BY DEF ReviewInv
  <2>2. call.line[i].layers[k].words \in Peeled(call.line)
    BY <2>1, LayersArePeeled
  <2>3. call.loaded /\ call.effect = Review(call.rules, call.line, call.judged)
    BY <2>2 DEF ReviewInv
  <2> QED BY <2>2, <2>3 DEF Review
<1> QED BY <1>1, Reviewed, PTL

(***************************************************************************)
(* A call OpenCode would ask about is allowed only if each of its commands *)
(* is allowed as typed, or wraps transparently, with no rule of its own at *)
(* any layer before, a command that a rule other than the catch-all allows.*)
(***************************************************************************)
THEOREM AllowHolds == Spec => []AllowIsCarried
<1>1. ReviewInv => AllowIsCarried
  <2> SUFFICES ASSUME ReviewInv, call.at = "done", call.judged = "ask", call.effect = "allow",
                      NEW i \in DOMAIN call.line
               PROVE  LET layers == call.line[i].layers
                      IN \/ Evaluate(call.rules, Typed(call.line[i])) = "allow"
                         \/ \E k \in DOMAIN layers :
                              /\ \E r \in Specific(call.rules, layers[k].words) : r.effect = "allow"
                              /\ \A j \in 1..k - 1 :
                                   layers[j].open /\ Specific(call.rules, layers[j].words) = {}
    BY Zenon DEF AllowIsCarried
  <2>1. call.line \in Lines /\ call.effect = Review(call.rules, call.line, call.judged)
    BY DEF ReviewInv
  <2>2. \A c \in Resources(call.line) : Passes(call.rules, c)
    BY <2>1 DEF Review
  <2>3. Passes(call.rules, Typed(call.line[i]))
    BY <2>2 DEF Resources
  <2> QED BY <2>1, <2>3, PassesIs
<1> QED BY <1>1, Reviewed, PTL

(***************************************************************************)
(* A call with a wrapped command is denied unless the plugin has read the  *)
(* rules for it.                                                           *)
(***************************************************************************)
THEOREM UnreadIsDenied == Spec => []NothingRunsUnread
<1>1. ReviewInv => NothingRunsUnread
  <2> SUFFICES ASSUME ReviewInv, call.at = "done", ~call.loaded,
                      NEW i \in DOMAIN call.line, Len(call.line[i].layers) > 1
               PROVE  call.effect = "deny"
    BY DEF NothingRunsUnread
  <2>1. call.line \in Lines
    BY DEF ReviewInv
  <2>2. 2 \in 2..Len(call.line[i].layers)
    <3>1. Len(call.line[i].layers) \in Nat
      BY <2>1, LayersAre
    <3> QED BY <3>1
  <2>3. Peeled(call.line) # {}
    BY <2>1, <2>2, LayersArePeeled
  <2> QED BY <2>3 DEF ReviewInv
<1> QED BY <1>1, Reviewed, PTL
=============================================================================
