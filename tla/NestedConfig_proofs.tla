---------------------------- MODULE NestedConfig_proofs ----------------------------
(***************************************************************************)
(* Proofs about NestedConfig, for every set of names, leaves and tool      *)
(* nodes, every configuration people can write, and patches of any length. *)
(*                                                                         *)
(* Documents are compared node by node: what each operation does is a fact *)
(* about which pointers are in the document after it and what is there.    *)
(* From these comes Result, the closed form of a whole patch, in which no  *)
(* order is left; the invariants are stated with it.                       *)
(***************************************************************************)
EXTENDS NestedConfig, SequenceTheorems, FiniteSetTheorems, WellFoundedInduction, TLAPS

-----------------------------------------------------------------------------
(* Prefixes.                                                               *)

LEMMA PointerLen ==
  ASSUME NEW p \in Pointers
  PROVE  Len(p) \in Nat /\ p \in Seq(Names) /\ p = [k \in 1..Len(p) |-> p[k]] /\ \A k \in 1..Len(p) : p[k] \in Names
BY DEF Pointers

LEMMA SamePointer ==
  ASSUME NEW p \in Pointers, NEW q \in Pointers, Len(p) = Len(q), \A k \in 1..Len(p) : p[k] = q[k]
  PROVE  p = q
BY SeqEqual DEF Pointers

LEMMA Stretch ==
  ASSUME NEW p \in Pointers, NEW m \in 1..Len(p) + 1, NEW n \in 0..Len(p)
  PROVE  /\ SubSeq(p, m, n) \in Pointers
         /\ Len(SubSeq(p, m, n)) = IF m <= n THEN n - m + 1 ELSE 0
         /\ \A k \in 1..n - m + 1 : SubSeq(p, m, n)[k] = p[m + k - 1]
<1>1. Len(p) \in Nat /\ p \in Seq(Names)
  BY PointerLen
<1>2. CASE m <= n
  <2>1. \A k \in m..n : k \in 1..Len(p)
    BY <1>1
  <2> QED BY <1>1, <1>2, <2>1, SubSeqProperties DEF Pointers
<1>3. CASE ~(m <= n)
  <2>1. n - m + 1 < 1
    BY <1>3, <1>1
  <2>2. SubSeq(p, m, n) = << >>
    BY <1>1, <1>3, SubSeqEmpty
  <2> QED BY <1>3, <2>1, <2>2 DEF Pointers
<1> QED BY <1>2, <1>3

LEMMA PrefixWhere ==
  ASSUME NEW p \in Pointers, NEW q \in Pointers
  PROVE  IsPrefix(p, q) <=> Len(p) <= Len(q) /\ \A k \in 1..Len(p) : p[k] = q[k]
<1>1. Len(p) \in Nat /\ Len(q) \in Nat
  BY PointerLen
<1>2. SUFFICES ASSUME Len(p) <= Len(q)
              PROVE  SubSeq(p, 1, Len(p)) = SubSeq(q, 1, Len(p)) <=> \A k \in 1..Len(p) : p[k] = q[k]
  BY DEF IsPrefix
<1>3. 1 \in 1..Len(p) + 1 /\ Len(p) \in 0..Len(p) /\ 1 \in 1..Len(q) + 1 /\ Len(p) \in 0..Len(q)
  BY <1>1, <1>2
<1>4. Len(p) - 1 + 1 = Len(p) /\ \A k \in 1..Len(p) : 1 + k - 1 = k
  BY <1>1
<1> DEFINE a == SubSeq(p, 1, Len(p))
           b == SubSeq(q, 1, Len(p))
<1>5. a \in Pointers /\ Len(a) = Len(p) /\ \A k \in 1..Len(p) : a[k] = p[k]
  <2>1. Len(a) = IF 1 <= Len(p) THEN Len(p) - 1 + 1 ELSE 0
    BY <1>3, Stretch
  <2>2. Len(a) = Len(p)
    BY <1>1, <2>1
  <2>3. a \in Pointers /\ \A k \in 1..Len(p) - 1 + 1 : a[k] = p[1 + k - 1]
    BY <1>3, Stretch
  <2> QED BY <1>4, <2>2, <2>3
<1>6. b \in Pointers /\ Len(b) = Len(p) /\ \A k \in 1..Len(p) : b[k] = q[k]
  <2>1. Len(b) = IF 1 <= Len(p) THEN Len(p) - 1 + 1 ELSE 0
    BY <1>3, Stretch
  <2>2. Len(b) = Len(p)
    BY <1>1, <2>1
  <2>3. b \in Pointers /\ \A k \in 1..Len(p) - 1 + 1 : b[k] = q[1 + k - 1]
    BY <1>3, Stretch
  <2> QED BY <1>4, <2>2, <2>3
<1> HIDE DEF a, b
<1>7. a = b <=> \A k \in 1..Len(p) : a[k] = b[k]
  BY <1>5, <1>6, SamePointer
<1> QED BY <1>5, <1>6, <1>7 DEF a, b

LEMMA PrefixReflexive ==
  ASSUME NEW p \in Pointers
  PROVE  IsPrefix(p, p)
BY PrefixWhere, PointerLen

LEMMA PrefixTransitive ==
  ASSUME NEW p \in Pointers, NEW q \in Pointers, NEW r \in Pointers, IsPrefix(p, q), IsPrefix(q, r)
  PROVE  IsPrefix(p, r)
<1>1. Len(p) \in Nat /\ Len(q) \in Nat /\ Len(r) \in Nat
  BY PointerLen
<1>2. Len(p) <= Len(q) /\ Len(q) <= Len(r) /\ \A k \in 1..Len(p) : p[k] = q[k]
  BY PrefixWhere
<1>3. \A k \in 1..Len(q) : q[k] = r[k]
  BY PrefixWhere
<1>4. Len(p) <= Len(r) /\ \A k \in 1..Len(p) : k \in 1..Len(q)
  BY <1>1, <1>2
<1> QED BY <1>2, <1>3, <1>4, PrefixWhere

LEMMA PrefixAntisymmetric ==
  ASSUME NEW p \in Pointers, NEW q \in Pointers, IsPrefix(p, q), IsPrefix(q, p)
  PROVE  p = q
<1>1. Len(p) \in Nat /\ Len(q) \in Nat
  BY PointerLen
<1>2. Len(p) <= Len(q) /\ Len(q) <= Len(p) /\ \A k \in 1..Len(p) : p[k] = q[k]
  BY PrefixWhere
<1>3. Len(p) = Len(q)
  BY <1>1, <1>2
<1> QED BY <1>2, <1>3, SamePointer

\* Two prefixes of one pointer: one is a prefix of the other.
LEMMA PrefixesMeet ==
  ASSUME NEW p \in Pointers, NEW q \in Pointers, NEW r \in Pointers, IsPrefix(p, r), IsPrefix(q, r)
  PROVE  IsPrefix(p, q) \/ IsPrefix(q, p)
<1>1. Len(p) \in Nat /\ Len(q) \in Nat
  BY PointerLen
<1>2. (\A k \in 1..Len(p) : p[k] = r[k]) /\ (\A k \in 1..Len(q) : q[k] = r[k])
  BY PrefixWhere
<1>3. CASE Len(p) <= Len(q)
  <2>1. \A k \in 1..Len(p) : k \in 1..Len(q)
    BY <1>1, <1>3
  <2> QED BY <1>2, <1>3, <2>1, PrefixWhere
<1>4. CASE Len(q) <= Len(p)
  <2>1. \A k \in 1..Len(q) : k \in 1..Len(p)
    BY <1>1, <1>4
  <2> QED BY <1>2, <1>4, <2>1, PrefixWhere
<1>5. Len(p) <= Len(q) \/ Len(q) <= Len(p)
  BY <1>1
<1> QED BY <1>3, <1>4, <1>5

LEMMA RootPrefix ==
  ASSUME NEW p \in Pointers
  PROVE  << >> \in Pointers /\ IsPrefix(<< >>, p) /\ (IsPrefix(p, << >>) <=> p = << >>)
<1>1. << >> \in Pointers /\ Len(<< >>) = 0 /\ 1..0 = {}
  BY DEF Pointers
<1>2. IsPrefix(<< >>, p)
  BY <1>1, PrefixWhere, PointerLen
<1> QED BY <1>1, <1>2, PrefixAntisymmetric

LEMMA AboveIs ==
  ASSUME NEW p \in Pointers
  PROVE  Above(p) = {q \in Pointers : IsPrefix(q, p) /\ q # p}
<1>1. Len(p) \in Nat
  BY PointerLen
<1>2. ASSUME NEW q \in Above(p) PROVE q \in Pointers /\ IsPrefix(q, p) /\ q # p
  <2>1. PICK n \in 0..(Len(p) - 1) : q = SubSeq(p, 1, n)
    BY DEF Above
  <2>2. 1 \in 1..Len(p) + 1 /\ n \in 0..Len(p) /\ n - 1 + 1 = n /\ \A k \in 1..n : 1 + k - 1 = k
    BY <1>1
  <2>3. q \in Pointers /\ Len(q) = (IF 1 <= n THEN n - 1 + 1 ELSE 0) /\ \A k \in 1..n - 1 + 1 : q[k] = p[1 + k - 1]
    BY <2>1, <2>2, Stretch
  <2>4. Len(q) = n
    BY <2>2, <2>3
  <2>5. \A k \in 1..n : q[k] = p[k]
    BY <2>2, <2>3
  <2>6. Len(q) <= Len(p) /\ Len(q) # Len(p)
    BY <1>1, <2>4
  <2> QED BY <2>3, <2>4, <2>5, <2>6, PrefixWhere
<1>3. ASSUME NEW q \in Pointers, IsPrefix(q, p), q # p PROVE q \in Above(p)
  <2>1. Len(q) \in Nat /\ Len(q) <= Len(p) /\ \A k \in 1..Len(q) : q[k] = p[k]
    BY <1>3, PrefixWhere, PointerLen
  <2>2. Len(q) # Len(p)
    BY <1>3, <2>1, SamePointer
  <2>3. Len(q) \in 0..(Len(p) - 1)
    BY <1>1, <2>1, <2>2
  <2>4. 1 \in 1..Len(p) + 1 /\ Len(q) \in 0..Len(p) /\ Len(q) - 1 + 1 = Len(q) /\ \A k \in 1..Len(q) : 1 + k - 1 = k
    BY <1>1, <2>1
  <2> DEFINE s == SubSeq(p, 1, Len(q))
  <2>5. s \in Pointers /\ Len(s) = (IF 1 <= Len(q) THEN Len(q) - 1 + 1 ELSE 0) /\ \A k \in 1..Len(q) - 1 + 1 : s[k] = p[1 + k - 1]
    BY <2>4, Stretch
  <2> HIDE DEF s
  <2>6. Len(s) = Len(q)
    BY <2>1, <2>4, <2>5
  <2>7. \A k \in 1..Len(q) : s[k] = q[k]
    BY <2>1, <2>4, <2>5
  <2>8. s = q
    BY <2>5, <2>6, <2>7, SamePointer
  <2> QED BY <2>3, <2>8 DEF s, Above
<1> QED BY <1>2, <1>3

LEMMA Join ==
  ASSUME NEW p \in Pointers, NEW r \in Pointers
  PROVE  /\ p \o r \in Pointers /\ Len(p \o r) = Len(p) + Len(r)
         /\ \A k \in 1..Len(p) : (p \o r)[k] = p[k]
         /\ \A k \in 1..Len(r) : (p \o r)[Len(p) + k] = r[k]
         /\ IsPrefix(p, p \o r) /\ Rest(p, p \o r) = r
<1>1. Len(p) \in Nat /\ Len(r) \in Nat /\ p \in Seq(Names) /\ r \in Seq(Names)
  BY PointerLen
<1> DEFINE c == p \o r
<1>2. c \in Seq(Names) /\ Len(c) = Len(p) + Len(r)
  BY <1>1
<1>3. ASSUME NEW k \in 1..Len(p) PROVE c[k] = p[k]
  <2>1. k \in 1..Len(p) + Len(r)
    BY <1>1
  <2> QED BY <1>1, <2>1, ConcatProperties
<1>4. ASSUME NEW k \in 1..Len(r) PROVE c[Len(p) + k] = r[k]
  <2>1. Len(p) + k \in 1..Len(p) + Len(r) /\ ~(Len(p) + k <= Len(p)) /\ (Len(p) + k) - Len(p) = k
    BY <1>1
  <2> QED BY <1>1, <2>1, ConcatProperties
<1> HIDE DEF c
<1>5. c \in Pointers
  BY <1>2 DEF Pointers
<1>6. IsPrefix(p, c)
  <2>1. Len(p) <= Len(c)
    BY <1>1, <1>2
  <2> QED BY <1>3, <1>5, <2>1, PrefixWhere
<1>7. Rest(p, c) = r
  <2>1. Len(p) + 1 \in 1..Len(c) + 1 /\ Len(c) \in 0..Len(c) /\ Len(c) - (Len(p) + 1) + 1 = Len(r)
    BY <1>1, <1>2
  <2> DEFINE s == SubSeq(c, Len(p) + 1, Len(c))
  <2>2. /\ s \in Pointers
        /\ Len(s) = (IF Len(p) + 1 <= Len(c) THEN Len(c) - (Len(p) + 1) + 1 ELSE 0)
        /\ \A k \in 1..Len(c) - (Len(p) + 1) + 1 : s[k] = c[(Len(p) + 1) + k - 1]
    BY <1>5, <2>1, Stretch
  <2> HIDE DEF s
  <2>3. Len(s) = Len(r)
    BY <1>1, <1>2, <2>1, <2>2
  <2>4. \A k \in 1..Len(r) : (Len(p) + 1) + k - 1 = Len(p) + k
    BY <1>1
  <2>5. \A k \in 1..Len(r) : s[k] = r[k]
    BY <1>4, <2>1, <2>2, <2>4
  <2> QED BY <2>2, <2>3, <2>5, SamePointer DEF s, Rest
<1> QED BY <1>2, <1>3, <1>4, <1>5, <1>6, <1>7 DEF c

LEMMA RestJoins ==
  ASSUME NEW p \in Pointers, NEW q \in Pointers, IsPrefix(p, q)
  PROVE  Rest(p, q) \in Pointers /\ p \o Rest(p, q) = q
<1>1. Len(p) \in Nat /\ Len(q) \in Nat /\ Len(p) <= Len(q) /\ \A k \in 1..Len(p) : p[k] = q[k]
  BY PointerLen, PrefixWhere
<1> DEFINE r == SubSeq(q, Len(p) + 1, Len(q))
<1>2. Len(p) + 1 \in 1..Len(q) + 1 /\ Len(q) \in 0..Len(q) /\ Len(q) - (Len(p) + 1) + 1 = Len(q) - Len(p)
  BY <1>1
<1>3. /\ r \in Pointers
      /\ Len(r) = (IF Len(p) + 1 <= Len(q) THEN Len(q) - (Len(p) + 1) + 1 ELSE 0)
      /\ \A k \in 1..Len(q) - (Len(p) + 1) + 1 : r[k] = q[(Len(p) + 1) + k - 1]
  BY <1>2, Stretch
<1> HIDE DEF r
<1>4. Len(r) = Len(q) - Len(p)
  BY <1>1, <1>3
<1>5. \A k \in 1..Len(r) : (Len(p) + 1) + k - 1 = Len(p) + k
  BY <1>1, <1>4
<1>6. \A k \in 1..Len(r) : r[k] = q[Len(p) + k]
  BY <1>2, <1>3, <1>4, <1>5
<1>7. p \o r \in Pointers /\ Len(p \o r) = Len(p) + Len(r)
  BY <1>3, Join
<1>8. Len(p \o r) = Len(q)
  BY <1>1, <1>4, <1>7
<1>9. ASSUME NEW k \in 1..Len(q) PROVE (p \o r)[k] = q[k]
  <2>1. CASE k \in 1..Len(p)
    BY <1>1, <1>3, <2>1, Join
  <2>2. CASE k \notin 1..Len(p)
    <3>1. k - Len(p) \in 1..Len(r) /\ Len(p) + (k - Len(p)) = k
      BY <1>1, <1>4, <2>2
    <3>2. (p \o r)[Len(p) + (k - Len(p))] = r[k - Len(p)]
      BY <1>3, <3>1, Join
    <3> QED BY <1>6, <3>1, <3>2
  <2> QED BY <2>1, <2>2
<1>10. p \o r = q
  BY <1>7, <1>8, <1>9, SamePointer
<1> QED BY <1>3, <1>10 DEF r, Rest

LEMMA JoinRoot ==
  ASSUME NEW p \in Pointers
  PROVE  p \o << >> = p /\ << >> \o p = p
BY DEF Pointers

LEMMA JoinJoin ==
  ASSUME NEW p \in Pointers, NEW a \in Pointers, NEW b \in Pointers
  PROVE  p \o (a \o b) = (p \o a) \o b
BY ConcatAssociative DEF Pointers

LEMMA JoinCancels ==
  ASSUME NEW p \in Pointers, NEW a \in Pointers, NEW b \in Pointers, p \o a = p \o b
  PROVE  a = b
<1>1. Rest(p, p \o a) = a
  BY Join
<1>2. Rest(p, p \o b) = b
  BY Join
<1> QED BY <1>1, <1>2

LEMMA JoinPrefix ==
  ASSUME NEW p \in Pointers, NEW a \in Pointers, NEW b \in Pointers
  PROVE  IsPrefix(p \o a, p \o b) <=> IsPrefix(a, b)
<1>1. p \o a \in Pointers /\ p \o b \in Pointers
  BY Join
<1>2. ASSUME IsPrefix(a, b) PROVE IsPrefix(p \o a, p \o b)
  <2> DEFINE r == Rest(a, b)
  <2>1. r \in Pointers /\ a \o r = b
    BY <1>2, RestJoins
  <2> HIDE DEF r
  <2>2. p \o b = (p \o a) \o r
    BY <2>1, JoinJoin
  <2> QED BY <1>1, <2>1, <2>2, Join
<1>3. ASSUME IsPrefix(p \o a, p \o b) PROVE IsPrefix(a, b)
  <2> DEFINE r == Rest(p \o a, p \o b)
  <2>1. r \in Pointers /\ (p \o a) \o r = p \o b
    BY <1>1, <1>3, RestJoins
  <2> HIDE DEF r
  <2>2. a \o r \in Pointers /\ p \o (a \o r) = p \o b
    <3>1. p \o (a \o r) = (p \o a) \o r
      BY <2>1, JoinJoin
    <3>2. a \o r \in Pointers
      BY <2>1, Join
    <3> QED BY <2>1, <3>1, <3>2
  <2>3. a \o r = b
    BY <2>2, JoinCancels
  <2> QED BY <2>1, <2>3, Join
<1> QED BY <1>2, <1>3

\* A pointer other than the root starts with a key.
LEMMA FirstKey ==
  ASSUME NEW p \in Pointers, p # << >>
  PROVE  p[1] \in Names /\ <<p[1]>> \in Pointers /\ IsPrefix(<<p[1]>>, p) /\ <<p[1]>> # << >>
<1>1. Len(p) \in Nat /\ p[1] \in Names /\ 1 <= Len(p)
  BY DEF Pointers
<1>2. <<p[1]>> \in Pointers /\ Len(<<p[1]>>) = 1 /\ <<p[1]>>[1] = p[1] /\ 1..1 = {1}
  BY <1>1 DEF Pointers
<1>3. \A k \in 1..1 : <<p[1]>>[k] = p[k]
  BY <1>2
<1> QED BY <1>1, <1>2, <1>3, PrefixWhere

-----------------------------------------------------------------------------
(* Trees.                                                                  *)

LEMMA TreeNodes ==
  ASSUME NEW t, IsTree(t)
  PROVE  /\ t = [p \in DOMAIN t |-> t[p]]
         /\ DOMAIN t \subseteq Pointers
         /\ << >> \in DOMAIN t
         /\ \A p \in DOMAIN t : t[p] \in Leaves \cup {Table}
BY DEF IsTree

LEMMA TreeAbove ==
  ASSUME NEW t, IsTree(t), NEW p \in DOMAIN t, NEW q \in Pointers, IsPrefix(q, p)
  PROVE  q \in DOMAIN t /\ (q # p => t[q] = Table)
<1>1. p \in Pointers
  BY TreeNodes
<1>2. CASE q # p
  <2>1. q \in Above(p)
    BY <1>1, <1>2, AboveIs
  <2> QED BY <2>1 DEF IsTree
<1> QED BY <1>2

LEMMA TreeFrom ==
  ASSUME NEW t, t = [p \in DOMAIN t |-> t[p]], DOMAIN t \subseteq Pointers, << >> \in DOMAIN t,
         \A p \in DOMAIN t : t[p] \in Leaves \cup {Table},
         \A p \in DOMAIN t : \A q \in Pointers : IsPrefix(q, p) /\ q # p => q \in DOMAIN t /\ t[q] = Table
  PROVE  IsTree(t)
<1>1. ASSUME NEW p \in DOMAIN t, NEW q \in Above(p) PROVE q \in DOMAIN t /\ t[q] = Table
  <2>1. p \in Pointers
    OBVIOUS
  <2>2. q \in Pointers /\ IsPrefix(q, p) /\ q # p
    BY <2>1, AboveIs
  <2> QED BY <2>2
<1>2. t \in [DOMAIN t -> Leaves \cup {Table}]
  OBVIOUS
<1> QED BY <1>1, <1>2 DEF IsTree

LEMMA SameTree ==
  ASSUME NEW t, NEW u, t = [p \in DOMAIN t |-> t[p]], u = [p \in DOMAIN u |-> u[p]],
         DOMAIN t \subseteq Pointers, DOMAIN u \subseteq Pointers,
         \A p \in Pointers : (p \in DOMAIN t <=> p \in DOMAIN u) /\ (p \in DOMAIN t => t[p] = u[p])
  PROVE  t = u
<1>1. DOMAIN t = DOMAIN u
  OBVIOUS
<1>2. \A p \in DOMAIN t : t[p] = u[p]
  OBVIOUS
<1> QED BY <1>1, <1>2

LEMMA LeafIs ==
  ASSUME NEW v
  PROVE  /\ DOMAIN Leaf(v) = {<< >>} /\ Leaf(v)[<< >>] = v
         /\ (v \in Leaves \cup {Table} => IsTree(Leaf(v)))
<1>1. DOMAIN Leaf(v) = {<< >>} /\ Leaf(v)[<< >>] = v
  BY DEF Leaf
<1>2. ASSUME v \in Leaves \cup {Table} PROVE IsTree(Leaf(v))
  <2>1. Leaf(v) = [p \in DOMAIN Leaf(v) |-> Leaf(v)[p]]
    BY DEF Leaf
  <2>2. << >> \in Pointers
    BY DEF Pointers
  <2>3. \A q \in Pointers : IsPrefix(q, << >>) => q = << >>
    BY RootPrefix
  <2> HIDE DEF Leaf
  <2> QED BY <1>1, <1>2, <2>1, <2>2, <2>3, TreeFrom
<1> QED BY <1>1, <1>2

LEMMA EmptyIsDocument == IsDocument(Empty) /\ DOMAIN Empty = {<< >>}
BY LeafIs DEF IsDocument, Empty

\* The value at a pointer: its nodes are the ones below.
LEMMA ValueNodes ==
  ASSUME NEW t, IsTree(t), NEW p \in Pointers
  PROVE  /\ DOMAIN ValueAt(t, p) \subseteq Pointers
         /\ ValueAt(t, p) = [r \in DOMAIN ValueAt(t, p) |-> ValueAt(t, p)[r]]
         /\ \A r \in Pointers : r \in DOMAIN ValueAt(t, p) <=> p \o r \in DOMAIN t
         /\ \A r \in DOMAIN ValueAt(t, p) : ValueAt(t, p)[r] = t[p \o r]
<1> DEFINE D == {Rest(p, q) : q \in Below(t, p)}
<1>1. ValueAt(t, p) = [r \in D |-> t[p \o r]]
  BY DEF ValueAt
<1>2. ASSUME NEW r \in D PROVE r \in Pointers /\ p \o r \in DOMAIN t
  <2>1. PICK q \in Below(t, p) : r = Rest(p, q)
    OBVIOUS
  <2>2. q \in DOMAIN t /\ IsPrefix(p, q) /\ q \in Pointers
    BY TreeNodes DEF Below
  <2>3. Rest(p, q) \in Pointers /\ p \o Rest(p, q) = q
    BY <2>2, RestJoins
  <2> QED BY <2>1, <2>2, <2>3
<1>3. ASSUME NEW r \in Pointers, p \o r \in DOMAIN t PROVE r \in D
  <2>1. IsPrefix(p, p \o r) /\ Rest(p, p \o r) = r
    BY Join
  <2>2. p \o r \in Below(t, p)
    BY <1>3, <2>1 DEF Below
  <2> QED BY <2>1, <2>2
<1> HIDE DEF D
<1> QED BY <1>1, <1>2, <1>3

LEMMA ValueIsTree ==
  ASSUME NEW t, IsTree(t), NEW p \in DOMAIN t
  PROVE  IsTree(ValueAt(t, p)) /\ ValueAt(t, p)[<< >>] = t[p]
<1> DEFINE v == ValueAt(t, p)
<1>1. p \in Pointers
  BY TreeNodes
<1>2. /\ DOMAIN v \subseteq Pointers /\ v = [r \in DOMAIN v |-> v[r]]
      /\ \A r \in Pointers : r \in DOMAIN v <=> p \o r \in DOMAIN t
      /\ \A r \in DOMAIN v : v[r] = t[p \o r]
  BY <1>1, ValueNodes
<1> HIDE DEF v
<1>3. << >> \in Pointers /\ p \o << >> = p
  BY <1>1, JoinRoot DEF Pointers
<1>4. << >> \in DOMAIN v /\ v[<< >>] = t[p]
  BY <1>2, <1>3
<1>5. ASSUME NEW r \in DOMAIN v PROVE v[r] \in Leaves \cup {Table}
  BY <1>2, <1>5, TreeNodes
<1>6. ASSUME NEW r \in DOMAIN v, NEW q \in Pointers, IsPrefix(q, r), q # r
      PROVE  q \in DOMAIN v /\ v[q] = Table
  <2>1. r \in Pointers /\ p \o r \in DOMAIN t
    BY <1>2, <1>6
  <2>2. p \o q \in Pointers /\ IsPrefix(p \o q, p \o r)
    BY <1>1, <1>6, <2>1, Join, JoinPrefix
  <2>3. p \o q # p \o r
    BY <1>1, <1>6, <2>1, JoinCancels
  <2>4. p \o q \in DOMAIN t /\ t[p \o q] = Table
    BY <2>1, <2>2, <2>3, TreeAbove
  <2> QED BY <1>2, <1>6, <2>4
<1>7. IsTree(v)
  BY <1>2, <1>4, <1>5, <1>6, TreeFrom
<1> QED BY <1>4, <1>7 DEF v

LEMMA BelowIs ==
  ASSUME NEW t, IsTree(t), NEW p \in Pointers
  PROVE  /\ Below(t, p) = {q \in Pointers : q \in DOMAIN t /\ IsPrefix(p, q)}
         /\ (Below(t, p) = {} <=> p \notin DOMAIN t)
<1>1. Below(t, p) = {q \in Pointers : q \in DOMAIN t /\ IsPrefix(p, q)}
  BY TreeNodes DEF Below
<1>2. ASSUME NEW q \in Below(t, p) PROVE p \in DOMAIN t
  BY <1>2, TreeAbove DEF Below
<1>3. p \in DOMAIN t => p \in Below(t, p)
  BY PrefixReflexive DEF Below
<1> QED BY <1>1, <1>2, <1>3

\* Two trees have the same value at a pointer: they are the same below it.
AlikeBelow(t, u, p) ==
  \A q \in Pointers : IsPrefix(p, q) => (q \in DOMAIN t <=> q \in DOMAIN u) /\ (q \in DOMAIN t => t[q] = u[q])

LEMMA SameValue ==
  ASSUME NEW t, NEW u, IsTree(t), IsTree(u), NEW p \in Pointers
  PROVE  ValueAt(t, p) = ValueAt(u, p) <=> AlikeBelow(t, u, p)
<1> DEFINE v == ValueAt(t, p)
           w == ValueAt(u, p)
<1>1. /\ DOMAIN v \subseteq Pointers /\ v = [r \in DOMAIN v |-> v[r]]
      /\ \A r \in Pointers : r \in DOMAIN v <=> p \o r \in DOMAIN t
      /\ \A r \in DOMAIN v : v[r] = t[p \o r]
  BY ValueNodes
<1>2. /\ DOMAIN w \subseteq Pointers /\ w = [r \in DOMAIN w |-> w[r]]
      /\ \A r \in Pointers : r \in DOMAIN w <=> p \o r \in DOMAIN u
      /\ \A r \in DOMAIN w : w[r] = u[p \o r]
  BY ValueNodes
<1> HIDE DEF v, w
<1>3. ASSUME v = w, NEW q \in Pointers, IsPrefix(p, q)
      PROVE  (q \in DOMAIN t <=> q \in DOMAIN u) /\ (q \in DOMAIN t => t[q] = u[q])
  <2>1. PICK r \in Pointers : p \o r = q
    BY <1>3, RestJoins
  <2> QED BY <1>1, <1>2, <1>3, <2>1
<1>4. ASSUME AlikeBelow(t, u, p) PROVE v = w
  <2>1. ASSUME NEW r \in Pointers
        PROVE  (r \in DOMAIN v <=> r \in DOMAIN w) /\ (r \in DOMAIN v => v[r] = w[r])
    <3>1. p \o r \in Pointers /\ IsPrefix(p, p \o r)
      BY Join
    <3>2. (p \o r \in DOMAIN t <=> p \o r \in DOMAIN u) /\ (p \o r \in DOMAIN t => t[p \o r] = u[p \o r])
      BY <1>4, <3>1 DEF AlikeBelow
    <3> QED BY <1>1, <1>2, <3>2
  <2> QED BY <1>1, <1>2, <2>1, SameTree
<1> QED BY <1>3, <1>4 DEF v, w, AlikeBelow

\* The value at a pointer is v.
LEMMA ValueWhere ==
  ASSUME NEW t, IsTree(t), NEW p \in Pointers, NEW v, IsTree(v)
  PROVE  ValueAt(t, p) = v <=>
           \A r \in Pointers : (p \o r \in DOMAIN t <=> r \in DOMAIN v) /\ (r \in DOMAIN v => t[p \o r] = v[r])
<1> DEFINE w == ValueAt(t, p)
<1>1. /\ DOMAIN w \subseteq Pointers /\ w = [r \in DOMAIN w |-> w[r]]
      /\ \A r \in Pointers : r \in DOMAIN w <=> p \o r \in DOMAIN t
      /\ \A r \in DOMAIN w : w[r] = t[p \o r]
  BY ValueNodes
<1>2. v = [r \in DOMAIN v |-> v[r]] /\ DOMAIN v \subseteq Pointers
  BY TreeNodes
<1> HIDE DEF w
<1>3. w = v => \A r \in Pointers : (p \o r \in DOMAIN t <=> r \in DOMAIN v) /\ (r \in DOMAIN v => t[p \o r] = v[r])
  BY <1>1
<1>4. ASSUME \A r \in Pointers : (p \o r \in DOMAIN t <=> r \in DOMAIN v) /\ (r \in DOMAIN v => t[p \o r] = v[r])
      PROVE  w = v
  BY <1>1, <1>2, <1>4, SameTree
<1> QED BY <1>3, <1>4 DEF w

\* Values are read piece by piece.
LEMMA ValueOfValue ==
  ASSUME NEW t, IsTree(t), NEW p \in DOMAIN t, NEW k \in Pointers
  PROVE  ValueAt(ValueAt(t, p), k) = ValueAt(t, p \o k)
<1> DEFINE v == ValueAt(t, p)
           a == ValueAt(v, k)
           b == ValueAt(t, p \o k)
<1>1. p \in Pointers /\ p \o k \in Pointers
  BY TreeNodes, Join
<1>2. /\ \A r \in Pointers : r \in DOMAIN v <=> p \o r \in DOMAIN t
      /\ \A r \in DOMAIN v : v[r] = t[p \o r]
  BY <1>1, ValueNodes
<1>3. IsTree(v)
  BY ValueIsTree
<1> HIDE DEF v
<1>4. /\ DOMAIN a \subseteq Pointers /\ a = [r \in DOMAIN a |-> a[r]]
      /\ \A r \in Pointers : r \in DOMAIN a <=> k \o r \in DOMAIN v
      /\ \A r \in DOMAIN a : a[r] = v[k \o r]
  BY <1>3, ValueNodes
<1>5. /\ DOMAIN b \subseteq Pointers /\ b = [r \in DOMAIN b |-> b[r]]
      /\ \A r \in Pointers : r \in DOMAIN b <=> (p \o k) \o r \in DOMAIN t
      /\ \A r \in DOMAIN b : b[r] = t[(p \o k) \o r]
  BY <1>1, ValueNodes
<1> HIDE DEF a, b
<1>6. ASSUME NEW r \in Pointers
      PROVE  (r \in DOMAIN a <=> r \in DOMAIN b) /\ (r \in DOMAIN a => a[r] = b[r])
  <2>1. k \o r \in Pointers /\ p \o (k \o r) = (p \o k) \o r
    <3>1. k \o r \in Pointers
      BY Join
    <3> QED BY <1>1, <3>1, JoinJoin
  <2> QED BY <1>2, <1>4, <1>5, <2>1
<1>7. a = b
  BY <1>4, <1>5, <1>6, SameTree
<1> QED BY <1>7 DEF a, b, v

-----------------------------------------------------------------------------
(* What is written to a document, removed from it and withdrawn from it.   *)

LEMMA WithoutNodes ==
  ASSUME NEW t, IsDocument(t), NEW p \in Pointers \ {<< >>}
  PROVE  /\ IsDocument(Without(t, p))
         /\ \A q \in Pointers : q \in DOMAIN Without(t, p) <=> q \in DOMAIN t /\ ~IsPrefix(p, q)
         /\ \A q \in DOMAIN Without(t, p) : Without(t, p)[q] = t[q]
<1> DEFINE u == Without(t, p)
<1>1. IsTree(t) /\ t[<< >>] = Table
  BY DEF IsDocument
<1>2. u = [q \in DOMAIN u |-> u[q]] /\ DOMAIN u = DOMAIN t \ Below(t, p) /\ \A q \in DOMAIN u : u[q] = t[q]
  BY DEF Without, Restrict
<1>3. \A q \in Pointers : q \in DOMAIN u <=> q \in DOMAIN t /\ ~IsPrefix(p, q)
  BY <1>1, <1>2, BelowIs
<1>4. DOMAIN u \subseteq Pointers
  BY <1>1, <1>2, TreeNodes
<1> HIDE DEF u
<1>5. << >> \in DOMAIN u /\ u[<< >>] = Table
  <2>1. << >> \in DOMAIN t /\ << >> \in Pointers /\ ~IsPrefix(p, << >>)
    BY <1>1, TreeNodes, RootPrefix
  <2> QED BY <1>1, <1>2, <1>3, <2>1
<1>6. \A q \in DOMAIN u : u[q] \in Leaves \cup {Table}
  BY <1>1, <1>2, TreeNodes
<1>7. ASSUME NEW q \in DOMAIN u, NEW x \in Pointers, IsPrefix(x, q), x # q PROVE x \in DOMAIN u /\ u[x] = Table
  <2>1. q \in DOMAIN t /\ q \in Pointers /\ ~IsPrefix(p, q)
    BY <1>3, <1>4
  <2>2. x \in DOMAIN t /\ t[x] = Table
    BY <1>1, <1>7, <2>1, TreeAbove
  <2>3. ~IsPrefix(p, x)
    BY <1>7, <2>1, PrefixTransitive
  <2> QED BY <1>2, <1>3, <2>2, <2>3
<1>8. IsTree(u)
  BY <1>2, <1>4, <1>5, <1>6, <1>7, TreeFrom
<1> QED BY <1>2, <1>3, <1>5, <1>8 DEF u, IsDocument

\* A value can be put at a pointer: what is above it is tables.
Open(t, p) == \A q \in Above(p) \cap DOMAIN t : t[q] = Table

LEMMA PutNodes ==
  ASSUME NEW t, IsDocument(t), NEW p \in Pointers \ {<< >>}, Open(t, p), NEW v, IsTree(v)
  PROVE  /\ IsDocument(Put(t, p, v)) /\ ValueAt(Put(t, p, v), p) = v
         /\ \A q \in Pointers : ~IsPrefix(p, q) =>
              /\ q \in DOMAIN Put(t, p, v) <=> q \in DOMAIN t \/ q \in Above(p)
              /\ q \in DOMAIN Put(t, p, v) => Put(t, p, v)[q] = IF q \in DOMAIN t THEN t[q] ELSE Table
<1> DEFINE u == Put(t, p, v)
           D == {p \o r : r \in DOMAIN v}
           W == DOMAIN Without(t, p)
<1>1. IsTree(t) /\ t[<< >>] = Table
  BY DEF IsDocument
<1>2. /\ DOMAIN u = D \cup W \cup Above(p) /\ u = [q \in DOMAIN u |-> u[q]]
      /\ \A q \in DOMAIN u : u[q] = IF IsPrefix(p, q) THEN v[Rest(p, q)] ELSE IF q \in DOMAIN t THEN t[q] ELSE Table
  BY DEF Put
<1>3. W \subseteq Pointers /\ \A q \in Pointers : q \in W <=> q \in DOMAIN t /\ ~IsPrefix(p, q)
  BY <1>1, WithoutNodes, TreeNodes DEF IsDocument
<1>4. Above(p) = {q \in Pointers : IsPrefix(q, p) /\ q # p}
  BY AboveIs
<1>5. DOMAIN v \subseteq Pointers /\ << >> \in DOMAIN v /\ \A r \in DOMAIN v : v[r] \in Leaves \cup {Table}
  BY TreeNodes
<1>6. \A r \in Pointers : p \o r \in Pointers /\ IsPrefix(p, p \o r) /\ Rest(p, p \o r) = r
  BY Join
<1> HIDE DEF u, W
<1>7. DOMAIN u \subseteq Pointers
  <2>1. D \subseteq Pointers
    BY <1>5, <1>6
  <2>2. Above(p) \subseteq Pointers
    BY <1>4
  <2> HIDE DEF D
  <2> QED BY <1>2, <1>3, <2>1, <2>2
<1>8. ASSUME NEW q \in Pointers, ~IsPrefix(p, q)
      PROVE  /\ q \in DOMAIN u <=> q \in DOMAIN t \/ q \in Above(p)
             /\ q \in DOMAIN u => u[q] = IF q \in DOMAIN t THEN t[q] ELSE Table
  <2>1. q \notin D
    BY <1>5, <1>6, <1>8
  <2> QED BY <1>2, <1>3, <1>8, <2>1
<1>9. ASSUME NEW r \in Pointers
      PROVE  (p \o r \in DOMAIN u <=> r \in DOMAIN v) /\ (r \in DOMAIN v => u[p \o r] = v[r])
  <2>1. p \o r \in Pointers /\ IsPrefix(p, p \o r) /\ Rest(p, p \o r) = r
    BY <1>6
  <2>2. p \o r \notin W
    BY <1>3, <2>1
  <2>3. p \o r \notin Above(p)
    BY <1>4, <2>1, PrefixAntisymmetric
  <2>4. p \o r \in D <=> r \in DOMAIN v
    BY <1>5, JoinCancels
  <2>5. p \o r \in DOMAIN u <=> r \in DOMAIN v
    BY <1>2, <2>2, <2>3, <2>4
  <2> QED BY <1>2, <2>1, <2>5
<1> HIDE DEF D
<1>10. << >> \in DOMAIN u /\ u[<< >>] = Table
  <2>1. << >> \in Pointers /\ ~IsPrefix(p, << >>) /\ << >> \in DOMAIN t
    BY <1>1, RootPrefix, TreeNodes
  <2> QED BY <1>1, <1>8, <2>1
<1>11. ASSUME NEW q \in DOMAIN u PROVE u[q] \in Leaves \cup {Table}
  <2>1. CASE IsPrefix(p, q)
    <3>1. PICK r \in Pointers : p \o r = q
      BY <1>7, <2>1, RestJoins
    <3> QED BY <1>5, <1>9, <3>1
  <2>2. CASE ~IsPrefix(p, q)
    BY <1>1, <1>7, <1>8, <2>2, TreeNodes
  <2> QED BY <2>1, <2>2
<1>12. ASSUME NEW q \in DOMAIN u, NEW x \in Pointers, IsPrefix(x, q), x # q PROVE x \in DOMAIN u /\ u[x] = Table
  <2>0. q \in Pointers
    BY <1>7
  <2>1. CASE IsPrefix(p, x)
    <3>1. IsPrefix(p, q)
      BY <1>12, <2>0, <2>1, PrefixTransitive
    <3>2. PICK r \in Pointers : p \o r = q
      BY <2>0, <3>1, RestJoins
    <3>3. PICK y \in Pointers : p \o y = x
      BY <2>1, RestJoins
    <3>4. IsPrefix(y, r) /\ y # r
      BY <1>12, <3>2, <3>3, JoinPrefix
    <3>5. r \in DOMAIN v
      BY <1>9, <3>2
    <3>6. y \in DOMAIN v /\ v[y] = Table
      BY <3>4, <3>5, TreeAbove
    <3> QED BY <1>9, <3>3, <3>6
  <2>2. CASE ~IsPrefix(p, x) /\ ~IsPrefix(p, q)
    <3>1. CASE q \in DOMAIN t
      <4>1. x \in DOMAIN t /\ t[x] = Table
        BY <1>1, <1>12, <3>1, TreeAbove
      <4> QED BY <1>8, <2>2, <4>1
    <3>2. CASE q \in Above(p)
      <4>1. x \in Above(p)
        <5>1. IsPrefix(q, p) /\ q # p
          BY <1>4, <3>2
        <5>2. IsPrefix(x, p)
          BY <1>12, <2>0, <5>1, PrefixTransitive
        <5>3. x # p
          BY <2>2, PrefixReflexive
        <5> QED BY <1>4, <5>2, <5>3
      <4> QED BY <1>8, <2>2, <4>1 DEF Open
    <3> QED BY <1>8, <2>0, <2>2, <3>1, <3>2
  <2>3. CASE ~IsPrefix(p, x) /\ IsPrefix(p, q)
    <3>1. IsPrefix(x, p)
      BY <1>12, <2>0, <2>3, PrefixesMeet
    <3>2. x # p
      BY <2>3, PrefixReflexive
    <3>3. x \in Above(p)
      BY <1>4, <3>1, <3>2
    <3> QED BY <1>8, <2>3, <3>3 DEF Open
  <2> QED BY <2>1, <2>2, <2>3
<1>13. IsTree(u)
  BY <1>2, <1>7, <1>10, <1>11, <1>12, TreeFrom
<1>14. ValueAt(u, p) = v
  BY <1>9, <1>13, ValueWhere
<1> QED BY <1>8, <1>10, <1>13, <1>14 DEF u, IsDocument

LEMMA WithdrawnNodes ==
  ASSUME NEW t, IsDocument(t), NEW p \in Pointers \ {<< >>}
  PROVE  /\ IsDocument(Withdrawn(t, p))
         /\ \A q \in Pointers : q \in DOMAIN Withdrawn(t, p) <=>
              /\ q \in DOMAIN t /\ ~IsPrefix(p, q)
              /\ q \in Above(p) \ {<< >>} => \E r \in Below(t, q) : ~Touches(r, p)
         /\ \A q \in DOMAIN Withdrawn(t, p) : Withdrawn(t, p)[q] = t[q]
<1> DEFINE u == Withdrawn(t, p)
           emptied == {q \in Above(p) \ {<< >>} : \A r \in Below(t, q) : Touches(r, p)}
<1>1. IsTree(t) /\ t[<< >>] = Table
  BY DEF IsDocument
<1>2. /\ u = [q \in DOMAIN u |-> u[q]] /\ DOMAIN u = DOMAIN t \ (Below(t, p) \cup emptied)
      /\ \A q \in DOMAIN u : u[q] = t[q]
  BY DEF Withdrawn, Restrict
<1> HIDE DEF u
<1>3. \A q \in Pointers : q \in DOMAIN u <=>
         /\ q \in DOMAIN t /\ ~IsPrefix(p, q)
         /\ q \in Above(p) \ {<< >>} => \E r \in Below(t, q) : ~Touches(r, p)
  BY <1>1, <1>2, BelowIs
<1>4. DOMAIN u \subseteq Pointers
  BY <1>1, <1>2, TreeNodes
<1> HIDE DEF emptied
<1>5. << >> \in DOMAIN u /\ u[<< >>] = Table
  <2>1. << >> \in DOMAIN t /\ << >> \in Pointers /\ ~IsPrefix(p, << >>)
    BY <1>1, TreeNodes, RootPrefix
  <2> QED BY <1>1, <1>2, <1>3, <2>1
<1>6. \A q \in DOMAIN u : u[q] \in Leaves \cup {Table}
  BY <1>1, <1>2, TreeNodes
<1>7. ASSUME NEW q \in DOMAIN u, NEW x \in Pointers, IsPrefix(x, q), x # q PROVE x \in DOMAIN u /\ u[x] = Table
  <2>1. q \in DOMAIN t /\ q \in Pointers /\ ~IsPrefix(p, q)
    BY <1>3, <1>4
  <2>2. x \in DOMAIN t /\ t[x] = Table
    BY <1>1, <1>7, <2>1, TreeAbove
  <2>3. ~IsPrefix(p, x)
    BY <1>7, <2>1, PrefixTransitive
  <2>4. ASSUME x \in Above(p) \ {<< >>} PROVE \E r \in Below(t, x) : ~Touches(r, p)
    <3>1. CASE ~Touches(q, p)
      <4>1. q \in Below(t, x)
        BY <1>7, <2>1 DEF Below
      <4> QED BY <3>1, <4>1
    <3>2. CASE Touches(q, p)
      <4>1. IsPrefix(q, p) /\ q # p
        BY <2>1, <3>2, PrefixReflexive DEF Touches
      <4>2. q # << >>
        BY <1>7, RootPrefix
      <4>3. q \in Above(p) \ {<< >>}
        BY <2>1, <4>1, <4>2, AboveIs
      <4>4. PICK r \in Below(t, q) : ~Touches(r, p)
        BY <1>3, <2>1, <4>3
      <4>5. r \in DOMAIN t /\ IsPrefix(q, r) /\ r \in Pointers
        BY <1>1, <2>1, <4>4, BelowIs
      <4>6. IsPrefix(x, r)
        BY <1>7, <2>1, <4>5, PrefixTransitive
      <4>7. r \in Below(t, x)
        BY <4>5, <4>6 DEF Below
      <4> QED BY <4>4, <4>7
    <3> QED BY <3>1, <3>2
  <2> QED BY <1>2, <1>3, <2>2, <2>3, <2>4
<1>8. IsTree(u)
  BY <1>2, <1>4, <1>5, <1>6, <1>7, TreeFrom
<1>9. IsDocument(u)
  BY <1>5, <1>8 DEF IsDocument
<1> QED BY <1>2, <1>3, <1>9 DEF u

-----------------------------------------------------------------------------
(* Recursive definitions.                                                  *)

LEMMA LessThanIsWellFounded == IsWellFoundedOn({ss \in Nat \X Nat : ss[1] < ss[2]}, Nat)
BY NatLessThanWellFounded DEF OpToRel

\* A set with zero, and with n + 1 whenever it has n, has every natural number.
THEOREM NatSetInduction ==
  ASSUME NEW T, 0 \in T, \A n \in Nat : n \in T => n + 1 \in T
  PROVE  Nat \subseteq T
<1> DEFINE R == {ss \in Nat \X Nat : ss[1] < ss[2]}
           Others == Nat \ T
<1> SUFFICES ASSUME Others # {} PROVE FALSE
  OBVIOUS
<1>1. IsWellFoundedOn(R, Nat) /\ Others \subseteq Nat
  BY LessThanIsWellFounded
<1> HIDE DEF R, Others
<1>2. PICK n \in Others : \A m \in Others : <<m, n>> \notin R
  BY <1>1, WFMin
<1> USE DEF R, Others
<1>3. n \in Nat /\ n # 0 /\ n - 1 \in Nat /\ n - 1 < n /\ (n - 1) + 1 = n
  BY <1>2
<1>4. n - 1 \in T
  <2>1. <<n - 1, n>> \in R
    BY <1>3
  <2>2. n - 1 \notin Others
    BY <1>2, <2>1
  <2> QED BY <1>3, <2>2
<1> QED BY <1>2, <1>3, <1>4

\* Extended, one entry at a time.
LEMMA ExtendedSteps ==
  ASSUME NEW list, NEW more, Len(more) \in Nat
  PROVE  \E g : /\ Extended(list, more) = g[Len(more)] /\ g[0] = list
               /\ \A n \in 1..Len(more) : g[n] = IF more[n] \in ToSet(g[n - 1]) THEN g[n - 1] ELSE Append(g[n - 1], more[n])
<1> DEFINE Def(g, n) == IF n = 0 THEN list ELSE IF more[n] \in ToSet(g[n - 1]) THEN g[n - 1] ELSE Append(g[n - 1], more[n])
           Solves(g, m) == g = [n \in 0..m |-> Def(g, n)]
           Solved == {m \in Nat : \E g : Solves(g, m)}
<1>1. 0 \in Solved
  <2> DEFINE g == [n \in 0..0 |-> list]
  <2>1. Solves(g, 0)
    OBVIOUS
  <2> QED BY <2>1
<1>2. ASSUME NEW m \in Nat, m \in Solved PROVE m + 1 \in Solved
  <2>1. PICK g : Solves(g, m)
    BY <1>2
  <2> DEFINE h == [n \in 0..m + 1 |-> IF n = m + 1 THEN Def(g, n) ELSE g[n]]
  <2>2. ASSUME NEW n \in 0..m + 1 PROVE h[n] = Def(h, n)
    <3>1. CASE n = 0
      <4>1. h[0] = g[0] /\ g[0] = Def(g, 0)
        BY <2>1
      <4> QED BY <3>1, <4>1
    <3>2. CASE n # 0 /\ n # m + 1
      <4>1. n \in 0..m /\ n - 1 \in 0..m /\ n - 1 # m + 1
        BY <3>2
      <4>2. h[n] = g[n]
        BY <3>2
      <4>3. h[n - 1] = g[n - 1]
        <5>1. n - 1 \in 0..m + 1
          BY <4>1
        <5> QED BY <4>1, <5>1
      <4>4. g[n] = Def(g, n)
        <5> HIDE DEF Def
        <5> QED BY <2>1, <4>1
      <4> QED BY <3>2, <4>2, <4>3, <4>4
    <3>3. CASE n = m + 1
      <4>1. n # 0 /\ n - 1 \in 0..m + 1 /\ n - 1 # m + 1
        BY <3>3
      <4>2. h[n] = Def(g, n) /\ h[n - 1] = g[n - 1]
        BY <3>3, <4>1
      <4> QED BY <4>1, <4>2
    <3> QED BY <3>1, <3>2, <3>3
  <2> HIDE DEF Def
  <2>3. h = [n \in 0..m + 1 |-> h[n]]
    OBVIOUS
  <2>4. Solves(h, m + 1)
    <3> HIDE DEF h
    <3> QED BY <2>2, <2>3
  <2> HIDE DEF Solves
  <2> QED BY <2>4
<1> HIDE DEF Solved
<1>3. \E g : Solves(g, Len(more))
  BY <1>1, <1>2, NatSetInduction DEF Solved
<1> DEFINE f == CHOOSE g : Solves(g, Len(more))
<1>4. Extended(list, more) = f[Len(more)]
  BY DEF Extended
<1>5. Solves(f, Len(more))
  <2> HIDE DEF Solves
  <2> QED BY <1>3
<1> HIDE DEF f
<1>6. ASSUME NEW n \in 0..Len(more) PROVE f[n] = Def(f, n)
  <2> HIDE DEF Def
  <2> QED BY <1>5
<1>7. 0 \in 0..Len(more) /\ \A n \in 1..Len(more) : n \in 0..Len(more) /\ n # 0
  OBVIOUS
<1> HIDE DEF Solves
<1> QED BY <1>4, <1>6, <1>7

AppliedToEach(docs, op) == {Applied(d, op) : d \in {d \in docs : Applies(d, op)}}

AppliedInSteps(g, t, ops) ==
  /\ AppliedAll(t, ops) = g[Len(ops)] /\ g[0] = {t}
  /\ \A n \in 1..Len(ops) : g[n] = AppliedToEach(g[n - 1], ops[n])

\* AppliedAll, one operation at a time.
LEMMA AppliedSteps ==
  ASSUME NEW t, NEW ops, Len(ops) \in Nat
  PROVE  \E g : AppliedInSteps(g, t, ops)
<1> DEFINE Def(g, n) == IF n = 0 THEN {t} ELSE AppliedToEach(g[n - 1], ops[n])
           Solves(g, m) == g = [n \in 0..m |-> Def(g, n)]
           Solved == {m \in Nat : \E g : Solves(g, m)}
<1>1. 0 \in Solved
  <2> DEFINE g == [n \in 0..0 |-> {t}]
  <2>1. Solves(g, 0)
    OBVIOUS
  <2> QED BY <2>1
<1>2. ASSUME NEW m \in Nat, m \in Solved PROVE m + 1 \in Solved
  <2>1. PICK g : Solves(g, m)
    BY <1>2
  <2> DEFINE h == [n \in 0..m + 1 |-> IF n = m + 1 THEN Def(g, n) ELSE g[n]]
  <2>2. ASSUME NEW n \in 0..m + 1 PROVE h[n] = Def(h, n)
    <3>1. CASE n = 0
      <4>1. h[0] = g[0] /\ g[0] = Def(g, 0)
        BY <2>1
      <4> QED BY <3>1, <4>1
    <3>2. CASE n # 0 /\ n # m + 1
      <4>1. n \in 0..m /\ n - 1 \in 0..m /\ n - 1 # m + 1
        BY <3>2
      <4>2. h[n] = g[n]
        BY <3>2
      <4>3. h[n - 1] = g[n - 1]
        <5>1. n - 1 \in 0..m + 1
          BY <4>1
        <5> QED BY <4>1, <5>1
      <4>4. g[n] = Def(g, n)
        <5> HIDE DEF Def
        <5> QED BY <2>1, <4>1
      <4> QED BY <3>2, <4>2, <4>3, <4>4
    <3>3. CASE n = m + 1
      <4>1. n # 0 /\ n - 1 \in 0..m + 1 /\ n - 1 # m + 1
        BY <3>3
      <4>2. h[n] = Def(g, n) /\ h[n - 1] = g[n - 1]
        BY <3>3, <4>1
      <4> QED BY <4>1, <4>2
    <3> QED BY <3>1, <3>2, <3>3
  <2> HIDE DEF Def
  <2>3. h = [n \in 0..m + 1 |-> h[n]]
    OBVIOUS
  <2>4. Solves(h, m + 1)
    <3> HIDE DEF h
    <3> QED BY <2>2, <2>3
  <2> HIDE DEF Solves
  <2> QED BY <2>4
<1> HIDE DEF Solved
<1>3. \E g : Solves(g, Len(ops))
  BY <1>1, <1>2, NatSetInduction DEF Solved
<1> DEFINE f == CHOOSE g : Solves(g, Len(ops))
<1>4. AppliedAll(t, ops) = f[Len(ops)]
  BY DEF AppliedAll, AppliedToEach
<1>5. Solves(f, Len(ops))
  <2> HIDE DEF Solves
  <2> QED BY <1>3
<1> HIDE DEF f
<1>6. ASSUME NEW n \in 0..Len(ops) PROVE f[n] = Def(f, n)
  <2> HIDE DEF Def
  <2> QED BY <1>5
<1>7. 0 \in 0..Len(ops) /\ \A n \in 1..Len(ops) : n \in 0..Len(ops) /\ n # 0
  OBVIOUS
<1> HIDE DEF Solves
<1>8. AppliedInSteps(f, t, ops)
  BY <1>4, <1>6, <1>7 DEF AppliedInSteps
<1> QED BY <1>8

WithdrawnInSteps(g, q, stale) ==
  /\ Reconciled(q) = g[Len(stale)] /\ g[0] = doc
  /\ \A n \in 1..Len(stale) :
       g[n] = IF stale[n] \in DOMAIN g[n - 1] THEN Withdrawn(g[n - 1], stale[n]) ELSE g[n - 1]

\* Reconciled, one stale pointer at a time.
LEMMA WithdrawSteps ==
  ASSUME NEW q, NEW stale, stale = SetToSeq(DOMAIN owned \ DOMAIN Generated(q)), Len(stale) \in Nat
  PROVE  \E g : WithdrawnInSteps(g, q, stale)
<1> DEFINE Def(g, n) == IF n = 0 THEN doc ELSE IF stale[n] \in DOMAIN g[n - 1] THEN Withdrawn(g[n - 1], stale[n]) ELSE g[n - 1]
           Solves(g, m) == g = [n \in 0..m |-> Def(g, n)]
           Solved == {m \in Nat : \E g : Solves(g, m)}
<1>1. 0 \in Solved
  <2> DEFINE g == [n \in 0..0 |-> doc]
  <2>1. Solves(g, 0)
    OBVIOUS
  <2> QED BY <2>1
<1>2. ASSUME NEW m \in Nat, m \in Solved PROVE m + 1 \in Solved
  <2>1. PICK g : Solves(g, m)
    BY <1>2
  <2> DEFINE h == [n \in 0..m + 1 |-> IF n = m + 1 THEN Def(g, n) ELSE g[n]]
  <2>2. ASSUME NEW n \in 0..m + 1 PROVE h[n] = Def(h, n)
    <3>1. CASE n = 0
      <4>1. h[0] = g[0] /\ g[0] = Def(g, 0)
        BY <2>1
      <4> QED BY <3>1, <4>1
    <3>2. CASE n # 0 /\ n # m + 1
      <4>1. n \in 0..m /\ n - 1 \in 0..m /\ n - 1 # m + 1
        BY <3>2
      <4>2. h[n] = g[n]
        BY <3>2
      <4>3. h[n - 1] = g[n - 1]
        <5>1. n - 1 \in 0..m + 1
          BY <4>1
        <5> QED BY <4>1, <5>1
      <4>4. g[n] = Def(g, n)
        <5> HIDE DEF Def
        <5> QED BY <2>1, <4>1
      <4> QED BY <3>2, <4>2, <4>3, <4>4
    <3>3. CASE n = m + 1
      <4>1. n # 0 /\ n - 1 \in 0..m + 1 /\ n - 1 # m + 1
        BY <3>3
      <4>2. h[n] = Def(g, n) /\ h[n - 1] = g[n - 1]
        BY <3>3, <4>1
      <4> QED BY <4>1, <4>2
    <3> QED BY <3>1, <3>2, <3>3
  <2> HIDE DEF Def
  <2>3. h = [n \in 0..m + 1 |-> h[n]]
    OBVIOUS
  <2>4. Solves(h, m + 1)
    <3> HIDE DEF h
    <3> QED BY <2>2, <2>3
  <2> HIDE DEF Solves
  <2> QED BY <2>4
<1> HIDE DEF Solved
<1>3. \E g : Solves(g, Len(stale))
  BY <1>1, <1>2, NatSetInduction DEF Solved
<1> DEFINE f == CHOOSE g : Solves(g, Len(stale))
<1>4. Reconciled(q) = f[Len(stale)]
  BY DEF Reconciled
<1>5. Solves(f, Len(stale))
  <2> HIDE DEF Solves
  <2> QED BY <1>3
<1> HIDE DEF f
<1>6. ASSUME NEW n \in 0..Len(stale) PROVE f[n] = Def(f, n)
  <2> HIDE DEF Def
  <2> QED BY <1>5
<1>7. 0 \in 0..Len(stale) /\ \A n \in 1..Len(stale) : n \in 0..Len(stale) /\ n # 0
  OBVIOUS
<1> HIDE DEF Solves
<1>8. WithdrawnInSteps(f, q, stale)
  BY <1>4, <1>6, <1>7 DEF WithdrawnInSteps
<1> QED BY <1>8

\* Kept, one entry at a time.
LEMMA KeptSteps ==
  ASSUME NEW s, NEW S, Len(s) \in Nat
  PROVE  \E g : /\ Kept(s, S) = g[Len(s)] /\ g[0] = << >>
               /\ \A n \in 1..Len(s) : g[n] = IF s[n] \in S THEN Append(g[n - 1], s[n]) ELSE g[n - 1]
<1> DEFINE Def(g, n) == IF n = 0 THEN << >> ELSE IF s[n] \in S THEN Append(g[n - 1], s[n]) ELSE g[n - 1]
           Solves(g, m) == g = [n \in 0..m |-> Def(g, n)]
           Solved == {m \in Nat : \E g : Solves(g, m)}
<1>1. 0 \in Solved
  <2> DEFINE g == [n \in 0..0 |-> << >>]
  <2>1. Solves(g, 0)
    OBVIOUS
  <2> QED BY <2>1
<1>2. ASSUME NEW m \in Nat, m \in Solved PROVE m + 1 \in Solved
  <2>1. PICK g : Solves(g, m)
    BY <1>2
  <2> DEFINE h == [n \in 0..m + 1 |-> IF n = m + 1 THEN Def(g, n) ELSE g[n]]
  <2>2. ASSUME NEW n \in 0..m + 1 PROVE h[n] = Def(h, n)
    <3>1. CASE n = 0
      <4>1. h[0] = g[0] /\ g[0] = Def(g, 0)
        BY <2>1
      <4> QED BY <3>1, <4>1
    <3>2. CASE n # 0 /\ n # m + 1
      <4>1. n \in 0..m /\ n - 1 \in 0..m /\ n - 1 # m + 1
        BY <3>2
      <4>2. h[n] = g[n]
        BY <3>2
      <4>3. h[n - 1] = g[n - 1]
        <5>1. n - 1 \in 0..m + 1
          BY <4>1
        <5> QED BY <4>1, <5>1
      <4>4. g[n] = Def(g, n)
        <5> HIDE DEF Def
        <5> QED BY <2>1, <4>1
      <4> QED BY <3>2, <4>2, <4>3, <4>4
    <3>3. CASE n = m + 1
      <4>1. n # 0 /\ n - 1 \in 0..m + 1 /\ n - 1 # m + 1
        BY <3>3
      <4>2. h[n] = Def(g, n) /\ h[n - 1] = g[n - 1]
        BY <3>3, <4>1
      <4> QED BY <4>1, <4>2
    <3> QED BY <3>1, <3>2, <3>3
  <2> HIDE DEF Def
  <2>3. h = [n \in 0..m + 1 |-> h[n]]
    OBVIOUS
  <2>4. Solves(h, m + 1)
    <3> HIDE DEF h
    <3> QED BY <2>2, <2>3
  <2> HIDE DEF Solves
  <2> QED BY <2>4
<1> HIDE DEF Solved
<1>3. \E g : Solves(g, Len(s))
  BY <1>1, <1>2, NatSetInduction DEF Solved
<1> DEFINE f == CHOOSE g : Solves(g, Len(s))
<1>4. Kept(s, S) = f[Len(s)]
  BY DEF Kept, KeptUpTo
<1>5. Solves(f, Len(s))
  <2> HIDE DEF Solves
  <2> QED BY <1>3
<1> HIDE DEF f
<1>6. ASSUME NEW n \in 0..Len(s) PROVE f[n] = Def(f, n)
  <2> HIDE DEF Def
  <2> QED BY <1>5
<1>7. 0 \in 0..Len(s) /\ \A n \in 1..Len(s) : n \in 0..Len(s) /\ n # 0
  OBVIOUS
<1> HIDE DEF Solves
<1> QED BY <1>4, <1>6, <1>7

-----------------------------------------------------------------------------
(* Lists.                                                                  *)

LEMMA EntriesOfAppend ==
  ASSUME NEW A, NEW s \in Seq(A), NEW x \in A
  PROVE  /\ ToSet(Append(s, x)) = ToSet(s) \cup {x}
         /\ Unrepeated(Append(s, x)) <=> Unrepeated(s) /\ x \notin ToSet(s)
<1> DEFINE t == Append(s, x)
<1>1. /\ t \in Seq(A) /\ Len(t) = Len(s) + 1 /\ t[Len(s) + 1] = x /\ Len(s) \in Nat
      /\ \A i \in 1..Len(s) : t[i] = s[i]
  OBVIOUS
<1>2. DOMAIN s = 1..Len(s) /\ DOMAIN t = 1..Len(s) + 1
  BY <1>1
<1>3. \A i \in 1..Len(s) + 1 : i = Len(s) + 1 \/ i \in 1..Len(s)
  BY <1>1
<1>4. \A i \in 1..Len(s) : i \in 1..Len(s) + 1 /\ i # Len(s) + 1
  BY <1>1
<1>5. Len(s) + 1 \in 1..Len(s) + 1
  BY <1>1
<1> HIDE DEF t
<1>6. ToSet(t) = ToSet(s) \cup {x}
  BY <1>1, <1>2, <1>3, <1>4, <1>5 DEF ToSet
<1>7. Unrepeated(t) <=> Unrepeated(s) /\ x \notin ToSet(s)
  <2>1. ASSUME Unrepeated(t) PROVE Unrepeated(s) /\ x \notin ToSet(s)
    <3>1. Unrepeated(s)
      BY <1>1, <1>4, <2>1 DEF Unrepeated
    <3>2. \A i \in 1..Len(s) : s[i] # x
      BY <1>1, <1>4, <1>5, <2>1 DEF Unrepeated
    <3> QED BY <1>2, <3>1, <3>2 DEF ToSet
  <2>2. ASSUME Unrepeated(s), x \notin ToSet(s) PROVE Unrepeated(t)
    <3>1. \A i \in 1..Len(s) : s[i] # x
      BY <1>2, <2>2 DEF ToSet
    <3> QED BY <1>1, <1>3, <2>2, <3>1 DEF Unrepeated
  <2> QED BY <2>1, <2>2
<1> QED BY <1>6, <1>7 DEF t

LEMMA EntriesOfEmpty == ToSet(<< >>) = {} /\ Unrepeated(<< >>)
BY DEF ToSet, Unrepeated

LEMMA EntriesInSet ==
  ASSUME NEW A, NEW s \in Seq(A)
  PROVE  ToSet(s) \subseteq A /\ ToSet(s) = {s[i] : i \in 1..Len(s)}
BY DEF ToSet

\* The entries in S, all of them, still unrepeated.
LEMMA KeptEntries ==
  ASSUME NEW A, NEW s \in Seq(A), NEW S
  PROVE  /\ Kept(s, S) \in Seq(A)
         /\ ToSet(Kept(s, S)) = ToSet(s) \cap S
         /\ Unrepeated(s) => Unrepeated(Kept(s, S))
<1>0. Len(s) \in Nat /\ \A n \in 1..Len(s) : s[n] \in A
  OBVIOUS
<1>1. PICK g : /\ Kept(s, S) = g[Len(s)] /\ g[0] = << >>
               /\ \A n \in 1..Len(s) : g[n] = IF s[n] \in S THEN Append(g[n - 1], s[n]) ELSE g[n - 1]
  BY <1>0, KeptSteps
<1> DEFINE First(n) == {s[k] : k \in 1..n}
           T == {n \in Nat : n <= Len(s) => /\ g[n] \in Seq(A) /\ ToSet(g[n]) = First(n) \cap S
                                            /\ Unrepeated(s) => Unrepeated(g[n])}
<1>2. 0 \in T
  <2>1. << >> \in Seq(A) /\ ToSet(<< >>) = {} /\ Unrepeated(<< >>) /\ First(0) = {}
    BY EntriesOfEmpty
  <2> QED BY <1>1, <2>1
<1>3. ASSUME NEW n \in Nat, n \in T PROVE n + 1 \in T
  <2> SUFFICES ASSUME n + 1 <= Len(s)
               PROVE  /\ g[n + 1] \in Seq(A) /\ ToSet(g[n + 1]) = First(n + 1) \cap S
                      /\ Unrepeated(s) => Unrepeated(g[n + 1])
    OBVIOUS
  <2>1. n + 1 \in 1..Len(s) /\ n <= Len(s) /\ (n + 1) - 1 = n
    BY <1>0
  <2>2. g[n] \in Seq(A) /\ ToSet(g[n]) = First(n) \cap S /\ (Unrepeated(s) => Unrepeated(g[n]))
    BY <1>3, <2>1
  <2>3. g[n + 1] = IF s[n + 1] \in S THEN Append(g[n], s[n + 1]) ELSE g[n]
    BY <1>1, <2>1
  <2>4. First(n + 1) = First(n) \cup {s[n + 1]}
    <3>1. 1..n + 1 = 1..n \cup {n + 1}
      OBVIOUS
    <3> QED BY <3>1
  <2>5. Unrepeated(s) => s[n + 1] \notin First(n)
    <3>1. \A k \in 1..n : k \in 1..Len(s) /\ k # n + 1
      BY <2>1
    <3> QED BY <2>1, <3>1 DEF Unrepeated
  <2>6. s[n + 1] \in A
    BY <1>0, <2>1
  <2> HIDE DEF First
  <2>7. CASE s[n + 1] \in S
    <3> DEFINE x == s[n + 1]
               h == g[n]
    <3>1. x \in A /\ h \in Seq(A)
      BY <2>2, <2>6
    <3> HIDE DEF x, h
    <3>2. /\ ToSet(Append(h, x)) = ToSet(h) \cup {x}
          /\ Unrepeated(Append(h, x)) <=> Unrepeated(h) /\ x \notin ToSet(h)
      BY <3>1, EntriesOfAppend
    <3>3. Append(h, x) \in Seq(A)
      BY <3>1
    <3> QED BY <2>2, <2>3, <2>4, <2>5, <2>7, <3>2, <3>3 DEF x, h
  <2>8. CASE s[n + 1] \notin S
    BY <2>2, <2>3, <2>4, <2>8
  <2> QED BY <2>7, <2>8
<1> HIDE DEF T
<1>4. Len(s) \in T
  BY <1>0, <1>2, <1>3, NatSetInduction
<1>5. ToSet(s) = First(Len(s))
  BY EntriesInSet
<1> QED BY <1>0, <1>1, <1>4, <1>5 DEF T

\* Putting two lists together.
LEMMA EntriesOfConcat ==
  ASSUME NEW A, NEW s \in Seq(A), NEW t \in Seq(A)
  PROVE  /\ s \o t \in Seq(A)
         /\ ToSet(s \o t) = ToSet(s) \cup ToSet(t)
         /\ Unrepeated(s) /\ Unrepeated(t) /\ ToSet(s) \cap ToSet(t) = {} => Unrepeated(s \o t)
<1> DEFINE c == s \o t
<1>1. c \in Seq(A) /\ Len(c) = Len(s) + Len(t) /\ Len(s) \in Nat /\ Len(t) \in Nat
  OBVIOUS
<1>2. \A k \in 1..Len(s) : c[k] = s[k]
  BY <1>1
<1>3. \A k \in 1..Len(t) : c[Len(s) + k] = t[k]
  BY <1>1
<1> HIDE DEF c
<1>4. \A k \in 1..Len(c) : k \in 1..Len(s) \/ \E m \in 1..Len(t) : k = Len(s) + m
  <2>1. ASSUME NEW k \in 1..Len(c), k \notin 1..Len(s) PROVE k - Len(s) \in 1..Len(t) /\ k = Len(s) + (k - Len(s))
    BY <1>1, <2>1
  <2> QED BY <2>1
<1>5. /\ \A k \in 1..Len(s) : k \in 1..Len(c)
      /\ \A m \in 1..Len(t) : Len(s) + m \in 1..Len(c)
  BY <1>1
<1>6. /\ ToSet(c) = {c[k] : k \in 1..Len(c)} /\ ToSet(s) = {s[k] : k \in 1..Len(s)}
      /\ ToSet(t) = {t[k] : k \in 1..Len(t)}
  BY <1>1, EntriesInSet
<1>7. ToSet(c) = ToSet(s) \cup ToSet(t)
  <2>1. ASSUME NEW x \in ToSet(c) PROVE x \in ToSet(s) \cup ToSet(t)
    <3>1. PICK k \in 1..Len(c) : x = c[k]
      BY <1>6
    <3>2. CASE k \in 1..Len(s)
      BY <1>2, <1>6, <3>1, <3>2
    <3>3. CASE k \notin 1..Len(s)
      <4>1. PICK m \in 1..Len(t) : k = Len(s) + m
        BY <1>4, <3>3
      <4>2. x = t[m]
        BY <1>3, <3>1, <4>1
      <4> QED BY <1>6, <4>2
    <3> QED BY <3>2, <3>3
  <2>2. ToSet(s) \subseteq ToSet(c)
    BY <1>2, <1>5, <1>6
  <2>3. ToSet(t) \subseteq ToSet(c)
    BY <1>3, <1>5, <1>6
  <2> QED BY <2>1, <2>2, <2>3
<1>8. ASSUME Unrepeated(s), Unrepeated(t), ToSet(s) \cap ToSet(t) = {} PROVE Unrepeated(c)
  <2>1. SUFFICES ASSUME NEW k \in 1..Len(c), NEW l \in 1..Len(c), c[k] = c[l] PROVE k = l
    BY DEF Unrepeated
  <2>2. \A m \in 1..Len(s), n \in 1..Len(t) : s[m] # t[n]
    BY <1>6, <1>8
  <2>3. CASE k \in 1..Len(s) /\ l \in 1..Len(s)
    BY <1>2, <1>8, <2>1, <2>3 DEF Unrepeated
  <2>4. CASE k \in 1..Len(s) /\ l \notin 1..Len(s)
    BY <1>2, <1>3, <1>4, <2>1, <2>2, <2>4
  <2>5. CASE k \notin 1..Len(s) /\ l \in 1..Len(s)
    BY <1>2, <1>3, <1>4, <2>1, <2>2, <2>5
  <2>6. CASE k \notin 1..Len(s) /\ l \notin 1..Len(s)
    <3>1. PICK m \in 1..Len(t) : k = Len(s) + m
      BY <1>4, <2>6
    <3>2. PICK n \in 1..Len(t) : l = Len(s) + n
      BY <1>4, <2>6
    <3>3. t[m] = t[n]
      BY <1>3, <2>1, <3>1, <3>2
    <3> QED BY <1>8, <3>1, <3>2, <3>3 DEF Unrepeated
  <2> QED BY <2>3, <2>4, <2>5, <2>6
<1> QED BY <1>1, <1>7, <1>8 DEF c

\* A finite set as a list, in whatever order.
LEMMA OrdersOfSet ==
  ASSUME NEW S, IsFiniteSet(S)
  PROVE  /\ SetToSeq(S) \in SetToSeqs(S)
         /\ \A s \in SetToSeqs(S) : s \in Seq(S) /\ ToSet(s) = S /\ Unrepeated(s)
<1> DEFINE n == Cardinality(S)
<1>1. n \in Nat /\ ExistsBijection(1..n, S)
  BY FS_CardinalityType
<1> HIDE DEF n
<1>2. PICK f \in [1..n -> S] : IsInjective(f)
  BY <1>1 DEF ExistsBijection, Bijection, Injection
<1>3. SetToSeq(S) \in [1..n -> S] /\ IsInjective(SetToSeq(S))
  BY <1>2 DEF SetToSeq, n
<1>4. SetToSeq(S) \in SetToSeqs(S)
  BY <1>3 DEF SetToSeqs, IsInjective, n
<1>5. ASSUME NEW s \in SetToSeqs(S) PROVE s \in Seq(S) /\ ToSet(s) = S /\ Unrepeated(s)
  <2>1. s \in [1..n -> S] /\ \A k, l \in 1..n : k # l => s[k] # s[l]
    BY <1>5 DEF SetToSeqs, n
  <2>2. s \in Seq(S) /\ Len(s) = n
    BY <1>1, <2>1
  <2>3. s \in Injection(1..n, S)
    BY <2>1 DEF Injection, IsInjective
  <2>4. IsFiniteSet(1..n) /\ Cardinality(1..n) = n
    <3>1. 0 \in Int /\ 1 \in Int /\ n \in Int
      BY <1>1
    <3>2. Cardinality(1..n) = IF 1 > n THEN 0 ELSE n - 1 + 1
      BY <3>1, FS_Interval
    <3>3. IsFiniteSet(1..n)
      BY <3>1, FS_Interval
    <3> QED BY <1>1, <3>2, <3>3
  <2>5. s \in Surjection(1..n, S)
    <3>1. Cardinality(1..n) = Cardinality(S) <=> s \in Surjection(1..n, S)
      BY <2>3, FS_Injection
    <3> QED BY <2>4, <3>1 DEF n
  <2>6. ToSet(s) = S
    BY <2>1, <2>5 DEF Surjection, ToSet
  <2>7. Unrepeated(s)
    BY <2>1, <2>2 DEF Unrepeated
  <2> QED BY <2>2, <2>6, <2>7
<1> QED BY <1>4, <1>5

LEMMA SetAsList ==
  ASSUME NEW S, IsFiniteSet(S)
  PROVE  SetToSeq(S) \in Seq(S) /\ ToSet(SetToSeq(S)) = S /\ Unrepeated(SetToSeq(S))
BY OrdersOfSet

\* Adding to a list what it does not hold.
LEMMA ExtendedEntries ==
  ASSUME NEW A, NEW list \in Seq(A), NEW more \in Seq(A)
  PROVE  /\ Extended(list, more) \in Seq(A)
         /\ ToSet(Extended(list, more)) = ToSet(list) \cup ToSet(more)
         /\ ToSet(more) \subseteq ToSet(list) => Extended(list, more) = list
<1>0. Len(more) \in Nat /\ \A n \in 1..Len(more) : more[n] \in A
  OBVIOUS
<1>1. PICK g : /\ Extended(list, more) = g[Len(more)] /\ g[0] = list
               /\ \A n \in 1..Len(more) :
                    g[n] = IF more[n] \in ToSet(g[n - 1]) THEN g[n - 1] ELSE Append(g[n - 1], more[n])
  BY <1>0, ExtendedSteps
<1> DEFINE First(n) == {more[k] : k \in 1..n}
           T == {n \in Nat : n <= Len(more) => /\ g[n] \in Seq(A) /\ ToSet(g[n]) = ToSet(list) \cup First(n)
                                               /\ ToSet(more) \subseteq ToSet(list) => g[n] = list}
<1>2. 0 \in T
  <2>1. First(0) = {}
    OBVIOUS
  <2> QED BY <1>1, <2>1
<1>5. ToSet(more) = First(Len(more))
  BY EntriesInSet
<1>3. ASSUME NEW n \in Nat, n \in T PROVE n + 1 \in T
  <2> SUFFICES ASSUME n + 1 <= Len(more)
               PROVE  /\ g[n + 1] \in Seq(A) /\ ToSet(g[n + 1]) = ToSet(list) \cup First(n + 1)
                      /\ ToSet(more) \subseteq ToSet(list) => g[n + 1] = list
    OBVIOUS
  <2>1. n + 1 \in 1..Len(more) /\ n <= Len(more) /\ (n + 1) - 1 = n
    BY <1>0
  <2>2. g[n] \in Seq(A) /\ ToSet(g[n]) = ToSet(list) \cup First(n) /\ (ToSet(more) \subseteq ToSet(list) => g[n] = list)
    BY <1>3, <2>1
  <2>3. g[n + 1] = IF more[n + 1] \in ToSet(g[n]) THEN g[n] ELSE Append(g[n], more[n + 1])
    BY <1>1, <2>1
  <2>4. First(n + 1) = First(n) \cup {more[n + 1]}
    <3>1. 1..n + 1 = 1..n \cup {n + 1}
      OBVIOUS
    <3> QED BY <3>1
  <2>6. more[n + 1] \in A /\ more[n + 1] \in ToSet(more)
    BY <1>0, <1>5, <2>1
  <2> HIDE DEF First
  <2>7. CASE more[n + 1] \notin ToSet(g[n])
    <3> DEFINE x == more[n + 1]
               h == g[n]
    <3>1. x \in A /\ h \in Seq(A)
      BY <2>2, <2>6
    <3> HIDE DEF x, h
    <3>2. ToSet(Append(h, x)) = ToSet(h) \cup {x}
      BY <3>1, EntriesOfAppend
    <3>3. Append(h, x) \in Seq(A)
      BY <3>1
    <3> QED BY <2>2, <2>3, <2>4, <2>6, <2>7, <3>2, <3>3 DEF x, h
  <2>8. CASE more[n + 1] \in ToSet(g[n])
    BY <2>2, <2>3, <2>4, <2>8
  <2> QED BY <2>7, <2>8
<1> HIDE DEF T
<1>4. Len(more) \in T
  BY <1>0, <1>2, <1>3, NatSetInduction
<1> QED BY <1>0, <1>1, <1>4, <1>5 DEF T

\* Lists of a document are extended to lists.
LEMMA ListsExtend ==
  ASSUME NEW l \in ListLeaves, NEW m \in ListLeaves
  PROVE  /\ Extended(l, m) \in ListLeaves
         /\ ToSet(Extended(l, m)) = ToSet(l) \cup ToSet(m)
         /\ Extended(Extended(l, m), m) = Extended(l, m)
<1> DEFINE A == UNION {ToSet(k) : k \in ListLeaves}
<1>1. l \in Seq(A) /\ m \in Seq(A) /\ Extended(l, m) \in ListLeaves
  BY NodesAssumption
<1>2. Extended(l, m) \in Seq(A)
  BY <1>1, NodesAssumption
<1> HIDE DEF A
<1>3. ToSet(Extended(l, m)) = ToSet(l) \cup ToSet(m)
  BY <1>1, ExtendedEntries
<1>4. Extended(Extended(l, m), m) = Extended(l, m)
  BY <1>1, <1>2, <1>3, ExtendedEntries
<1> QED BY <1>1, <1>3, <1>4

-----------------------------------------------------------------------------
(* Overlays.                                                               *)

LEMMA OverlaidNodes ==
  ASSUME NEW e, NEW v, IsTree(e), IsTree(v), v[<< >>] = Table
  PROVE  /\ IsTree(Overlaid(e, v)) /\ Overlaid(e, v)[<< >>] = Table
         /\ \A r \in Pointers : r \in DOMAIN Overlaid(e, v) <=>
              r \in DOMAIN v \/ (r \in DOMAIN e /\ r # << >> /\ <<r[1]>> \notin DOMAIN v)
         /\ \A r \in DOMAIN Overlaid(e, v) :
              Overlaid(e, v)[r] = IF r \in DOMAIN v THEN v[r] ELSE e[r]
<1> DEFINE o == Overlaid(e, v)
<1>1. /\ o = [r \in DOMAIN o |-> o[r]]
      /\ DOMAIN o = DOMAIN v \cup {r \in DOMAIN e : r # << >> /\ <<r[1]>> \notin DOMAIN v}
      /\ \A r \in DOMAIN o : o[r] = IF r \in DOMAIN v THEN v[r] ELSE e[r]
  BY DEF Overlaid
<1> HIDE DEF o
<1>2. DOMAIN o \subseteq Pointers /\ << >> \in DOMAIN o /\ o[<< >>] = Table
  BY <1>1, TreeNodes
<1>3. \A r \in DOMAIN o : o[r] \in Leaves \cup {Table}
  BY <1>1, TreeNodes
<1>4. ASSUME NEW r \in DOMAIN o, NEW x \in Pointers, IsPrefix(x, r), x # r PROVE x \in DOMAIN o /\ o[x] = Table
  <2>1. CASE r \in DOMAIN v
    <3>1. x \in DOMAIN v /\ v[x] = Table
      BY <1>4, <2>1, TreeAbove
    <3> QED BY <1>1, <3>1
  <2>2. CASE r \notin DOMAIN v /\ x = << >>
    BY <1>2, <2>2
  <2>3. CASE r \notin DOMAIN v /\ x # << >>
    <3>1. r \in DOMAIN e /\ r # << >> /\ <<r[1]>> \notin DOMAIN v /\ r \in Pointers
      BY <1>1, <1>2, <2>3
    <3>2. x \in DOMAIN e /\ e[x] = Table
      BY <1>4, <3>1, TreeAbove
    <3>3. x[1] = r[1] /\ <<x[1]>> \in Pointers /\ IsPrefix(<<x[1]>>, x)
      <4>1. 1 \in 1..Len(x)
        BY <2>3, PointerLen DEF Pointers
      <4> QED BY <1>4, <2>3, <3>1, <4>1, PrefixWhere, FirstKey
    <3>4. x \notin DOMAIN v
      BY <3>1, <3>3, TreeAbove
    <3> QED BY <1>1, <2>3, <3>1, <3>2, <3>3, <3>4
  <2> QED BY <2>1, <2>2, <2>3
<1>5. IsTree(o)
  BY <1>1, <1>2, <1>3, <1>4, TreeFrom
<1>6. \A r \in Pointers : r \in DOMAIN o <=> r \in DOMAIN v \/ (r \in DOMAIN e /\ r # << >> /\ <<r[1]>> \notin DOMAIN v)
  BY <1>1
<1> QED BY <1>1, <1>2, <1>5, <1>6 DEF o

LEMMA OverlaidTwice ==
  ASSUME NEW e, NEW v, IsTree(e), IsTree(v), v[<< >>] = Table
  PROVE  Overlaid(Overlaid(e, v), v) = Overlaid(e, v)
<1> DEFINE o == Overlaid(e, v)
           w == Overlaid(o, v)
<1>1. /\ IsTree(o)
      /\ \A r \in Pointers : r \in DOMAIN o <=>
           r \in DOMAIN v \/ (r \in DOMAIN e /\ r # << >> /\ <<r[1]>> \notin DOMAIN v)
      /\ \A r \in DOMAIN o : o[r] = IF r \in DOMAIN v THEN v[r] ELSE e[r]
  BY OverlaidNodes
<1> HIDE DEF o
<1>2. /\ IsTree(w)
      /\ \A r \in Pointers : r \in DOMAIN w <=>
           r \in DOMAIN v \/ (r \in DOMAIN o /\ r # << >> /\ <<r[1]>> \notin DOMAIN v)
      /\ \A r \in DOMAIN w : w[r] = IF r \in DOMAIN v THEN v[r] ELSE o[r]
  BY <1>1, OverlaidNodes
<1> HIDE DEF w
<1>3. \A r \in Pointers : (r \in DOMAIN w <=> r \in DOMAIN o) /\ (r \in DOMAIN w => w[r] = o[r])
  BY <1>1, <1>2
<1>4. w = o
  BY <1>1, <1>2, <1>3, TreeNodes, SameTree
<1> QED BY <1>4 DEF w, o

\* Key by key: the values at the keys of the overlay are the overlay's.
LEMMA OverlaidKeys ==
  ASSUME NEW e, NEW v, IsTree(e), IsTree(v), v[<< >>] = Table, NEW k \in Keys(v)
  PROVE  ValueAt(Overlaid(e, v), k) = ValueAt(v, k)
<1> DEFINE o == Overlaid(e, v)
<1>1. /\ IsTree(o)
      /\ \A r \in Pointers : r \in DOMAIN o <=>
           r \in DOMAIN v \/ (r \in DOMAIN e /\ r # << >> /\ <<r[1]>> \notin DOMAIN v)
      /\ \A r \in DOMAIN o : o[r] = IF r \in DOMAIN v THEN v[r] ELSE e[r]
  BY OverlaidNodes
<1> HIDE DEF o
<1>2. k \in DOMAIN v /\ Len(k) = 1 /\ k \in Pointers
  BY TreeNodes DEF Keys
<1>3. k # << >> /\ 1 \in 1..Len(k) /\ k = <<k[1]>>
  BY <1>2 DEF Pointers
<1>4. ASSUME NEW q \in Pointers, IsPrefix(k, q)
      PROVE  (q \in DOMAIN o <=> q \in DOMAIN v) /\ (q \in DOMAIN o => o[q] = v[q])
  <2>1. q[1] = k[1]
    BY <1>2, <1>3, <1>4, PrefixWhere
  <2>2. <<q[1]>> \in DOMAIN v
    BY <1>2, <1>3, <2>1
  <2> QED BY <1>1, <2>2
<1>5. AlikeBelow(o, v, k)
  BY <1>4 DEF AlikeBelow
<1>6. ValueAt(o, k) = ValueAt(v, k)
  BY <1>1, <1>2, <1>5, SameValue
<1> QED BY <1>6 DEF o
-----------------------------------------------------------------------------
(* One operation.                                                          *)

LEMMA OperationFields ==
  ASSUME NEW op, IsOperation(op)
  PROVE  /\ op.pointer \in Pointers /\ op.pointer # << >> /\ IsTree(op.value)
         /\ op.kind \in {"replace", "overlay"} => op.value[<< >>] = Table
         /\ op.kind = "extend" => op.value[<< >>] \in ListLeaves
BY DEF IsOperation

LEMMA CombinedIs ==
  ASSUME NEW t, IsTree(t), NEW op, IsOperation(op), Applies(t, op)
  PROVE  /\ IsTree(Combined(t, op))
         /\ op.kind \in {"replace", "overlay"} => Combined(t, op)[<< >>] = Table
         /\ op.kind = "extend" => Combined(t, op)[<< >>] \in ListLeaves
<1>1. /\ op.pointer \in Pointers /\ IsTree(op.value)
      /\ op.kind \in {"replace", "overlay"} => op.value[<< >>] = Table
      /\ op.kind = "extend" => op.value[<< >>] \in ListLeaves
  BY OperationFields
<1>2. CASE op.kind = "extend"
  <2> DEFINE l == IF op.pointer \in DOMAIN t THEN t[op.pointer] ELSE << >>
             x == Extended(l, op.value[<< >>])
  <2>1. l \in ListLeaves
    BY <1>2, NodesAssumption DEF Applies
  <2> HIDE DEF l
  <2>2. x \in ListLeaves
    BY <1>1, <1>2, <2>1, NodesAssumption
  <2> HIDE DEF x
  <2>3. IsTree(Leaf(x)) /\ Leaf(x)[<< >>] = x
    BY <2>2, LeafIs, NodesAssumption
  <2>4. Combined(t, op) = Leaf(x)
    BY <1>2 DEF Combined, x, l
  <2> QED BY <1>2, <2>2, <2>3, <2>4
<1>3. CASE op.kind = "overlay" /\ op.pointer \in DOMAIN t
  <2> DEFINE v == ValueAt(t, op.pointer)
  <2>1. IsTree(v)
    BY <1>3, ValueIsTree
  <2> HIDE DEF v
  <2>2. IsTree(Overlaid(v, op.value)) /\ Overlaid(v, op.value)[<< >>] = Table
    BY <1>1, <1>3, <2>1, OverlaidNodes
  <2>3. Combined(t, op) = Overlaid(v, op.value)
    BY <1>3 DEF Combined, v
  <2> QED BY <1>3, <2>2, <2>3
<1>4. CASE op.kind # "extend" /\ ~(op.kind = "overlay" /\ op.pointer \in DOMAIN t)
  <2>1. Combined(t, op) = op.value
    BY <1>4 DEF Combined
  <2> QED BY <1>1, <1>4, <2>1
<1> QED BY <1>2, <1>3, <1>4

\* What an operation makes depends on what is at its pointer only.
LEMMA CombinedSame ==
  ASSUME NEW t, NEW u, IsTree(t), IsTree(u), NEW op, op.pointer \in Pointers, AlikeBelow(t, u, op.pointer)
  PROVE  Combined(t, op) = Combined(u, op)
<1>1. ValueAt(t, op.pointer) = ValueAt(u, op.pointer)
  BY SameValue
<1>2. /\ op.pointer \in DOMAIN t <=> op.pointer \in DOMAIN u
      /\ op.pointer \in DOMAIN t => t[op.pointer] = u[op.pointer]
  BY PrefixReflexive DEF AlikeBelow
<1> QED BY <1>1, <1>2 DEF Combined

\* Where an operation has been applied, applying it again changes nothing.
LEMMA CombinedTwice ==
  ASSUME NEW t, IsTree(t), NEW u, IsTree(u), NEW op, IsOperation(op), Applies(t, op),
         ValueAt(u, op.pointer) = Combined(t, op)
  PROVE  op.pointer \in DOMAIN u /\ u[op.pointer] = Combined(t, op)[<< >>] /\ Combined(u, op) = Combined(t, op)
<1>1. /\ op.pointer \in Pointers /\ IsTree(op.value)
      /\ op.kind \in {"replace", "overlay"} => op.value[<< >>] = Table
      /\ op.kind = "extend" => op.value[<< >>] \in ListLeaves
  BY OperationFields
<1>2. IsTree(Combined(t, op))
  BY CombinedIs
<1>3. op.pointer \in DOMAIN u /\ u[op.pointer] = Combined(t, op)[<< >>]
  <2> DEFINE v == ValueAt(u, op.pointer)
  <2>1. /\ \A r \in Pointers : r \in DOMAIN v <=> op.pointer \o r \in DOMAIN u
        /\ \A r \in DOMAIN v : v[r] = u[op.pointer \o r]
    BY <1>1, ValueNodes
  <2>2. << >> \in DOMAIN v /\ << >> \in Pointers
    BY <1>2, TreeNodes
  <2> HIDE DEF v
  <2>3. op.pointer \o << >> \in DOMAIN u /\ v[<< >>] = u[op.pointer \o << >>]
    BY <2>1, <2>2
  <2> QED BY <1>1, <2>3, JoinRoot DEF v
<1>4. CASE op.kind = "extend"
  <2> DEFINE l == IF op.pointer \in DOMAIN t THEN t[op.pointer] ELSE << >>
             m == op.value[<< >>]
             x == Extended(l, m)
  <2>1. l \in ListLeaves /\ m \in ListLeaves
    BY <1>1, <1>4, NodesAssumption DEF Applies
  <2>2. Combined(t, op) = Leaf(x)
    BY <1>4 DEF Combined
  <2> HIDE DEF l, m
  <2>3. Extended(x, m) = x
    BY <2>1, ListsExtend
  <2> HIDE DEF x
  <2>4. u[op.pointer] = x
    BY <1>3, <2>2, LeafIs
  <2>5. Combined(u, op) = Leaf(Extended(u[op.pointer], m))
    BY <1>3, <1>4 DEF Combined, m
  <2> QED BY <1>3, <2>2, <2>3, <2>4, <2>5
<1>5. CASE op.kind = "overlay"
  <2>1. Combined(u, op) = Overlaid(Combined(t, op), op.value)
    BY <1>3, <1>5 DEF Combined
  <2>2. CASE op.pointer \in DOMAIN t
    <3>1. Combined(t, op) = Overlaid(ValueAt(t, op.pointer), op.value) /\ IsTree(ValueAt(t, op.pointer))
      BY <1>5, <2>2, ValueIsTree DEF Combined
    <3> QED BY <1>1, <1>3, <1>5, <2>1, <3>1, OverlaidTwice
  <2>3. CASE op.pointer \notin DOMAIN t
    <3> DEFINE v == op.value
    <3>1. Combined(t, op) = v
      BY <1>5, <2>3 DEF Combined
    <3>0. IsTree(v) /\ v[<< >>] = Table
      BY <1>1, <1>5
    <3> HIDE DEF v
    <3>2. Overlaid(v, v) = v
      <4>1. /\ IsTree(Overlaid(v, v))
            /\ \A r \in Pointers : r \in DOMAIN Overlaid(v, v) <=>
                 r \in DOMAIN v \/ (r \in DOMAIN v /\ r # << >> /\ <<r[1]>> \notin DOMAIN v)
            /\ \A r \in DOMAIN Overlaid(v, v) : Overlaid(v, v)[r] = IF r \in DOMAIN v THEN v[r] ELSE v[r]
        BY <3>0, OverlaidNodes
      <4>2. \A r \in Pointers : /\ r \in DOMAIN Overlaid(v, v) <=> r \in DOMAIN v
                                /\ r \in DOMAIN Overlaid(v, v) => Overlaid(v, v)[r] = v[r]
        BY <4>1
      <4> QED BY <3>0, <4>1, <4>2, TreeNodes, SameTree
    <3> QED BY <1>3, <2>1, <3>1, <3>2 DEF v
  <2> QED BY <2>2, <2>3
<1>6. CASE op.kind # "extend" /\ op.kind # "overlay"
  BY <1>3, <1>6 DEF Combined
<1> QED BY <1>4, <1>5, <1>6

-----------------------------------------------------------------------------
(* A whole patch.  Its operations stand apart, so what each makes is read  *)
(* from the document before, and what is outside all of them stays; this   *)
(* closed form says nothing of an order.                                   *)

Apart(S) == \A o, m \in S : o # m => ~Touches(o.pointer, m.pointer)

AreOperations(S) == \A o \in S : IsOperation(o)

Outside(S, q) == \A o \in S : ~IsPrefix(o.pointer, q)

\* q is a table above something the operations put there
MadeFor(S, q) == \E o \in S : o.kind # "delete" /\ q \in Above(o.pointer)

\* u is t after operations S, in any order: what each names is as it asks,
\* what none names is as it was, but for the tables made.
Result(t, S, u) ==
  /\ IsDocument(u)
  /\ \A o \in S : IF o.kind = "delete" THEN o.pointer \notin DOMAIN u
                  ELSE ValueAt(u, o.pointer) = Combined(t, o)
  /\ \A q \in Pointers : Outside(S, q) =>
       /\ q \in DOMAIN u <=> q \in DOMAIN t \/ MadeFor(S, q)
       /\ q \in DOMAIN u => u[q] = IF q \in DOMAIN t THEN t[q] ELSE Table

LEMMA ResultOfNone ==
  ASSUME NEW t, IsDocument(t)
  PROVE  Result(t, {}, t)
BY DEF Result, MadeFor

LEMMA TouchesBothWays ==
  ASSUME NEW p, NEW q, ~Touches(p, q)
  PROVE  ~Touches(q, p) /\ ~IsPrefix(p, q) /\ ~IsPrefix(q, p)
BY DEF Touches

\* Nothing is below two pointers that stand apart.
LEMMA BelowOne ==
  ASSUME NEW p \in Pointers, NEW q \in Pointers, NEW r \in Pointers, ~Touches(p, q), IsPrefix(p, r)
  PROVE  ~IsPrefix(q, r)
BY PrefixesMeet DEF Touches

\* An operation finds the same before and after operations that stand apart from it.
LEMMA UntouchedIs ==
  ASSUME NEW t, IsDocument(t), NEW S, AreOperations(S), NEW u, Result(t, S, u),
         NEW p \in Pointers, \A o \in S : ~Touches(o.pointer, p)
  PROVE  /\ AlikeBelow(t, u, p)
         /\ \A q \in Above(p) : /\ q \in DOMAIN t => q \in DOMAIN u /\ u[q] = t[q]
                                /\ q \in DOMAIN u /\ q \notin DOMAIN t => u[q] = Table
<1>0. \A o \in S : o.pointer \in Pointers
  BY OperationFields DEF AreOperations
<1>1. ASSUME NEW q \in Pointers, IsPrefix(p, q)
      PROVE  (q \in DOMAIN t <=> q \in DOMAIN u) /\ (q \in DOMAIN t => t[q] = u[q])
  <2>1. Outside(S, q)
    <3>1. ASSUME NEW o \in S PROVE ~IsPrefix(o.pointer, q)
      <4>1. ~Touches(p, o.pointer)
        BY TouchesBothWays
      <4> QED BY <1>0, <1>1, <4>1, BelowOne
    <3> QED BY <3>1 DEF Outside
  <2>2. ~MadeFor(S, q)
    <3>1. ASSUME NEW o \in S, q \in Above(o.pointer) PROVE FALSE
      <4>1. IsPrefix(q, o.pointer)
        BY <1>0, <3>1, AboveIs
      <4>2. IsPrefix(p, o.pointer)
        BY <1>0, <1>1, <4>1, PrefixTransitive
      <4> QED BY <4>2, TouchesBothWays
    <3> QED BY <3>1 DEF MadeFor
  <2> QED BY <2>1, <2>2 DEF Result
<1>2. ASSUME NEW q \in Above(p)
      PROVE  /\ q \in DOMAIN t => q \in DOMAIN u /\ u[q] = t[q]
             /\ q \in DOMAIN u /\ q \notin DOMAIN t => u[q] = Table
  <2>1. q \in Pointers /\ IsPrefix(q, p)
    BY AboveIs
  <2>2. Outside(S, q)
    <3>1. ASSUME NEW o \in S, IsPrefix(o.pointer, q) PROVE FALSE
      <4>1. IsPrefix(o.pointer, p)
        BY <1>0, <2>1, <3>1, PrefixTransitive
      <4> QED BY <4>1, TouchesBothWays
    <3> QED BY <3>1 DEF Outside
  <2> QED BY <2>1, <2>2 DEF Result
<1> QED BY <1>1, <1>2 DEF AlikeBelow

LEMMA AppliesSame ==
  ASSUME NEW t, NEW u, NEW op, op.pointer \in Pointers, AlikeBelow(t, u, op.pointer),
         \A q \in Above(op.pointer) : /\ q \in DOMAIN t => q \in DOMAIN u /\ u[q] = t[q]
                                      /\ q \in DOMAIN u /\ q \notin DOMAIN t => u[q] = Table
  PROVE  Applies(t, op) <=> Applies(u, op)
<1>1. /\ op.pointer \in DOMAIN t <=> op.pointer \in DOMAIN u
      /\ op.pointer \in DOMAIN t => t[op.pointer] = u[op.pointer]
  BY PrefixReflexive DEF AlikeBelow
<1>2. (\A q \in Above(op.pointer) \cap DOMAIN t : t[q] = Table) <=> \A q \in Above(op.pointer) \cap DOMAIN u : u[q] = Table
  OBVIOUS
<1> QED BY <1>1, <1>2 DEF Applies

LEMMA ResultStep ==
  ASSUME NEW t, IsDocument(t), NEW S, AreOperations(S), NEW u, Result(t, S, u),
         NEW op, IsOperation(op), \A o \in S : ~Touches(o.pointer, op.pointer)
  PROVE  /\ Applies(t, op) <=> Applies(u, op)
         /\ Applies(t, op) => Result(t, S \cup {op}, Applied(u, op))
<1> DEFINE p == op.pointer
           w == Applied(u, op)
<1>0. p \in Pointers \ {<< >>} /\ \A o \in S : o.pointer \in Pointers /\ o.pointer # << >>
  BY OperationFields DEF AreOperations
<1>1. /\ AlikeBelow(t, u, p)
      /\ \A q \in Above(p) : /\ q \in DOMAIN t => q \in DOMAIN u /\ u[q] = t[q]
                             /\ q \in DOMAIN u /\ q \notin DOMAIN t => u[q] = Table
  BY <1>0, UntouchedIs
<1>2. Applies(t, op) <=> Applies(u, op)
  BY <1>0, <1>1, AppliesSame
<1>3. IsTree(t) /\ IsTree(u) /\ IsDocument(u)
  BY DEF Result, IsDocument
<1>4. Combined(t, op) = Combined(u, op)
  BY <1>0, <1>1, <1>3, CombinedSame
<1> SUFFICES ASSUME Applies(t, op) PROVE Result(t, S \cup {op}, w)
  BY <1>2
<1>5. /\ IsDocument(w)
      /\ IF op.kind = "delete" THEN p \notin DOMAIN w ELSE ValueAt(w, p) = Combined(t, op)
      /\ \A q \in Pointers : ~IsPrefix(p, q) =>
           /\ q \in DOMAIN w <=> q \in DOMAIN u \/ (op.kind # "delete" /\ q \in Above(p))
           /\ q \in DOMAIN w => w[q] = IF q \in DOMAIN u THEN u[q] ELSE Table
  <2>1. CASE op.kind = "delete"
    <3>1. w = Without(u, p)
      BY <2>1 DEF Applied
    <3>2. /\ IsDocument(Without(u, p))
          /\ \A q \in Pointers : q \in DOMAIN Without(u, p) <=> q \in DOMAIN u /\ ~IsPrefix(p, q)
          /\ \A q \in DOMAIN Without(u, p) : Without(u, p)[q] = u[q]
      BY <1>0, <1>3, WithoutNodes
    <3>3. IsPrefix(p, p)
      BY <1>0, PrefixReflexive
    <3> HIDE DEF w, p
    <3> QED BY <1>0, <2>1, <3>1, <3>2, <3>3
  <2>2. CASE op.kind # "delete"
    <3> DEFINE c == Combined(t, op)
    <3>1. IsTree(c)
      BY <1>3, CombinedIs
    <3>2. Open(u, p)
      BY <1>2 DEF Open, Applies
    <3>3. w = Put(u, p, c)
      BY <1>4, <2>2 DEF Applied
    <3> HIDE DEF c, w, p
    <3>4. /\ IsDocument(Put(u, p, c)) /\ ValueAt(Put(u, p, c), p) = c
          /\ \A q \in Pointers : ~IsPrefix(p, q) =>
               /\ q \in DOMAIN Put(u, p, c) <=> q \in DOMAIN u \/ q \in Above(p)
               /\ q \in DOMAIN Put(u, p, c) => Put(u, p, c)[q] = IF q \in DOMAIN u THEN u[q] ELSE Table
      BY <1>0, <1>3, <3>1, <3>2, PutNodes
    <3> QED BY <2>2, <3>3, <3>4 DEF c
  <2> QED BY <2>1, <2>2
<1> HIDE DEF w
<1>6. ASSUME NEW o \in S
      PROVE  IF o.kind = "delete" THEN o.pointer \notin DOMAIN w ELSE ValueAt(w, o.pointer) = Combined(t, o)
  <2>1. /\ IF o.kind = "delete" THEN o.pointer \notin DOMAIN u ELSE ValueAt(u, o.pointer) = Combined(t, o)
        /\ o.pointer \in Pointers /\ ~Touches(o.pointer, p)
    BY <1>0, <1>6 DEF Result
  <2>2. AlikeBelow(u, w, o.pointer)
    <3>1. ASSUME NEW q \in Pointers, IsPrefix(o.pointer, q)
          PROVE  (q \in DOMAIN u <=> q \in DOMAIN w) /\ (q \in DOMAIN u => u[q] = w[q])
      <4>1. ~IsPrefix(p, q)
        BY <1>0, <2>1, <3>1, BelowOne
      <4>2. q \notin Above(p)
        <5>1. ASSUME IsPrefix(q, p) PROVE FALSE
          <6>1. IsPrefix(o.pointer, p)
            BY <1>0, <2>1, <3>1, <5>1, PrefixTransitive
          <6> QED BY <2>1, <6>1, TouchesBothWays
        <5> QED BY <1>0, <5>1, AboveIs
      <4> QED BY <1>5, <4>1, <4>2
    <3> QED BY <3>1 DEF AlikeBelow
  <2>3. IsTree(w)
    BY <1>5 DEF IsDocument
  <2>4. ValueAt(u, o.pointer) = ValueAt(w, o.pointer)
    BY <1>3, <2>1, <2>2, <2>3, SameValue
  <2>5. o.pointer \in DOMAIN u <=> o.pointer \in DOMAIN w
    BY <2>1, <2>2, PrefixReflexive DEF AlikeBelow
  <2> QED BY <2>1, <2>4, <2>5
<1>7. ASSUME NEW q \in Pointers, Outside(S \cup {op}, q)
      PROVE  /\ q \in DOMAIN w <=> q \in DOMAIN t \/ MadeFor(S \cup {op}, q)
             /\ q \in DOMAIN w => w[q] = IF q \in DOMAIN t THEN t[q] ELSE Table
  <2>1. ~IsPrefix(p, q) /\ Outside(S, q)
    BY <1>7 DEF Outside
  <2>2. /\ q \in DOMAIN u <=> q \in DOMAIN t \/ MadeFor(S, q)
        /\ q \in DOMAIN u => u[q] = IF q \in DOMAIN t THEN t[q] ELSE Table
    BY <2>1 DEF Result
  <2>3. MadeFor(S \cup {op}, q) <=> MadeFor(S, q) \/ (op.kind # "delete" /\ q \in Above(p))
    BY DEF MadeFor
  <2>4. /\ q \in DOMAIN w <=> q \in DOMAIN u \/ (op.kind # "delete" /\ q \in Above(p))
        /\ q \in DOMAIN w => w[q] = IF q \in DOMAIN u THEN u[q] ELSE Table
    BY <1>5, <2>1
  <2> HIDE DEF p
  <2>5. q \in DOMAIN w <=> q \in DOMAIN t \/ MadeFor(S \cup {op}, q)
    BY <2>2, <2>3, <2>4
  <2>6. ASSUME q \in DOMAIN w PROVE w[q] = IF q \in DOMAIN t THEN t[q] ELSE Table
    BY <2>2, <2>4, <2>6
  <2> QED BY <2>5, <2>6
<1>8. \A o \in S \cup {op} : IF o.kind = "delete" THEN o.pointer \notin DOMAIN w
                             ELSE ValueAt(w, o.pointer) = Combined(t, o)
  BY <1>5, <1>6
<1> QED BY <1>5, <1>7, <1>8 DEF Result

LEMMA ResultUnique ==
  ASSUME NEW t, NEW S, AreOperations(S), NEW u, Result(t, S, u), NEW w, Result(t, S, w)
  PROVE  u = w
<1>1. IsTree(u) /\ IsTree(w)
  BY DEF Result, IsDocument
<1>2. ASSUME NEW q \in Pointers PROVE (q \in DOMAIN u <=> q \in DOMAIN w) /\ (q \in DOMAIN u => u[q] = w[q])
  <2>1. CASE Outside(S, q)
    BY <2>1 DEF Result
  <2>2. ASSUME NEW o \in S, IsPrefix(o.pointer, q)
        PROVE  (q \in DOMAIN u <=> q \in DOMAIN w) /\ (q \in DOMAIN u => u[q] = w[q])
    <3>0. o.pointer \in Pointers
      BY OperationFields DEF AreOperations
    <3>1. CASE o.kind = "delete"
      <4>1. o.pointer \notin DOMAIN u /\ o.pointer \notin DOMAIN w
        BY <3>1 DEF Result
      <4> QED BY <1>1, <2>2, <3>0, <4>1, TreeAbove
    <3>2. CASE o.kind # "delete"
      <4>1. ValueAt(u, o.pointer) = ValueAt(w, o.pointer)
        BY <3>2 DEF Result
      <4>2. AlikeBelow(u, w, o.pointer)
        BY <1>1, <3>0, <4>1, SameValue
      <4> QED BY <2>2, <4>2 DEF AlikeBelow
    <3> QED BY <3>1, <3>2
  <2> QED BY <2>1, <2>2 DEF Outside
<1> QED BY <1>1, <1>2, TreeNodes, SameTree

\* ops is a list of operations of S, that stand apart.
IsPatch(ops, S) == ops \in Seq(S) /\ ToSet(ops) = S /\ Unrepeated(ops) /\ AreOperations(S) /\ Apart(S)

\* A whole patch has the closed form Result, or is refused because one of its
\* operations does not apply to the document there was (apply_operations).
THEOREM AppliedAllIs ==
  ASSUME NEW t, IsDocument(t), NEW ops, NEW S, IsPatch(ops, S)
  PROVE  /\ (\A o \in S : Applies(t, o)) => \E u : AppliedAll(t, ops) = {u} /\ Result(t, S, u)
         /\ (\E o \in S : ~Applies(t, o)) => AppliedAll(t, ops) = {}
<1>0. /\ Len(ops) \in Nat /\ (\A n \in 1..Len(ops) : ops[n] \in S) /\ ops \in Seq(S)
      /\ AreOperations(S) /\ Apart(S) /\ Unrepeated(ops)
  BY DEF IsPatch
<1>a. PICK g : AppliedInSteps(g, t, ops)
  BY <1>0, AppliedSteps
<1>1. /\ AppliedAll(t, ops) = g[Len(ops)] /\ g[0] = {t}
      /\ \A n \in 1..Len(ops) : g[n] = AppliedToEach(g[n - 1], ops[n])
  BY <1>a DEF AppliedInSteps
<1> DEFINE First(n) == {ops[k] : k \in 1..n}
           Known(n) == IF \A o \in First(n) : Applies(t, o)
                       THEN \E u : g[n] = {u} /\ Result(t, First(n), u)
                       ELSE g[n] = {}
           T == {n \in Nat : n <= Len(ops) => Known(n)}
<1>2. 0 \in T
  <2>1. First(0) = {}
    OBVIOUS
  <2>2. Result(t, First(0), t)
    BY <2>1, ResultOfNone
  <2> HIDE DEF First
  <2>3. Known(0)
    BY <1>1, <2>1, <2>2
  <2> HIDE DEF Known
  <2> QED BY <2>3
<1>3. ASSUME NEW n \in Nat, n \in T PROVE n + 1 \in T
  <2> SUFFICES ASSUME n + 1 <= Len(ops) PROVE Known(n + 1)
    <3> HIDE DEF Known
    <3> QED OBVIOUS
  <2> DEFINE op == ops[n + 1]
  <2>1. n + 1 \in 1..Len(ops) /\ n <= Len(ops) /\ (n + 1) - 1 = n /\ \A k \in 1..n : k \in 1..Len(ops) /\ k # n + 1
    BY <1>0
  <2>2. Known(n)
    BY <1>3, <2>1
  <2>3. g[n + 1] = {Applied(d, op) : d \in {d \in g[n] : Applies(d, op)}}
    <3>1. g[n + 1] = AppliedToEach(g[n], op)
      BY <1>1, <2>1
    <3> QED BY <3>1 DEF AppliedToEach
  <2>4. First(n + 1) = First(n) \cup {op}
    <3>1. 1..n + 1 = 1..n \cup {n + 1}
      OBVIOUS
    <3> QED BY <3>1
  <2>5. op \in S /\ First(n) \subseteq S
    BY <1>0, <2>1
  <2>6. op \notin First(n)
    BY <1>0, <2>1 DEF Unrepeated
  <2> HIDE DEF First, op
  <2>7. \A o \in First(n) : ~Touches(o.pointer, op.pointer)
    BY <1>0, <2>5, <2>6 DEF Apart
  <2>8. AreOperations(First(n)) /\ IsOperation(op)
    BY <1>0, <2>5 DEF AreOperations
  <2>9. CASE \A o \in First(n) : Applies(t, o)
    <3>1. PICK u : g[n] = {u} /\ Result(t, First(n), u)
      BY <2>2, <2>9
    <3>2. /\ Applies(t, op) <=> Applies(u, op)
          /\ Applies(t, op) => Result(t, First(n) \cup {op}, Applied(u, op))
      BY <2>7, <2>8, <3>1, ResultStep
    <3>3. CASE Applies(t, op)
      <4>1. g[n + 1] = {Applied(u, op)}
        BY <2>3, <3>1, <3>2, <3>3
      <4>2. \A o \in First(n + 1) : Applies(t, o)
        BY <2>4, <2>9, <3>3
      <4> QED BY <2>4, <3>2, <3>3, <4>1, <4>2
    <3>4. CASE ~Applies(t, op)
      <4>1. g[n + 1] = {}
        BY <2>3, <3>1, <3>2, <3>4
      <4>2. ~(\A o \in First(n + 1) : Applies(t, o))
        BY <2>4, <3>4
      <4> QED BY <4>1, <4>2
    <3> QED BY <3>3, <3>4
  <2>10. CASE ~(\A o \in First(n) : Applies(t, o))
    <3>1. g[n] = {}
      BY <2>2, <2>10
    <3>2. g[n + 1] = {} /\ ~(\A o \in First(n + 1) : Applies(t, o))
      BY <2>3, <2>4, <2>10, <3>1
    <3> QED BY <3>2
  <2> QED BY <2>9, <2>10
<1>5. First(Len(ops)) = S
  BY <1>0, EntriesInSet DEF IsPatch
<1> HIDE DEF T, First
<1>4. Len(ops) \in T
  BY <1>0, <1>2, <1>3, NatSetInduction
<1>6. Known(Len(ops))
  BY <1>0, <1>4 DEF T
<1> QED BY <1>1, <1>5, <1>6

\* What a patch makes does not depend on the order of its operations.
LEMMA OrderOfPatch ==
  ASSUME NEW t, IsDocument(t), NEW S, NEW ops, IsPatch(ops, S), NEW others, IsPatch(others, S)
  PROVE  AppliedAll(t, ops) = AppliedAll(t, others)
<1>1. CASE \A o \in S : Applies(t, o)
  <2>1. PICK u : AppliedAll(t, ops) = {u} /\ Result(t, S, u)
    BY <1>1, AppliedAllIs
  <2>2. PICK w : AppliedAll(t, others) = {w} /\ Result(t, S, w)
    BY <1>1, AppliedAllIs
  <2>3. u = w
    BY <2>1, <2>2, ResultUnique DEF IsPatch
  <2> QED BY <2>1, <2>2, <2>3
<1>2. CASE \E o \in S : ~Applies(t, o)
  <2>1. AppliedAll(t, ops) = {}
    BY <1>2, AppliedAllIs
  <2>2. AppliedAll(t, others) = {}
    BY <1>2, AppliedAllIs
  <2> QED BY <2>1, <2>2
<1> QED BY <1>1, <1>2

-----------------------------------------------------------------------------
(* What a source compiles to.                                              *)

\* An image of a finite set, as a function gives it.
LEMMA ImageIsFinite ==
  ASSUME NEW S, IsFiniteSet(S), NEW f, f = [x \in S |-> f[x]]
  PROVE  IsFiniteSet({f[x] : x \in S})
<1>1. f \in Surjection(S, {f[x] : x \in S})
  BY DEF Surjection
<1> QED BY <1>1, FS_Surjection

LEMMA ConflictingIs ==
  ASSUME NEW S, NEW ops \in Seq(S), AreOperations(ToSet(ops))
  PROVE  ~Conflicting(ops) <=> Unrepeated(ops) /\ Apart(ToSet(ops))
<1>1. DOMAIN ops = 1..Len(ops) /\ ToSet(ops) = {ops[k] : k \in 1..Len(ops)}
  BY EntriesInSet
<1>2. \A k \in 1..Len(ops) : Touches(ops[k].pointer, ops[k].pointer)
  BY <1>1, OperationFields, PrefixReflexive DEF AreOperations, Touches
<1>3. ASSUME ~Conflicting(ops) PROVE Unrepeated(ops) /\ Apart(ToSet(ops))
  <2>1. Unrepeated(ops)
    BY <1>1, <1>2, <1>3 DEF Conflicting, Unrepeated
  <2>2. Apart(ToSet(ops))
    BY <1>1, <1>3 DEF Conflicting, Apart
  <2> QED BY <2>1, <2>2
<1>4. ASSUME Unrepeated(ops), Apart(ToSet(ops)) PROVE ~Conflicting(ops)
  <2>1. SUFFICES ASSUME NEW k \in 1..Len(ops), NEW l \in 1..Len(ops), k # l PROVE ~Touches(ops[k].pointer, ops[l].pointer)
    BY <1>1 DEF Conflicting
  <2>2. ops[k] # ops[l] /\ ops[k] \in ToSet(ops) /\ ops[l] \in ToSet(ops)
    BY <1>1, <1>4, <2>1 DEF Unrepeated
  <2> QED BY <1>4, <2>2 DEF Apart
<1> QED BY <1>3, <1>4

LEMMA SourceOperations ==
  ASSUME NEW q, IsSource(q)
  PROVE  /\ q.committed \in Seq(ToSet(q.committed)) /\ AreOperations(ToSet(q.committed))
         /\ q.local \in Seq(ToSet(q.local)) /\ AreOperations(ToSet(q.local))
BY DEF IsSource, AreOperations

LEMMA SourceServers ==
  ASSUME NEW q, IsSource(q)
  PROVE  /\ IsFiniteSet(DOMAIN q.servers) /\ DOMAIN q.servers \subseteq Names
         /\ \A id \in DOMAIN q.servers :
              /\ q.servers[id].enabled \in BOOLEAN
              /\ IsFiniteSet(DOMAIN q.servers[id].fields) /\ DOMAIN q.servers[id].fields \subseteq Names
              /\ DOMAIN q.servers[id].fields # {}
              /\ \A key \in DOMAIN q.servers[id].fields :
                   IsTree(q.servers[id].fields[key]) /\ q.servers[id].fields[key][<< >>] \notin ListLeaves
BY DEF IsSource

\* What people ask for is the merged patch.
LEMMA PatchEntries ==
  ASSUME NEW q, IsSource(q)
  PROVE  /\ Patch(q) \in Seq(Asked(q)) /\ ToSet(Patch(q)) = Asked(q) /\ AreOperations(Asked(q))
<1> DEFINE c == q.committed
           l == q.local
           O == ToSet(c) \cup ToSet(l)
           N == {op \in ToSet(c) : \A o \in ToSet(l) : o.pointer # op.pointer}
<1>0. c \in Seq(ToSet(c)) /\ l \in Seq(ToSet(l)) /\ AreOperations(ToSet(c)) /\ AreOperations(ToSet(l))
  BY SourceOperations
<1>1. Patch(q) = Kept(c, N) \o l /\ Asked(q) = ToSet(l) \cup N
  BY DEF Patch, Merged, NotIn, Asked
<1> HIDE DEF c, l
<1>2. c \in Seq(O) /\ l \in Seq(O)
  BY <1>0, SeqDef
<1> HIDE DEF O
<1>3. Kept(c, N) \in Seq(O) /\ ToSet(Kept(c, N)) = ToSet(c) \cap N
  BY <1>2, KeptEntries
<1> DEFINE k == Kept(c, N)
<1>4. k \in Seq(O)
  BY <1>3
<1> HIDE DEF k
<1>5. k \o l \in Seq(O) /\ ToSet(k \o l) = ToSet(k) \cup ToSet(l)
  BY <1>2, <1>4, EntriesOfConcat
<1>6. ToSet(Patch(q)) = Asked(q) /\ Patch(q) \in Seq(O)
  BY <1>1, <1>3, <1>5 DEF k
<1>7. Patch(q) \in Seq(Asked(q))
  <2> DEFINE s == Patch(q)
  <2>1. s \in Seq(O) /\ ToSet(s) = {s[n] : n \in 1..Len(s)} /\ ToSet(s) = Asked(q)
    BY <1>6, EntriesInSet
  <2> HIDE DEF s
  <2>2. s \in Seq(Asked(q))
    BY <2>1, SeqDef
  <2> QED BY <2>2 DEF s
<1>8. AreOperations(Asked(q))
  BY <1>0, <1>1 DEF AreOperations
<1> QED BY <1>6, <1>7, <1>8

\* A part of a patch without conflicts has none.
LEMMA PartOfPatch ==
  ASSUME NEW S, NEW ops \in Seq(S), AreOperations(ToSet(ops)), NEW R
  PROVE  /\ Kept(ops, R) \in Seq(ToSet(ops) \cap R) /\ ToSet(Kept(ops, R)) = ToSet(ops) \cap R
         /\ AreOperations(ToSet(ops) \cap R)
         /\ ~Conflicting(ops) => IsPatch(Kept(ops, R), ToSet(ops) \cap R)
<1> DEFINE k == Kept(ops, R)
           P == ToSet(ops) \cap R
<1>1. k \in Seq(S) /\ ToSet(k) = P /\ (Unrepeated(ops) => Unrepeated(k))
  BY KeptEntries
<1> HIDE DEF k
<1>2. AreOperations(P)
  BY DEF AreOperations
<1>3. Apart(ToSet(ops)) => Apart(P)
  BY DEF Apart
<1>4. k \in Seq(P)
  <2>1. ToSet(k) = {k[n] : n \in 1..Len(k)}
    BY <1>1, EntriesInSet
  <2> HIDE DEF P
  <2> QED BY <1>1, <2>1, SeqDef
<1>5. ASSUME ~Conflicting(ops) PROVE IsPatch(k, P)
  BY <1>1, <1>2, <1>3, <1>4, <1>5, ConflictingIs DEF IsPatch
<1> QED BY <1>1, <1>2, <1>4, <1>5 DEF k

LEMMA ServerPointer ==
  ASSUME NEW id \in Names
  PROVE  /\ <<Root, id>> \in Pointers /\ <<Root, id>> # << >> /\ Len(<<Root, id>>) = 2
         /\ IsOperation(DeleteOp(<<Root, id>>))
<1>1. <<Root, id>> \in Pointers /\ <<Root, id>> # << >> /\ Len(<<Root, id>>) = 2
  BY SourcesAssumption DEF Pointers
<1>2. IsTree(Empty)
  BY EmptyIsDocument DEF IsDocument
<1> QED BY <1>1, <1>2 DEF IsOperation, DeleteOp

LEMMA FieldPointer ==
  ASSUME NEW id \in Names, NEW key \in Names
  PROVE  /\ <<Root, id, key>> \in Pointers /\ <<Root, id, key>> # << >> /\ Len(<<Root, id, key>>) = 3
         /\ IsPrefix(<<Root, id>>, <<Root, id, key>>)
<1>1. <<Root, id, key>> \in Pointers /\ <<Root, id, key>> # << >> /\ Len(<<Root, id, key>>) = 3
  BY SourcesAssumption DEF Pointers
<1>2. <<Root, id>> \in Pointers /\ Len(<<Root, id>>) = 2 /\ 1..2 = {1, 2}
  BY ServerPointer
<1>3. <<Root, id>>[1] = <<Root, id, key>>[1] /\ <<Root, id>>[2] = <<Root, id, key>>[2]
  OBVIOUS
<1>4. \A k \in 1..2 : <<Root, id>>[k] = <<Root, id, key>>[k]
  BY <1>2, <1>3
<1> QED BY <1>1, <1>2, <1>4, PrefixWhere

Deletions(q) == {DeleteOp(<<Root, id>>) : id \in Disabled(q)}
Stays(q, op) == \A id \in Disabled(q) : ~Inside(op, id)
SharedSet(q) == {op \in Asked(q) : Stays(q, op)} \cup Deletions(q)

LEMMA DeletionsList ==
  ASSUME NEW q, IsSource(q)
  PROVE  /\ IsFiniteSet(Deletions(q)) /\ AreOperations(Deletions(q))
<1>1. Disabled(q) \subseteq Names /\ IsFiniteSet(Disabled(q))
  BY SourceServers, FS_Subset DEF Disabled
<1>2. AreOperations(Deletions(q))
  BY <1>1, ServerPointer DEF AreOperations, Deletions
<1> DEFINE f == [id \in Disabled(q) |-> DeleteOp(<<Root, id>>)]
<1>3. IsFiniteSet({f[id] : id \in Disabled(q)})
  BY <1>1, ImageIsFinite
<1>4. {f[id] : id \in Disabled(q)} = Deletions(q)
  BY DEF Deletions
<1> QED BY <1>2, <1>3, <1>4

LEMMA SharedEntries ==
  ASSUME NEW q, IsSource(q)
  PROVE  /\ Shared(q) \in Seq(SharedSet(q)) /\ ToSet(Shared(q)) = SharedSet(q) /\ AreOperations(SharedSet(q))
         /\ ~Conflicting(Shared(q)) => IsPatch(Shared(q), SharedSet(q))
<1> DEFINE R == {op \in ToSet(Patch(q)) : \A id \in Disabled(q) : ~Inside(op, id)}
           k == Kept(Patch(q), R)
           d == SetToSeq(Deletions(q))
           K == {op \in Asked(q) : Stays(q, op)}
           D == Deletions(q)
           U == K \cup D
<1>0. Patch(q) \in Seq(Asked(q)) /\ ToSet(Patch(q)) = Asked(q) /\ AreOperations(Asked(q))
  BY PatchEntries
<1>1. ToSet(Patch(q)) \cap R = K
  BY <1>0 DEF Stays
<1>2. k \in Seq(K) /\ ToSet(k) = K /\ AreOperations(K)
  <2> HIDE DEF K
  <2>1. /\ Kept(Patch(q), R) \in Seq(ToSet(Patch(q)) \cap R)
        /\ ToSet(Kept(Patch(q), R)) = ToSet(Patch(q)) \cap R
        /\ AreOperations(ToSet(Patch(q)) \cap R)
    BY <1>0, PartOfPatch
  <2> QED BY <1>1, <2>1
<1>3. d \in Seq(D) /\ ToSet(d) = D
  BY DeletionsList, SetAsList
<1>4. Shared(q) = k \o d
  BY DEF Shared, Deletions
<1>4a. AreOperations(D)
  BY DeletionsList
<1> HIDE DEF k, d, K, D, R
<1>5. k \in Seq(U) /\ d \in Seq(U)
  BY <1>2, <1>3, SeqDef
<1> HIDE DEF U
<1>6. k \o d \in Seq(U) /\ ToSet(k \o d) = ToSet(k) \cup ToSet(d)
  BY <1>5, EntriesOfConcat
<1>7. U = SharedSet(q)
  BY DEF U, K, D, SharedSet
<1>8. Shared(q) \in Seq(SharedSet(q)) /\ ToSet(Shared(q)) = SharedSet(q) /\ AreOperations(SharedSet(q))
  <2>1. ToSet(k \o d) = U
    BY <1>2, <1>3, <1>6 DEF U
  <2>2. AreOperations(U)
    BY <1>2, <1>4a DEF U, AreOperations
  <2> QED BY <1>4, <1>6, <1>7, <2>1, <2>2
<1>9. ASSUME ~Conflicting(Shared(q)) PROVE IsPatch(Shared(q), SharedSet(q))
  <2> DEFINE s == Shared(q)
  <2>1. s \in Seq(SharedSet(q)) /\ ToSet(s) = SharedSet(q) /\ AreOperations(ToSet(s)) /\ ~Conflicting(s)
    BY <1>8, <1>9
  <2> HIDE DEF s
  <2>2. Unrepeated(s) /\ Apart(ToSet(s))
    BY <2>1, ConflictingIs
  <2>3. IsPatch(s, SharedSet(q))
    BY <2>1, <2>2 DEF IsPatch
  <2> QED BY <2>3 DEF s
<1> QED BY <1>8, <1>9

-----------------------------------------------------------------------------
(* Generated values.                                                       *)

\* p is generated for a field of a registered server
FieldOf(q, p, id, key) ==
  /\ id \in Registered(q) /\ key \in DOMAIN q.servers[id].fields
  /\ p = <<Root, id, key>>

LEMMA GeneratedNodes ==
  ASSUME NEW q, IsSource(q)
  PROVE  /\ \A p : p \in DOMAIN Generated(q) <=> \E id, key : FieldOf(q, p, id, key)
         /\ \A p, id, key : FieldOf(q, p, id, key) => Generated(q)[p] = q.servers[id].fields[key]
         /\ Generated(q) = [p \in DOMAIN Generated(q) |-> Generated(q)[p]]
<1> DEFINE Ids == Registered(q)
           Ks == UNION {DOMAIN q.servers[i].fields : i \in Ids}
           at == {<<Root, id, key>> : id \in Ids, key \in Ks}
           D == {p \in at : p[3] \in DOMAIN q.servers[p[2]].fields}
<1>1. Generated(q) = [p \in D |-> q.servers[p[2]].fields[p[3]]]
  BY DEF Generated
<1>2. ASSUME NEW p \in D PROVE \E id, key : FieldOf(q, p, id, key)
  <2>1. PICK id \in Ids, key \in Ks : p = <<Root, id, key>>
    BY <1>2
  <2>2. p[2] = id /\ p[3] = key
    BY <2>1
  <2> QED BY <1>2, <2>1, <2>2 DEF FieldOf
<1>3. ASSUME NEW p, NEW id, NEW key, FieldOf(q, p, id, key)
      PROVE  p \in D /\ p[2] = id /\ p[3] = key
  <2>1. id \in Ids /\ key \in DOMAIN q.servers[id].fields /\ p = <<Root, id, key>>
    BY <1>3 DEF FieldOf
  <2>2. key \in Ks
    BY <2>1
  <2> QED BY <2>1, <2>2
<1> HIDE DEF D
<1>4. DOMAIN Generated(q) = D /\ \A p \in D : Generated(q)[p] = q.servers[p[2]].fields[p[3]]
  BY <1>1
<1>5. Generated(q) = [p \in DOMAIN Generated(q) |-> Generated(q)[p]]
  BY <1>1
<1> QED BY <1>2, <1>3, <1>4, <1>5

LEMMA GeneratedValues ==
  ASSUME NEW q, IsSource(q), NEW p \in DOMAIN Generated(q)
  PROVE  /\ p \in Pointers /\ p # << >> /\ Len(p) = 3
         /\ IsTree(Generated(q)[p]) /\ Generated(q)[p][<< >>] \notin ListLeaves
<1>1. PICK id, key : FieldOf(q, p, id, key)
  BY GeneratedNodes
<1>2. Generated(q)[p] = q.servers[id].fields[key]
  BY <1>1, GeneratedNodes
<1>3. id \in DOMAIN q.servers /\ key \in DOMAIN q.servers[id].fields /\ p = <<Root, id, key>>
  BY <1>1 DEF FieldOf, Registered
<1>4. id \in Names /\ key \in Names
  BY <1>3, SourceServers
<1>5. IsTree(q.servers[id].fields[key]) /\ q.servers[id].fields[key][<< >>] \notin ListLeaves
  BY <1>3, SourceServers
<1> QED BY <1>2, <1>3, <1>4, <1>5, FieldPointer

LEMMA GeneratedFinite ==
  ASSUME NEW q, IsSource(q)
  PROVE  IsFiniteSet(DOMAIN Generated(q))
<1> DEFINE Ids == DOMAIN q.servers
           fam == [id \in Ids |-> DOMAIN q.servers[id].fields]
           Ks == UNION {fam[id] : id \in Ids}
           f == [x \in Ids \X Ks |-> <<Root, x[1], x[2]>>]
           I == {f[x] : x \in Ids \X Ks}
<1>1. IsFiniteSet(Ids) /\ \A id \in Ids : IsFiniteSet(fam[id])
  BY SourceServers
<1>2. IsFiniteSet({fam[id] : id \in Ids})
  BY <1>1, ImageIsFinite
<1>3. IsFiniteSet(Ks)
  BY <1>1, <1>2, FS_UNION
<1>4. IsFiniteSet(Ids \X Ks)
  BY <1>1, <1>3, FS_Product
<1>5. IsFiniteSet(I)
  <2>1. f = [x \in Ids \X Ks |-> f[x]]
    OBVIOUS
  <2> HIDE DEF f, Ks, Ids
  <2> QED BY <1>4, <2>1, ImageIsFinite
<1>6. ASSUME NEW p \in DOMAIN Generated(q) PROVE p \in I
  <2>1. PICK id, key : FieldOf(q, p, id, key)
    BY GeneratedNodes
  <2>2. id \in Ids /\ key \in fam[id] /\ p = <<Root, id, key>>
    BY <2>1 DEF FieldOf, Registered
  <2>3. key \in Ks
    BY <2>2
  <2>4. <<id, key>> \in Ids \X Ks
    BY <2>2, <2>3
  <2>5. f[<<id, key>>] = p
    BY <2>2, <2>4
  <2> HIDE DEF f, Ks, Ids, fam
  <2> QED BY <2>4, <2>5
<1>7. DOMAIN Generated(q) \in SUBSET I
  BY <1>6
<1> HIDE DEF I
<1> QED BY <1>5, <1>7, FS_Subset

\* Generated pointers stand apart: they have the same length.
LEMMA SameLengthApart ==
  ASSUME NEW p \in Pointers, NEW q \in Pointers, Len(p) = Len(q), Touches(p, q)
  PROVE  p = q
<1>1. ASSUME NEW a \in Pointers, NEW b \in Pointers, Len(a) = Len(b), IsPrefix(a, b) PROVE a = b
  <2>1. \A k \in 1..Len(a) : a[k] = b[k]
    BY <1>1, PrefixWhere
  <2> QED BY <1>1, <2>1, SamePointer
<1> QED BY <1>1 DEF Touches

GeneratedSet(q) == {SetOp(p, Generated(q)[p]) : p \in DOMAIN Generated(q)}

LEMMA SetOpFields ==
  ASSUME NEW p, NEW v
  PROVE  SetOp(p, v).kind = "set" /\ SetOp(p, v).pointer = p /\ SetOp(p, v).value = v
BY DEF SetOp

LEMMA SetsArePatch ==
  ASSUME NEW f, f = [p \in DOMAIN f |-> f[p]], IsFiniteSet(DOMAIN f),
         \A p \in DOMAIN f : p \in Pointers /\ p # << >> /\ IsTree(f[p]),
         \A p, r \in DOMAIN f : Len(p) = Len(r)
  PROVE  IsPatch(SetToSeq({SetOp(p, f[p]) : p \in DOMAIN f}), {SetOp(p, f[p]) : p \in DOMAIN f})
<1> DEFINE S == {SetOp(p, f[p]) : p \in DOMAIN f}
           g == [p \in DOMAIN f |-> SetOp(p, f[p])]
<1>1. IsFiniteSet({g[p] : p \in DOMAIN f})
  <2>1. g = [p \in DOMAIN f |-> g[p]]
    OBVIOUS
  <2> HIDE DEF g
  <2> QED BY <2>1, ImageIsFinite
<1>2. {g[p] : p \in DOMAIN f} = S
  OBVIOUS
<1>3. AreOperations(S)
  BY SetOpFields DEF AreOperations, IsOperation
<1>4. Apart(S)
  BY SetOpFields, SameLengthApart DEF Apart
<1> HIDE DEF S
<1>5. IsFiniteSet(S)
  BY <1>1, <1>2
<1> QED BY <1>3, <1>4, <1>5, SetAsList DEF IsPatch, S

LEMMA GeneratedIsPatch ==
  ASSUME NEW q, IsSource(q)
  PROVE  IsPatch(GeneratedOps(q), GeneratedSet(q))
<1> DEFINE f == Generated(q)
<1>1. f = [p \in DOMAIN f |-> f[p]] /\ IsFiniteSet(DOMAIN f)
  BY GeneratedNodes, GeneratedFinite
<1>2. \A p \in DOMAIN f : p \in Pointers /\ p # << >> /\ IsTree(f[p]) /\ Len(p) = 3
  BY GeneratedValues
<1> HIDE DEF f
<1>3. IsPatch(SetToSeq({SetOp(p, f[p]) : p \in DOMAIN f}), {SetOp(p, f[p]) : p \in DOMAIN f})
  BY <1>1, <1>2, SetsArePatch
<1> QED BY <1>3 DEF f, GeneratedOps, GeneratedSet

\* A set of values put in a document.
LEMMA SetsResult ==
  ASSUME NEW f, \A p \in DOMAIN f : p \in Pointers /\ IsTree(f[p]),
         NEW t, NEW d, NEW S, S = {SetOp(p, f[p]) : p \in DOMAIN f}, Result(t, S, d)
  PROVE  /\ IsDocument(d)
         /\ \A p \in DOMAIN f : p \in DOMAIN d /\ ValueAt(d, p) = f[p]
         /\ \A x \in Pointers : (\A p \in DOMAIN f : ~IsPrefix(p, x)) =>
              /\ x \in DOMAIN d <=> x \in DOMAIN t \/ \E p \in DOMAIN f : x \in Above(p)
              /\ x \in DOMAIN d => d[x] = IF x \in DOMAIN t THEN t[x] ELSE Table
<1>0. IsTree(d) /\ IsDocument(d)
  BY DEF Result, IsDocument
<1>1. ASSUME NEW p \in DOMAIN f PROVE p \in DOMAIN d /\ ValueAt(d, p) = f[p]
  <2> DEFINE o == SetOp(p, f[p])
  <2>1. o \in S /\ o.kind = "set" /\ o.pointer = p /\ o.value = f[p]
    BY SetOpFields
  <2>2. ValueAt(d, p) = Combined(t, o)
    BY <2>1 DEF Result
  <2>3. Combined(t, o) = f[p]
    BY <2>1 DEF Combined
  <2>4. p \in Pointers /\ IsTree(f[p])
    OBVIOUS
  <2>5. p \in DOMAIN d
    <3> DEFINE v == ValueAt(d, p)
    <3>1. \A r \in Pointers : r \in DOMAIN v <=> p \o r \in DOMAIN d
      BY <1>0, <2>4, ValueNodes
    <3>2. << >> \in DOMAIN v /\ << >> \in Pointers
      BY <2>2, <2>3, <2>4, TreeNodes
    <3> HIDE DEF v
    <3> QED BY <2>4, <3>1, <3>2, JoinRoot
  <2> QED BY <2>2, <2>3, <2>5
<1>2. ASSUME NEW x \in Pointers, \A p \in DOMAIN f : ~IsPrefix(p, x)
      PROVE  /\ x \in DOMAIN d <=> x \in DOMAIN t \/ \E p \in DOMAIN f : x \in Above(p)
             /\ x \in DOMAIN d => d[x] = IF x \in DOMAIN t THEN t[x] ELSE Table
  <2>1. Outside(S, x)
    BY <1>2, SetOpFields DEF Outside
  <2>2. MadeFor(S, x) <=> \E p \in DOMAIN f : x \in Above(p)
    <3>1. ASSUME NEW p \in DOMAIN f, x \in Above(p) PROVE MadeFor(S, x)
      <4>1. SetOp(p, f[p]) \in S
        OBVIOUS
      <4>2. SetOp(p, f[p]).kind # "delete" /\ SetOp(p, f[p]).pointer = p
        BY SetOpFields
      <4> QED BY <3>1, <4>1, <4>2 DEF MadeFor
    <3>2. ASSUME NEW o \in S, x \in Above(o.pointer) PROVE \E p \in DOMAIN f : x \in Above(p)
      BY <3>2, SetOpFields
    <3> QED BY <3>1, <3>2 DEF MadeFor
  <2> QED BY <2>1, <2>2 DEF Result
<1> QED BY <1>0, <1>1, <1>2

LEMMA GeneratedResult ==
  ASSUME NEW q, IsSource(q), NEW t, NEW d, Result(t, GeneratedSet(q), d)
  PROVE  /\ IsDocument(d)
         /\ \A p \in DOMAIN Generated(q) : p \in DOMAIN d /\ ValueAt(d, p) = Generated(q)[p]
         /\ \A x \in Pointers : (\A p \in DOMAIN Generated(q) : ~IsPrefix(p, x)) =>
              /\ x \in DOMAIN d <=> x \in DOMAIN t \/ \E p \in DOMAIN Generated(q) : x \in Above(p)
              /\ x \in DOMAIN d => d[x] = IF x \in DOMAIN t THEN t[x] ELSE Table
<1> DEFINE G == Generated(q)
           S == GeneratedSet(q)
<1>1. S = {SetOp(p, G[p]) : p \in DOMAIN G}
  BY DEF GeneratedSet
<1>2. \A p \in DOMAIN G : p \in Pointers /\ IsTree(G[p])
  BY GeneratedValues
<1>3. Result(t, S, d)
  OBVIOUS
<1> HIDE DEF G, S
<1>4. /\ IsDocument(d)
      /\ \A p \in DOMAIN G : p \in DOMAIN d /\ ValueAt(d, p) = G[p]
      /\ \A x \in Pointers : (\A p \in DOMAIN G : ~IsPrefix(p, x)) =>
           /\ x \in DOMAIN d <=> x \in DOMAIN t \/ \E p \in DOMAIN G : x \in Above(p)
           /\ x \in DOMAIN d => d[x] = IF x \in DOMAIN t THEN t[x] ELSE Table
  BY <1>1, <1>2, <1>3, SetsResult
<1> QED BY <1>4 DEF G

-----------------------------------------------------------------------------
(* Reconciling: what is withdrawn from a document.                         *)

\* Every node leads to one of A: the node itself, or one below it.
Leads(t, A) == \A x \in DOMAIN t \ {<< >>} : \E y \in DOMAIN t \cap A : IsPrefix(x, y)

\* u is t without the pointers of P and the tables that leaves empty.
Pruned(t, P, u) ==
  /\ IsDocument(u)
  /\ \A x \in DOMAIN u : x \in DOMAIN t /\ u[x] = t[x]
  /\ \A p \in P : p \notin DOMAIN u
  /\ \A x \in DOMAIN t : x \notin DOMAIN u => \E p \in P : IsPrefix(p, x) \/ (x \in Above(p) /\ t[x] = Table)
  /\ \A A : Leads(t, A) => Leads(u, A)

LEMMA PrunedNone ==
  ASSUME NEW t, IsDocument(t)
  PROVE  Pruned(t, {}, t) /\ \A u : Pruned(t, {}, u) => u = t
<1>1. Pruned(t, {}, t)
  BY DEF Pruned
<1>2. ASSUME NEW u, Pruned(t, {}, u) PROVE u = t
  <2>1. IsTree(t) /\ IsTree(u)
    BY <1>2 DEF Pruned, IsDocument
  <2>2. \A x \in Pointers : (x \in DOMAIN u <=> x \in DOMAIN t) /\ (x \in DOMAIN u => u[x] = t[x])
    BY <1>2 DEF Pruned
  <2> QED BY <2>1, <2>2, TreeNodes, SameTree
<1> QED BY <1>1, <1>2

\* Withdrawing a pointer leaves no table that leads nowhere.
LEMMA WithdrawnLeads ==
  ASSUME NEW t, IsDocument(t), NEW p \in Pointers \ {<< >>}, NEW A, Leads(t, A)
  PROVE  Leads(Withdrawn(t, p), A)
<1> DEFINE u == Withdrawn(t, p)
<1>0. IsTree(t)
  BY DEF IsDocument
<1>1. /\ IsDocument(u)
      /\ \A q \in Pointers : q \in DOMAIN u <=>
           /\ q \in DOMAIN t /\ ~IsPrefix(p, q)
           /\ q \in Above(p) \ {<< >>} => \E r \in Below(t, q) : ~Touches(r, p)
  BY WithdrawnNodes
<1>2. DOMAIN u \subseteq Pointers
  BY <1>1, TreeNodes DEF IsDocument
<1> HIDE DEF u
<1>3. ASSUME NEW x \in DOMAIN u, x # << >> PROVE \E y \in DOMAIN u \cap A : IsPrefix(x, y)
  <2>0. x \in Pointers /\ x \in DOMAIN t /\ ~IsPrefix(p, x)
    BY <1>1, <1>2
  <2>1. PICK y \in DOMAIN t \cap A : IsPrefix(x, y)
    BY <1>3, <2>0 DEF Leads
  <2>2. y \in Pointers
    BY <1>0, TreeNodes
  <2>3. CASE ~Touches(y, p)
    <3>1. ~IsPrefix(p, y) /\ y \notin Above(p)
      BY <2>2, <2>3, AboveIs DEF Touches
    <3> QED BY <1>1, <2>1, <2>2, <3>1
  <2>4. CASE Touches(y, p) /\ x \notin Above(p)
    <3>1. ~IsPrefix(y, p)
      <4>1. ASSUME IsPrefix(y, p) PROVE FALSE
        <5>1. IsPrefix(x, p) /\ x # p
          BY <2>0, <2>1, <2>2, <4>1, PrefixTransitive, PrefixReflexive
        <5> QED BY <2>0, <2>4, <5>1, AboveIs
      <4> QED BY <4>1
    <3>2. IsPrefix(p, y)
      BY <2>4, <3>1 DEF Touches
    <3>3. IsPrefix(x, p) /\ x # p
      BY <2>0, <2>1, <2>2, <3>2, PrefixesMeet, PrefixReflexive
    <3> QED BY <2>0, <2>4, <3>3, AboveIs
  <2>5. CASE x \in Above(p)
    <3>1. PICK r \in Below(t, x) : ~Touches(r, p)
      BY <1>1, <1>3, <2>0, <2>5
    <3>2. r \in DOMAIN t /\ r \in Pointers /\ IsPrefix(x, r)
      BY <1>0, <2>0, <3>1, BelowIs
    <3>3. r # << >>
      BY <1>3, <2>0, <3>2, RootPrefix
    <3>4. PICK z \in DOMAIN t \cap A : IsPrefix(r, z)
      BY <3>2, <3>3 DEF Leads
    <3>5. z \in Pointers
      BY <1>0, TreeNodes
    <3>6. IsPrefix(x, z)
      BY <2>0, <3>2, <3>4, <3>5, PrefixTransitive
    <3>7. ~IsPrefix(p, z)
      BY <3>1, <3>2, <3>4, <3>5, BelowOne
    <3>8. ~IsPrefix(z, p)
      <4>1. ASSUME IsPrefix(z, p) PROVE FALSE
        <5>1. IsPrefix(r, p)
          BY <3>2, <3>4, <3>5, <4>1, PrefixTransitive
        <5> QED BY <3>1, <5>1 DEF Touches
      <4> QED BY <4>1
    <3>9. z \notin Above(p)
      BY <3>8, AboveIs
    <3>10. z \in DOMAIN u
      BY <1>1, <3>4, <3>5, <3>7, <3>9
    <3> QED BY <3>4, <3>6, <3>10
  <2> QED BY <2>3, <2>4, <2>5
<1> QED BY <1>3 DEF Leads, u

LEMMA PrunedStep ==
  ASSUME NEW t, IsDocument(t), NEW P, NEW u, Pruned(t, P, u), NEW p \in Pointers \ {<< >>},
         NEW w, w = IF p \in DOMAIN u THEN Withdrawn(u, p) ELSE u
  PROVE  Pruned(t, P \cup {p}, w)
<1>0. IsDocument(u) /\ IsTree(u) /\ IsTree(t)
  BY DEF Pruned, IsDocument
<1>1. CASE p \notin DOMAIN u
  BY <1>1 DEF Pruned
<1>2. CASE p \in DOMAIN u
  <2>1. /\ IsDocument(w)
        /\ \A q \in Pointers : q \in DOMAIN w <=>
             /\ q \in DOMAIN u /\ ~IsPrefix(p, q)
             /\ q \in Above(p) \ {<< >>} => \E r \in Below(u, q) : ~Touches(r, p)
        /\ \A q \in DOMAIN w : w[q] = u[q]
    BY <1>0, <1>2, WithdrawnNodes
  <2>2. DOMAIN w \subseteq Pointers /\ DOMAIN t \subseteq Pointers
    BY <1>0, <2>1, TreeNodes DEF IsDocument
  <2>3. \A x \in DOMAIN w : x \in DOMAIN u /\ w[x] = u[x]
    BY <2>1, <2>2
  <2>4. \A x \in DOMAIN w : x \in DOMAIN t /\ w[x] = t[x]
    BY <2>3 DEF Pruned
  <2>5. p \notin DOMAIN w
    BY <2>1, PrefixReflexive
  <2>6. \A r \in P \cup {p} : r \notin DOMAIN w
    BY <2>3, <2>5 DEF Pruned
  <2>7. ASSUME NEW x \in DOMAIN t, x \notin DOMAIN w
        PROVE  \E r \in P \cup {p} : IsPrefix(r, x) \/ (x \in Above(r) /\ t[x] = Table)
    <3>1. CASE x \notin DOMAIN u
      BY <3>1 DEF Pruned
    <3>2. CASE x \in DOMAIN u
      <4>1. IsPrefix(p, x) \/ x \in Above(p)
        BY <2>1, <2>2, <2>7, <3>2
      <4>2. p \in DOMAIN t
        BY <1>2 DEF Pruned
      <4>3. x \in Above(p) => t[x] = Table
        BY <1>0, <4>2 DEF IsTree
      <4> QED BY <4>1, <4>3
    <3> QED BY <3>1, <3>2
  <2>8. ASSUME NEW A, Leads(t, A) PROVE Leads(w, A)
    <3>1. Leads(u, A)
      BY <2>8 DEF Pruned
    <3> QED BY <1>0, <1>2, <3>1, WithdrawnLeads
  <2> QED BY <2>1, <2>4, <2>6, <2>7, <2>8 DEF Pruned
<1> QED BY <1>1, <1>2

\* A manifest: pointers of generated values, and values.
Owns(m) ==
  /\ IsFiniteSet(DOMAIN m)
  /\ \A p \in DOMAIN m : p \in Pointers /\ p # << >> /\ Len(p) = 3 /\ IsTree(m[p])

LEMMA ReconciledIs ==
  ASSUME NEW q, IsDocument(doc), Owns(owned)
  PROVE  Pruned(doc, DOMAIN owned \ DOMAIN Generated(q), Reconciled(q))
<1> DEFINE S == DOMAIN owned \ DOMAIN Generated(q)
           stale == SetToSeq(S)
<1>0. IsFiniteSet(S) /\ S \subseteq Pointers \ {<< >>}
  BY FS_Subset DEF Owns
<1>1. stale \in Seq(S) /\ ToSet(stale) = S
  <2> HIDE DEF S
  <2> QED BY <1>0, SetAsList
<1>2. Len(stale) \in Nat /\ \A n \in 1..Len(stale) : stale[n] \in S
  <2> HIDE DEF stale, S
  <2> QED BY <1>1
<1>2a. PICK g : WithdrawnInSteps(g, q, stale)
  <2>1. stale = SetToSeq(DOMAIN owned \ DOMAIN Generated(q)) /\ Len(stale) \in Nat
    BY <1>2
  <2> HIDE DEF stale
  <2> QED BY <2>1, WithdrawSteps
<1>3. /\ Reconciled(q) = g[Len(stale)] /\ g[0] = doc
      /\ \A n \in 1..Len(stale) :
           g[n] = IF stale[n] \in DOMAIN g[n - 1] THEN Withdrawn(g[n - 1], stale[n]) ELSE g[n - 1]
  <2> HIDE DEF stale
  <2> QED BY <1>2a DEF WithdrawnInSteps
<1> DEFINE First(n) == {stale[k] : k \in 1..n}
           T == {n \in Nat : n <= Len(stale) => Pruned(doc, First(n), g[n])}
<1>4. 0 \in T
  <2>1. First(0) = {}
    OBVIOUS
  <2> HIDE DEF First
  <2> QED BY <1>3, <2>1, PrunedNone
<1> HIDE DEF stale
<1>5. ASSUME NEW n \in Nat, n \in T PROVE n + 1 \in T
  <2> SUFFICES ASSUME n + 1 <= Len(stale) PROVE Pruned(doc, First(n + 1), g[n + 1])
    OBVIOUS
  <2>1. n + 1 \in 1..Len(stale) /\ n <= Len(stale) /\ (n + 1) - 1 = n
    BY <1>2
  <2>2. Pruned(doc, First(n), g[n])
    BY <1>5, <2>1
  <2>3. First(n + 1) = First(n) \cup {stale[n + 1]}
    <3>1. 1..n + 1 = 1..n \cup {n + 1}
      OBVIOUS
    <3> QED BY <3>1
  <2>4. stale[n + 1] \in Pointers \ {<< >>}
    BY <1>0, <1>2, <2>1
  <2>5. g[n + 1] = IF stale[n + 1] \in DOMAIN g[n] THEN Withdrawn(g[n], stale[n + 1]) ELSE g[n]
    BY <1>3, <2>1
  <2> DEFINE F == First(n)
             u == g[n]
             w == g[n + 1]
             p == stale[n + 1]
  <2>6. Pruned(doc, F, u) /\ p \in Pointers \ {<< >>} /\ w = IF p \in DOMAIN u THEN Withdrawn(u, p) ELSE u
    BY <2>2, <2>4, <2>5
  <2>7. First(n + 1) = F \cup {p}
    BY <2>3
  <2> HIDE DEF F, u, w, p, First
  <2>8. Pruned(doc, F \cup {p}, w)
    BY <2>6, PrunedStep
  <2> QED BY <2>7, <2>8 DEF w
<1>6. First(Len(stale)) = S
  <2> HIDE DEF S
  <2> QED BY <1>1, EntriesInSet
<1> HIDE DEF T, First
<1>7. Len(stale) \in T
  BY <1>2, <1>4, <1>5, NatSetInduction
<1> HIDE DEF S
<1>8. Pruned(doc, S, Reconciled(q))
  BY <1>2, <1>3, <1>6, <1>7 DEF T
<1> QED BY <1>8 DEF S

-----------------------------------------------------------------------------
(* What a run prepares.                                                    *)

\* The plan of q takes t to u, through d with the generated values.
Makes(q, t, d, u) ==
  /\ Valid(q) /\ IsDocument(t)
  /\ \A o \in GeneratedSet(q) : Applies(t, o)
  /\ Result(t, GeneratedSet(q), d)
  /\ \A o \in SharedSet(q) : Applies(d, o)
  /\ Result(d, SharedSet(q), u)
  /\ Complete(u, q)

LEMMA SharedIsPatch ==
  ASSUME NEW q, IsSource(q), Valid(q)
  PROVE  IsPatch(Shared(q), SharedSet(q))
BY SharedEntries DEF Valid

Planned(q, t) == {u \in UNION {AppliedAll(d, Shared(q)) : d \in AppliedAll(t, GeneratedOps(q))} : Complete(u, q)}

LEMMA PlannedIs ==
  ASSUME NEW q, IsSource(q), Valid(q), NEW t, IsDocument(t)
  PROVE  /\ \A u \in Planned(q, t) : \E d : Makes(q, t, d, u)
         /\ \A d, u : Makes(q, t, d, u) => Planned(q, t) = {u}
<1>0. IsPatch(GeneratedOps(q), GeneratedSet(q)) /\ IsPatch(Shared(q), SharedSet(q))
  BY GeneratedIsPatch, SharedIsPatch
<1>1. ASSUME NEW d \in AppliedAll(t, GeneratedOps(q))
      PROVE  /\ \A o \in GeneratedSet(q) : Applies(t, o)
             /\ AppliedAll(t, GeneratedOps(q)) = {d} /\ Result(t, GeneratedSet(q), d)
  <2>1. \A o \in GeneratedSet(q) : Applies(t, o)
    <3>1. (\E o \in GeneratedSet(q) : ~Applies(t, o)) => AppliedAll(t, GeneratedOps(q)) = {}
      BY <1>0, AppliedAllIs
    <3> QED BY <1>1, <3>1
  <2>2. PICK w : AppliedAll(t, GeneratedOps(q)) = {w} /\ Result(t, GeneratedSet(q), w)
    BY <1>0, <2>1, AppliedAllIs
  <2> QED BY <1>1, <2>1, <2>2
<1>2. ASSUME NEW d, IsDocument(d), NEW u \in AppliedAll(d, Shared(q))
      PROVE  /\ \A o \in SharedSet(q) : Applies(d, o)
             /\ AppliedAll(d, Shared(q)) = {u} /\ Result(d, SharedSet(q), u)
  <2>1. \A o \in SharedSet(q) : Applies(d, o)
    <3>1. (\E o \in SharedSet(q) : ~Applies(d, o)) => AppliedAll(d, Shared(q)) = {}
      BY <1>0, <1>2, AppliedAllIs
    <3> QED BY <1>2, <3>1
  <2>2. PICK w : AppliedAll(d, Shared(q)) = {w} /\ Result(d, SharedSet(q), w)
    BY <1>0, <1>2, <2>1, AppliedAllIs
  <2> QED BY <1>2, <2>1, <2>2
<1>3. ASSUME NEW u \in Planned(q, t) PROVE \E d : Makes(q, t, d, u)
  <2>1. PICK d \in AppliedAll(t, GeneratedOps(q)) : u \in AppliedAll(d, Shared(q))
    BY <1>3 DEF Planned
  <2>2. /\ \A o \in GeneratedSet(q) : Applies(t, o)
        /\ Result(t, GeneratedSet(q), d)
    BY <1>1
  <2>3. IsDocument(d)
    BY <2>2 DEF Result
  <2>4. (\A o \in SharedSet(q) : Applies(d, o)) /\ Result(d, SharedSet(q), u)
    BY <1>2, <2>1, <2>3
  <2>5. Complete(u, q)
    BY <1>3 DEF Planned
  <2> QED BY <2>2, <2>4, <2>5 DEF Makes
<1>4. ASSUME NEW d, NEW u, Makes(q, t, d, u) PROVE Planned(q, t) = {u}
  <2>1. /\ \A o \in GeneratedSet(q) : Applies(t, o)
        /\ Result(t, GeneratedSet(q), d) /\ IsDocument(d)
        /\ \A o \in SharedSet(q) : Applies(d, o)
        /\ Result(d, SharedSet(q), u)
        /\ Complete(u, q)
    BY <1>4 DEF Makes, Result
  <2>2. PICK e : AppliedAll(t, GeneratedOps(q)) = {e} /\ Result(t, GeneratedSet(q), e)
    BY <1>0, <2>1, AppliedAllIs
  <2>3. e = d
    BY <1>0, <2>1, <2>2, ResultUnique DEF IsPatch
  <2>4. PICK w : AppliedAll(d, Shared(q)) = {w} /\ Result(d, SharedSet(q), w)
    BY <1>0, <2>1, AppliedAllIs
  <2>5. w = u
    BY <1>0, <2>1, <2>4, ResultUnique DEF IsPatch
  <2>6. UNION {AppliedAll(x, Shared(q)) : x \in AppliedAll(t, GeneratedOps(q))} = {u}
    BY <2>2, <2>3, <2>4, <2>5
  <2> QED BY <2>1, <2>6 DEF Planned
<1> QED BY <1>3, <1>4

LEMMA CandidatesAre ==
  ASSUME NEW q, IsSource(q), IsDocument(doc), Owns(owned)
  PROVE  /\ \A u \in Candidates(q) : Conflicts(q) = {} /\ Valid(q) /\ \E d : Makes(q, Reconciled(q), d, u)
         /\ \A d, u : Conflicts(q) = {} /\ Makes(q, Reconciled(q), d, u) => Candidates(q) = {u}
<1>1. IsDocument(Reconciled(q))
  BY ReconciledIs DEF Pruned
<1>2. Candidates(q) = IF ~Valid(q) \/ Conflicts(q) # {} THEN {} ELSE Planned(q, Reconciled(q))
  BY DEF Candidates, Planned
<1>3. ASSUME NEW u \in Candidates(q)
      PROVE  Conflicts(q) = {} /\ Valid(q) /\ \E d : Makes(q, Reconciled(q), d, u)
  <2>1. Conflicts(q) = {} /\ Valid(q) /\ u \in Planned(q, Reconciled(q))
    BY <1>2, <1>3
  <2> QED BY <1>1, <2>1, PlannedIs
<1>4. ASSUME NEW d, NEW u, Conflicts(q) = {}, Makes(q, Reconciled(q), d, u) PROVE Candidates(q) = {u}
  <2>1. Valid(q)
    BY <1>4 DEF Makes
  <2>2. Planned(q, Reconciled(q)) = {u}
    BY <1>1, <1>4, <2>1, PlannedIs
  <2> QED BY <1>2, <1>4, <2>1, <2>2
<1> QED BY <1>3, <1>4
-----------------------------------------------------------------------------
(* What is made.                                                           *)

\* No operation that is left for the shared file touches a generated value,
\* but at its pointer, to contribute to it.
LEMMA SharedClash ==
  ASSUME NEW q, IsSource(q), Valid(q), NEW o \in SharedSet(q), NEW p \in DOMAIN Generated(q), Touches(o.pointer, p)
  PROVE  o.pointer = p /\ Contributes(o, p, Generated(q)[p]) /\ o.kind # "delete"
<1>1. PICK n \in DOMAIN Shared(q) : Shared(q)[n] = o
  BY SharedEntries DEF ToSet
<1>2. ~Clashes(o, Generated(q))
  BY <1>1 DEF Valid
<1>3. Contributes(o, p, Generated(q)[p])
  BY <1>2 DEF Clashes
<1> QED BY <1>3 DEF Contributes

\* Where nothing contributes, the generated value stays.
LEMMA MadeAtGenerated ==
  ASSUME NEW q, IsSource(q), NEW t, NEW d, NEW u, Makes(q, t, d, u), NEW p \in DOMAIN Generated(q)
  PROVE  /\ p \in DOMAIN u
         /\ (\A o \in SharedSet(q) : o.pointer # p) => ValueAt(u, p) = Generated(q)[p]
         /\ \A o \in SharedSet(q) : o.pointer = p =>
              /\ o.kind \in {"set", "overlay"}
              /\ o.kind = "set" => ValueAt(u, p) = Generated(q)[p]
              /\ o.kind = "overlay" => ValueAt(u, p) = Overlaid(Generated(q)[p], o.value)
<1>0. /\ Valid(q) /\ IsDocument(d) /\ IsTree(d) /\ IsDocument(u) /\ IsTree(u)
      /\ Result(t, GeneratedSet(q), d) /\ Result(d, SharedSet(q), u) /\ Complete(u, q)
      /\ AreOperations(SharedSet(q))
  BY SharedEntries DEF Makes, Result, IsDocument
<1>1. p \in DOMAIN u
  BY <1>0 DEF Complete
<1>2. p \in DOMAIN d /\ ValueAt(d, p) = Generated(q)[p]
  BY <1>0, GeneratedResult
<1>3. p \in Pointers /\ Generated(q)[p][<< >>] \notin ListLeaves
  BY GeneratedValues
<1>4. ASSUME \A o \in SharedSet(q) : o.pointer # p PROVE ValueAt(u, p) = Generated(q)[p]
  <2>1. \A o \in SharedSet(q) : ~Touches(o.pointer, p)
    BY <1>0, <1>4, SharedClash
  <2>2. AlikeBelow(d, u, p)
    BY <1>0, <1>3, <2>1, UntouchedIs
  <2>3. ValueAt(d, p) = ValueAt(u, p)
    BY <1>0, <1>3, <2>2, SameValue
  <2> QED BY <1>2, <2>3
<1>5. ASSUME NEW o \in SharedSet(q), o.pointer = p
      PROVE  /\ o.kind \in {"set", "overlay"}
             /\ o.kind = "set" => ValueAt(u, p) = Generated(q)[p]
             /\ o.kind = "overlay" => ValueAt(u, p) = Overlaid(Generated(q)[p], o.value)
  <2>1. Touches(o.pointer, p)
    BY <1>3, <1>5, PrefixReflexive DEF Touches
  <2>2. Contributes(o, p, Generated(q)[p])
    BY <1>0, <2>1, SharedClash
  <2>3. o.kind \in {"set", "overlay"} /\ (o.kind = "set" => o.value = Generated(q)[p])
    BY <1>3, <2>2 DEF Contributes
  <2>4. ValueAt(u, p) = Combined(d, o)
    BY <1>0, <1>5, <2>3 DEF Result
  <2> QED BY <1>2, <1>5, <2>3, <2>4 DEF Combined
<1> QED BY <1>1, <1>4, <1>5
-----------------------------------------------------------------------------
(* Preparing again, on what was made.                                      *)

\* Reconciling is idempotent: what a plan made, the same plan makes again from
\* it (prepare_plan_native, as --check runs it).
THEOREM MadeAgain ==
  ASSUME NEW q, IsSource(q), NEW t, NEW d, NEW u, Makes(q, t, d, u)
  PROVE  \E e : Makes(q, u, e, u)
<1> DEFINE G == Generated(q)
           S == SharedSet(q)
<1>0. /\ Valid(q) /\ IsDocument(d) /\ IsTree(d) /\ IsDocument(u) /\ IsTree(u)
      /\ Result(t, GeneratedSet(q), d) /\ Result(d, S, u) /\ Complete(u, q)
      /\ \A o \in S : Applies(d, o)
      /\ AreOperations(S) /\ Apart(S) /\ IsPatch(GeneratedOps(q), GeneratedSet(q))
  BY SharedEntries, SharedIsPatch, GeneratedIsPatch DEF Makes, Result, IsDocument, IsPatch
<1>0a. \A o \in S : o.pointer \in Pointers /\ IsOperation(o)
  BY <1>0, OperationFields DEF AreOperations
<1>1. ASSUME NEW g \in GeneratedSet(q) PROVE Applies(u, g)
  <2>1. g.kind = "set" /\ g.pointer \in DOMAIN G
    BY SetOpFields DEF GeneratedSet
  <2>2. g.pointer \in DOMAIN u
    BY <1>0, <2>1 DEF Complete
  <2>3. \A x \in Above(g.pointer) : u[x] = Table
    BY <1>0, <2>2 DEF IsTree
  <2> QED BY <2>1, <2>3 DEF Applies
<1>2. PICK e : Result(u, GeneratedSet(q), e)
  BY <1>0, <1>1, AppliedAllIs
<1>3. /\ IsDocument(e) /\ IsTree(e)
      /\ \A p \in DOMAIN G : p \in DOMAIN e /\ ValueAt(e, p) = G[p]
      /\ \A x \in Pointers : (\A p \in DOMAIN G : ~IsPrefix(p, x)) =>
           /\ x \in DOMAIN e <=> x \in DOMAIN u \/ \E p \in DOMAIN G : x \in Above(p)
           /\ x \in DOMAIN e => e[x] = IF x \in DOMAIN u THEN u[x] ELSE Table
  <2>1. IsDocument(e) /\ \A p \in DOMAIN G : p \in DOMAIN e /\ ValueAt(e, p) = G[p]
    BY <1>2, GeneratedResult
  <2> QED BY <1>2, <2>1, GeneratedResult DEF IsDocument
<1>4. ASSUME NEW x \in Pointers, \A p \in DOMAIN G : ~IsPrefix(p, x)
      PROVE  (x \in DOMAIN e <=> x \in DOMAIN u) /\ (x \in DOMAIN u => e[x] = u[x])
  <2>1. ASSUME NEW p \in DOMAIN G, x \in Above(p) PROVE x \in DOMAIN u
    <3>1. p \in DOMAIN u
      BY <1>0 DEF Complete
    <3> QED BY <1>0, <2>1, <3>1 DEF IsTree
  <2> QED BY <1>3, <1>4, <2>1
<1>5. \A p \in DOMAIN G : p \in Pointers
  BY GeneratedValues
<1>6. ASSUME NEW o \in S
      PROVE  /\ Applies(e, o)
             /\ IF o.kind = "delete" THEN o.pointer \notin DOMAIN e ELSE Combined(e, o) = Combined(d, o)
             /\ (\A p \in DOMAIN G : o.pointer # p) => AlikeBelow(e, u, o.pointer)
  <2>0. o.pointer \in Pointers /\ IsOperation(o)
    BY <1>0a
  <2>1. ASSUME NEW x \in Above(o.pointer)
        PROVE  (x \in DOMAIN e <=> x \in DOMAIN u) /\ (x \in DOMAIN u => e[x] = u[x] /\ u[x] = Table)
    <3>1. x \in Pointers /\ IsPrefix(x, o.pointer) /\ x # o.pointer
      BY <2>0, AboveIs
    <3>2. ASSUME NEW p \in DOMAIN G, IsPrefix(p, x) PROVE FALSE
      <4>1. IsPrefix(p, o.pointer)
        BY <1>5, <2>0, <3>1, <3>2, PrefixTransitive
      <4>2. o.pointer = p
        BY <1>0, <4>1, SharedClash DEF Touches
      <4> QED BY <2>0, <3>1, <3>2, <4>2, PrefixAntisymmetric
    <3>3. ASSUME NEW m \in S PROVE ~IsPrefix(m.pointer, x)
      <4>0. m.pointer \in Pointers
        BY <1>0a
      <4>1. ASSUME IsPrefix(m.pointer, x) PROVE FALSE
        <5>1. IsPrefix(m.pointer, o.pointer)
          BY <2>0, <3>1, <4>0, <4>1, PrefixTransitive
        <5>2. m = o
          BY <1>0, <5>1 DEF Apart, Touches
        <5> QED BY <2>0, <3>1, <4>1, <5>2, PrefixAntisymmetric
      <4> QED BY <4>1
    <3>4. Outside(S, x)
      BY <3>3 DEF Outside
    <3>5. ASSUME x \in DOMAIN u PROVE u[x] = Table
      <4>1. u[x] = IF x \in DOMAIN d THEN d[x] ELSE Table
        BY <1>0, <3>1, <3>4, <3>5 DEF Result
      <4>2. x \in DOMAIN d => d[x] = Table
        <5>1. Applies(d, o)
          BY <1>0
        <5> QED BY <5>1 DEF Applies
      <4> QED BY <4>1, <4>2
    <3> QED BY <1>4, <3>1, <3>2, <3>5
  <2>2. CASE o.pointer \in DOMAIN G
    <3> DEFINE p == o.pointer
    <3>1. Contributes(o, p, G[p]) /\ o.kind # "delete"
      BY <1>0, <2>0, <2>2, PrefixReflexive, SharedClash DEF Touches
    <3>2. ValueAt(e, p) = G[p] /\ ValueAt(d, p) = G[p] /\ p \in DOMAIN e /\ p \in DOMAIN d
      BY <1>0, <1>3, <2>2, GeneratedResult
    <3>3. AlikeBelow(d, e, p)
      BY <1>0, <1>3, <2>0, <3>2, SameValue
    <3>4. Combined(d, o) = Combined(e, o)
      BY <1>0, <1>3, <2>0, <3>3, CombinedSame
    <3>5. d[p] = e[p]
      BY <2>0, <3>2, <3>3, PrefixReflexive DEF AlikeBelow
    <3>6. Applies(d, o)
      BY <1>0
    <3>7. Applies(e, o)
      BY <2>1, <3>2, <3>5, <3>6 DEF Applies
    <3> QED BY <2>2, <3>1, <3>4, <3>7
  <2>3. CASE o.pointer \notin DOMAIN G
    <3>1. ASSUME NEW x \in Pointers, IsPrefix(o.pointer, x)
          PROVE  (x \in DOMAIN e <=> x \in DOMAIN u) /\ (x \in DOMAIN e => e[x] = u[x])
      <4>1. \A p \in DOMAIN G : ~IsPrefix(p, x)
        <5>1. ASSUME NEW p \in DOMAIN G, IsPrefix(p, x) PROVE FALSE
          <6>1. Touches(o.pointer, p)
            BY <1>5, <2>0, <3>1, <5>1, PrefixesMeet DEF Touches
          <6> QED BY <1>0, <2>3, <6>1, SharedClash
        <5> QED BY <5>1
      <4> QED BY <1>4, <3>1, <4>1
    <3>2. AlikeBelow(e, u, o.pointer)
      BY <3>1 DEF AlikeBelow
    <3>3. o.pointer \in DOMAIN e <=> o.pointer \in DOMAIN u
      BY <2>0, <3>1, PrefixReflexive
    <3>4. o.pointer \in DOMAIN e => e[o.pointer] = u[o.pointer]
      BY <2>0, <3>1, PrefixReflexive
    <3>5. CASE o.kind = "delete"
      <4>1. o.pointer \notin DOMAIN u
        BY <1>0, <3>5 DEF Result
      <4>2. Applies(e, o)
        BY <2>1, <3>3, <4>1 DEF Applies
      <4> QED BY <3>2, <3>3, <3>5, <4>1, <4>2
    <3>6. CASE o.kind # "delete"
      <4>1. ValueAt(u, o.pointer) = Combined(d, o) /\ Applies(d, o)
        BY <1>0, <3>6 DEF Result
      <4>2. /\ o.pointer \in DOMAIN u /\ u[o.pointer] = Combined(d, o)[<< >>]
            /\ Combined(u, o) = Combined(d, o)
        BY <1>0, <2>0, <4>1, CombinedTwice
      <4>3. Combined(e, o) = Combined(u, o)
        BY <1>0, <1>3, <2>0, <3>2, CombinedSame
      <4>4. /\ o.kind = "overlay" => u[o.pointer] = Table
            /\ o.kind = "extend" => u[o.pointer] \in ListLeaves
        BY <1>0, <2>0, <4>1, <4>2, CombinedIs
      <4>5. Applies(e, o)
        BY <2>1, <3>3, <3>4, <4>2, <4>4 DEF Applies
      <4> QED BY <3>2, <3>6, <4>2, <4>3, <4>5
    <3> QED BY <3>5, <3>6
  <2> QED BY <2>2, <2>3
<1>7. ASSUME NEW x \in Pointers, Outside(S, x)
      PROVE  /\ x \in DOMAIN u <=> x \in DOMAIN e \/ MadeFor(S, x)
             /\ x \in DOMAIN u => u[x] = IF x \in DOMAIN e THEN e[x] ELSE Table
  <2>1. MadeFor(S, x) => x \in DOMAIN u
    BY <1>0, <1>7 DEF Result
  <2>2. (x \in DOMAIN e <=> x \in DOMAIN u) /\ (x \in DOMAIN u => e[x] = u[x])
    <3>1. CASE \A p \in DOMAIN G : ~IsPrefix(p, x)
      BY <1>4, <3>1
    <3>2. ASSUME NEW p \in DOMAIN G, IsPrefix(p, x)
          PROVE  (x \in DOMAIN e <=> x \in DOMAIN u) /\ (x \in DOMAIN u => e[x] = u[x])
      <4>1. \A o \in S : o.pointer # p
        BY <1>7, <3>2 DEF Outside
      <4>2. ValueAt(u, p) = G[p]
        BY <4>1, MadeAtGenerated
      <4>3. ValueAt(e, p) = ValueAt(u, p) /\ p \in Pointers
        BY <1>3, <1>5, <4>2
      <4>4. AlikeBelow(e, u, p)
        BY <1>0, <1>3, <4>3, SameValue
      <4> QED BY <3>2, <4>4 DEF AlikeBelow
    <3> QED BY <3>1, <3>2
  <2> QED BY <2>1, <2>2
<1>8. ASSUME NEW o \in S
      PROVE  IF o.kind = "delete" THEN o.pointer \notin DOMAIN u ELSE ValueAt(u, o.pointer) = Combined(e, o)
  <2>1. IF o.kind = "delete" THEN o.pointer \notin DOMAIN u ELSE ValueAt(u, o.pointer) = Combined(d, o)
    BY <1>0 DEF Result
  <2> QED BY <1>6, <2>1
<1>9. Result(e, S, u)
  BY <1>0, <1>7, <1>8 DEF Result
<1> QED BY <1>0, <1>1, <1>2, <1>6, <1>9 DEF Makes

-----------------------------------------------------------------------------
(* Type correctness.                                                       *)

\* TypeOK, and manifests hold finitely many pointers.
TypeInv ==
  /\ IsDocument(doc) /\ IsDocument(candidate)
  /\ Owns(owned) /\ Owns(record)
  /\ source \in Sources
  /\ pc \in {"idle", "write", "publish"}
  /\ theirs \subseteq DOMAIN doc /\ left \subseteq DOMAIN doc
  /\ outcome \in {"none", "refused", "done", "crashed"}

LEMMA OwnsNothing == Owns(<< >>)
<1>1. DOMAIN << >> = {}
  OBVIOUS
<1> QED BY <1>1, FS_EmptySet DEF Owns

LEMMA RecordOwns ==
  ASSUME NEW q, IsSource(q), NEW t, IsDocument(t), Complete(t, q)
  PROVE  Owns(Record(q, t)) /\ DOMAIN Record(q, t) = DOMAIN Generated(q)
<1>1. DOMAIN Record(q, t) = DOMAIN Generated(q) /\ \A p \in DOMAIN Generated(q) : Record(q, t)[p] = ValueAt(t, p)
  BY DEF Record
<1>2. ASSUME NEW p \in DOMAIN Generated(q) PROVE IsTree(ValueAt(t, p))
  <2>1. p \in DOMAIN t
    BY DEF Complete
  <2> QED BY <2>1, ValueIsTree DEF IsDocument
<1> QED BY <1>1, <1>2, GeneratedValues, GeneratedFinite DEF Owns

\* What a tool does to the document.
LEMMA ToolNodesAre ==
  ASSUME NEW n \in ToolNodes
  PROVE  n[1] \in Pointers \ {<< >>} /\ IsTree(Leaf(n[2]))
BY ToolAssumption, LeafIs

LEMMA ToolPuts ==
  ASSUME NEW t, IsDocument(t), NEW p \in Pointers \ {<< >>}, Open(t, p), NEW v, IsTree(Leaf(v))
  PROVE  /\ IsDocument(Put(t, p, Leaf(v)))
         /\ \A q \in Pointers : IsPrefix(p, q) => (q \in DOMAIN Put(t, p, Leaf(v)) <=> q = p)
         /\ \A q \in Pointers : ~IsPrefix(p, q) =>
              /\ q \in DOMAIN Put(t, p, Leaf(v)) <=> q \in DOMAIN t \/ q \in Above(p)
<1> DEFINE u == Put(t, p, Leaf(v))
<1>1. /\ IsDocument(u) /\ ValueAt(u, p) = Leaf(v)
      /\ \A q \in Pointers : ~IsPrefix(p, q) => (q \in DOMAIN u <=> q \in DOMAIN t \/ q \in Above(p))
  BY PutNodes
<1> HIDE DEF u
<1>2. IsTree(u) /\ DOMAIN Leaf(v) = {<< >>} /\ << >> \in Pointers
  BY <1>1, LeafIs, RootPrefix DEF IsDocument
<1>3. \A r \in Pointers : r \in DOMAIN ValueAt(u, p) <=> p \o r \in DOMAIN u
  BY <1>2, ValueNodes
<1>4. \A r \in Pointers : p \o r \in DOMAIN u <=> r = << >>
  BY <1>1, <1>2, <1>3
<1>5. ASSUME NEW q \in Pointers, IsPrefix(p, q) PROVE q \in DOMAIN u <=> q = p
  <2>1. PICK r \in Pointers : p \o r = q
    BY <1>5, RestJoins
  <2>2. r = << >> <=> q = p
    <3>1. p \o << >> = p
      BY JoinRoot
    <3>2. q = p => r = << >>
      BY <1>2, <2>1, <3>1, JoinCancels
    <3> QED BY <2>1, <3>1, <3>2
  <2> QED BY <1>4, <2>1, <2>2
<1> QED BY <1>1, <1>5 DEF u

LEMMA TypeInit ==
  ASSUME Init
  PROVE  TypeInv
BY EmptyIsDocument, OwnsNothing DEF Init, TypeInv

LEMMA SourceIs ==
  ASSUME TypeInv
  PROVE  IsSource(source)
BY SourcesAssumption DEF TypeInv

LEMMA TypeStep ==
  ASSUME TypeInv, [Next]_vars
  PROVE  TypeInv'
<1>0. /\ IsDocument(doc) /\ IsTree(doc) /\ DOMAIN doc \subseteq Pointers
      /\ IsSource(source) /\ Owns(owned)
  BY SourceIs, TreeNodes DEF TypeInv, IsDocument
<1>1. CASE Refuse
  BY <1>1 DEF Refuse, TypeInv
<1>2. CASE Prepare
  <2>1. PICK t \in Candidates(source) : candidate' = t /\ record' = Record(source, t)
    BY <1>2 DEF Prepare
  <2>2. PICK d : Makes(source, Reconciled(source), d, t)
    BY <1>0, <2>1, CandidatesAre
  <2>3. IsDocument(t) /\ Complete(t, source)
    BY <2>2 DEF Makes, Result
  <2>4. Owns(Record(source, t))
    BY <1>0, <2>3, RecordOwns
  <2>5. IsDocument(candidate') /\ Owns(record')
    BY <2>1, <2>3, <2>4
  <2> QED BY <1>2, <2>5 DEF Prepare, TypeInv
<1>3. CASE Write
  BY <1>3 DEF Write, TypeInv
<1>4. CASE Publish
  BY <1>4, EmptyIsDocument, OwnsNothing DEF Publish, TypeInv
<1>5. CASE Crash
  BY <1>5, EmptyIsDocument, OwnsNothing DEF Crash, TypeInv
<1>6. ASSUME NEW n \in ToolNodes, ToolSets(n[1], n[2]) PROVE TypeInv'
  <2> DEFINE p == n[1]
  <2>1. p \in Pointers \ {<< >>} /\ IsTree(Leaf(n[2])) /\ Open(doc, p)
    BY <1>6, ToolNodesAre DEF ToolSets, Open
  <2>2. /\ doc' = Put(doc, p, Leaf(n[2])) /\ theirs' = (theirs \ Below(doc, p)) \cup {p}
        /\ left' = left \ Below(doc, p) /\ outcome' = "none"
        /\ UNCHANGED <<owned, source, pc, candidate, record>>
    BY <1>6 DEF ToolSets
  <2> HIDE DEF p
  <2>3. /\ IsDocument(doc')
        /\ \A q \in Pointers : IsPrefix(p, q) => (q \in DOMAIN doc' <=> q = p)
        /\ \A q \in Pointers : ~IsPrefix(p, q) => (q \in DOMAIN doc' <=> q \in DOMAIN doc \/ q \in Above(p))
    BY <1>0, <2>1, <2>2, ToolPuts
  <2>4. p \in DOMAIN doc'
    BY <2>1, <2>3, PrefixReflexive
  <2>5. DOMAIN doc \ Below(doc, p) \subseteq DOMAIN doc'
    BY <1>0, <2>1, <2>3, BelowIs
  <2>6. theirs' \subseteq DOMAIN doc' /\ left' \subseteq DOMAIN doc'
    BY <2>2, <2>4, <2>5 DEF TypeInv
  <2> QED BY <2>2, <2>3, <2>6 DEF TypeInv
<1>7. ASSUME NEW n \in ToolNodes, ToolRemoves(n[1]) PROVE TypeInv'
  <2> DEFINE p == n[1]
  <2>1. p \in Pointers \ {<< >>} /\ p \in DOMAIN doc
    BY <1>7, ToolNodesAre DEF ToolRemoves
  <2>2. /\ doc' = Without(doc, p) /\ theirs' = (theirs \ Below(doc, p)) \cup (Above(p) \ {<< >>})
        /\ left' = left \ Below(doc, p) /\ outcome' = "none"
        /\ UNCHANGED <<owned, source, pc, candidate, record>>
    BY <1>7 DEF ToolRemoves
  <2> HIDE DEF p
  <2>3. /\ IsDocument(doc')
        /\ \A q \in Pointers : q \in DOMAIN doc' <=> q \in DOMAIN doc /\ ~IsPrefix(p, q)
    BY <1>0, <2>1, <2>2, WithoutNodes
  <2>4. Above(p) \subseteq DOMAIN doc'
    <3>1. ASSUME NEW q \in Above(p) PROVE q \in DOMAIN doc'
      <4>1. q \in Pointers /\ IsPrefix(q, p) /\ q # p
        BY <2>1, AboveIs
      <4>2. q \in DOMAIN doc /\ ~IsPrefix(p, q)
        BY <1>0, <2>1, <4>1, TreeAbove, PrefixAntisymmetric
      <4> QED BY <2>3, <4>1, <4>2
    <3> QED BY <3>1
  <2>5. DOMAIN doc \ Below(doc, p) \subseteq DOMAIN doc'
    BY <1>0, <2>1, <2>3, BelowIs
  <2>6. theirs' \subseteq DOMAIN doc' /\ left' \subseteq DOMAIN doc'
    BY <2>2, <2>4, <2>5 DEF TypeInv
  <2> QED BY <2>2, <2>3, <2>6 DEF TypeInv
<1>8. ASSUME NEW q \in Sources, ChangeSource(q) PROVE TypeInv'
  BY <1>8 DEF ChangeSource, TypeInv
<1>9. CASE UNCHANGED vars
  BY <1>9 DEF vars, TypeInv
<1> QED BY <1>1, <1>2, <1>3, <1>4, <1>5, <1>6, <1>7, <1>8, <1>9 DEF Next, Sync, Tool

LEMMA TypeAlways == Spec => []TypeInv
<1>1. Init => TypeInv
  BY TypeInit
<1>2. TypeInv /\ [Next]_vars => TypeInv'
  BY TypeStep
<1> QED BY <1>1, <1>2, PTL DEF Spec

\* Documents stay trees, and what is owned or was written by a tool or a
\* patch are values and nodes of such trees.
THEOREM TypeCorrect == Spec => []TypeOK
<1>1. TypeInv => TypeOK
  BY DEF TypeInv, TypeOK, Owns
<1> QED BY <1>1, TypeAlways, PTL

\* The order in which a patch is applied does not matter, nor whether it is refused.
THEOREM PatchesHaveNoOrder == Spec => []OrderIrrelevant
<1>1. TypeInv => OrderIrrelevant
  <2> SUFFICES ASSUME TypeInv, Valid(source), NEW ops \in SetToSeqs(ToSet(Shared(source)))
               PROVE  AppliedAll(doc, ops) = AppliedAll(doc, Shared(source))
    BY DEF OrderIrrelevant
  <2> DEFINE S == SharedSet(source)
  <2>0. IsSource(source) /\ IsDocument(doc)
    BY SourceIs DEF TypeInv
  <2>1. IsPatch(Shared(source), S) /\ ToSet(Shared(source)) = S
    BY <2>0, SharedIsPatch, SharedEntries
  <2>2. IsFiniteSet(S)
    <3> DEFINE s == Shared(source)
    <3>1. s \in Seq(S) /\ ToSet(s) = S /\ Len(s) \in Nat
      BY <2>1 DEF IsPatch
    <3> HIDE DEF s, S
    <3>2. IsFiniteSet(1..Len(s))
      BY <3>1, FS_Interval
    <3>3. s = [k \in 1..Len(s) |-> s[k]]
      BY <3>1
    <3>4. IsFiniteSet({s[k] : k \in 1..Len(s)})
      BY <3>2, <3>3, ImageIsFinite
    <3> QED BY <3>1, <3>4, EntriesInSet
  <2>3. ops \in Seq(S) /\ ToSet(ops) = S /\ Unrepeated(ops)
    BY <2>1, <2>2, OrdersOfSet
  <2>4. IsPatch(ops, S)
    BY <2>1, <2>3 DEF IsPatch
  <2> QED BY <2>0, <2>1, <2>4, OrderOfPatch
<1> QED BY <1>1, TypeAlways, PTL

-----------------------------------------------------------------------------
(* What a run leaves, finished or killed.                                  *)

\* u was made from a document without the stale pointers of m.
MadeFrom(q, m, u) ==
  \E t, d : Makes(q, t, d, u) /\ \A p \in DOMAIN m \ DOMAIN Generated(q) : p \notin DOMAIN t

\* u is to be made from t0, which m vouches for.
Plans(q, m, t0, u) ==
  \E t, d : Pruned(t0, DOMAIN m \ DOMAIN Generated(q), t) /\ Makes(q, t, d, u)

\* A manifest only ever says what the document it was prepared with holds, and
\* that document was made by the plan; a killed run left it so, or untouched.
RunInv ==
  /\ pc # "idle" => outcome = "none"
  /\ pc = "write" => /\ Conflicts(source) = {} /\ record = Record(source, candidate)
                     /\ Plans(source, owned, doc, candidate)
  /\ pc = "publish" => record = Record(source, doc) /\ MadeFrom(source, owned, doc)
  /\ outcome = "done" => owned = Record(source, doc) /\ MadeFrom(source, owned, doc)
  /\ outcome = "crashed" => Conflicts(source) = {} \/ MadeFrom(source, owned, doc)

LEMMA PlansMade ==
  ASSUME NEW q, NEW m, NEW t0, NEW u, Plans(q, m, t0, u)
  PROVE  MadeFrom(q, m, u)
BY DEF Plans, MadeFrom, Pruned

LEMMA RunInit ==
  ASSUME Init
  PROVE  RunInv
BY DEF Init, RunInv

LEMMA RunStep ==
  ASSUME TypeInv, RunInv, [Next]_vars
  PROVE  RunInv'
<1>0. IsDocument(doc) /\ IsSource(source) /\ Owns(owned)
  BY SourceIs DEF TypeInv
<1>1. CASE Refuse
  BY <1>1 DEF Refuse, RunInv
<1>2. CASE Prepare
  <2>1. PICK t \in Candidates(source) : candidate' = t /\ record' = Record(source, t)
    BY <1>2 DEF Prepare
  <2>2. Conflicts(source) = {} /\ \E d : Makes(source, Reconciled(source), d, t)
    BY <1>0, <2>1, CandidatesAre
  <2>3. Pruned(doc, DOMAIN owned \ DOMAIN Generated(source), Reconciled(source))
    BY <1>0, ReconciledIs
  <2>4. Plans(source, owned, doc, t)
    BY <2>2, <2>3 DEF Plans
  <2>5. doc' = doc /\ owned' = owned /\ source' = source /\ pc' = "write" /\ outcome' = "none"
    BY <1>2 DEF Prepare
  <2>6. Conflicts(source)' = Conflicts(source)
    BY <2>5 DEF Conflicts
  <2> QED BY <2>1, <2>2, <2>4, <2>5, <2>6 DEF RunInv
<1>3. CASE Write
  <2>1. doc' = candidate /\ pc' = "publish" /\ pc = "write" /\ UNCHANGED <<owned, source, record, outcome>>
    BY <1>3 DEF Write
  <2>2. record = Record(source, candidate) /\ MadeFrom(source, owned, candidate) /\ outcome = "none"
    BY <2>1, PlansMade DEF RunInv
  <2> QED BY <2>1, <2>2 DEF RunInv
<1>4. CASE Publish
  <2>1. /\ owned' = record /\ pc' = "idle" /\ pc = "publish" /\ outcome' = "done"
        /\ UNCHANGED <<doc, source>>
    BY <1>4 DEF Publish
  <2>2. record = Record(source, doc) /\ MadeFrom(source, owned, doc)
    BY <2>1 DEF RunInv
  <2>3. DOMAIN record = DOMAIN Generated(source)
    BY <2>2 DEF Record
  <2>4. MadeFrom(source, record, doc)
    BY <2>2, <2>3 DEF MadeFrom
  <2> QED BY <2>1, <2>2, <2>4 DEF RunInv
<1>5. CASE Crash
  <2>1. /\ pc' = "idle" /\ pc # "idle" /\ outcome' = "crashed"
        /\ UNCHANGED <<doc, owned, source>>
    BY <1>5 DEF Crash
  <2>2. Conflicts(source)' = Conflicts(source)
    BY <2>1 DEF Conflicts
  <2>3. pc \in {"write", "publish"}
    BY <2>1 DEF TypeInv
  <2>4. Conflicts(source) = {} \/ MadeFrom(source, owned, doc)
    BY <2>3 DEF RunInv
  <2> QED BY <2>1, <2>2, <2>4 DEF RunInv
<1>6. ASSUME NEW n \in ToolNodes, ToolSets(n[1], n[2]) \/ ToolRemoves(n[1]) PROVE RunInv'
  <2>1. pc' = "idle" /\ outcome' = "none"
    BY <1>6 DEF ToolSets, ToolRemoves
  <2> QED BY <2>1 DEF RunInv
<1>7. ASSUME NEW q \in Sources, ChangeSource(q) PROVE RunInv'
  BY <1>7 DEF ChangeSource, RunInv
<1>8. CASE UNCHANGED vars
  <2>1. Conflicts(source)' = Conflicts(source)
    BY <1>8 DEF vars, Conflicts
  <2> QED BY <1>8, <2>1 DEF vars, RunInv
<1> QED BY <1>1, <1>2, <1>3, <1>4, <1>5, <1>6, <1>7, <1>8 DEF Next, Sync, Tool

LEMMA RunAlways == Spec => [](TypeInv /\ RunInv)
<1>1. Init => TypeInv /\ RunInv
  BY TypeInit, RunInit
<1>2. TypeInv /\ RunInv /\ [Next]_vars => (TypeInv /\ RunInv)'
  BY TypeStep, RunStep
<1> QED BY <1>1, <1>2, PTL DEF Spec
-----------------------------------------------------------------------------
(* After a successful run.                                                 *)

\* An operation that has been applied shows.
LEMMA ResultHolds ==
  ASSUME NEW t, IsDocument(t), NEW S, AreOperations(S), NEW u, Result(t, S, u), NEW op \in S, Applies(t, op)
  PROVE  Holds(op, u)
<1>0. /\ op.pointer \in Pointers /\ IsOperation(op) /\ IsTree(op.value) /\ IsTree(u) /\ IsTree(t)
      /\ op.kind = "extend" => op.value[<< >>] \in ListLeaves
      /\ op.kind = "overlay" => op.value[<< >>] = Table
  BY OperationFields DEF AreOperations, Result, IsDocument
<1>1. CASE op.kind = "delete"
  BY <1>1 DEF Holds, Result
<1>2. CASE op.kind # "delete"
  <2>1. ValueAt(u, op.pointer) = Combined(t, op)
    BY <1>2 DEF Result
  <2>2. op.pointer \in DOMAIN u /\ u[op.pointer] = Combined(t, op)[<< >>]
    BY <1>0, <2>1, CombinedTwice
  <2>3. CASE op.kind = "extend"
    <3> DEFINE l == IF op.pointer \in DOMAIN t THEN t[op.pointer] ELSE << >>
               m == op.value[<< >>]
    <3>1. l \in ListLeaves /\ m \in ListLeaves
      BY <1>0, <2>3, NodesAssumption DEF Applies
    <3>2. Combined(t, op) = Leaf(Extended(l, m))
      BY <2>3 DEF Combined
    <3> HIDE DEF l, m
    <3>3. ToSet(Extended(l, m)) = ToSet(l) \cup ToSet(m)
      BY <3>1, ListsExtend
    <3>4. u[op.pointer] = Extended(l, m)
      BY <2>2, <3>2, LeafIs
    <3>5. ToSet(m) \subseteq ToSet(u[op.pointer])
      BY <3>3, <3>4
    <3> QED BY <2>2, <2>3, <3>5 DEF Holds, m
  <2>4. CASE op.kind = "overlay"
    <3> DEFINE v == op.value
    <3>1. SUFFICES ASSUME NEW k \in Keys(v) PROVE ValueAt(u, op.pointer \o k) = ValueAt(v, k)
      BY <2>4 DEF Holds
    <3>2. k \in Pointers
      BY <1>0, TreeNodes DEF Keys
    <3>3. ValueAt(u, op.pointer \o k) = ValueAt(Combined(t, op), k)
      BY <1>0, <2>1, <2>2, <3>2, ValueOfValue
    <3>4. CASE op.pointer \in DOMAIN t
      <4>1. Combined(t, op) = Overlaid(ValueAt(t, op.pointer), v) /\ IsTree(ValueAt(t, op.pointer))
        BY <1>0, <2>4, <3>4, ValueIsTree DEF Combined
      <4>2. ValueAt(Overlaid(ValueAt(t, op.pointer), v), k) = ValueAt(v, k)
        BY <1>0, <2>4, <4>1, OverlaidKeys
      <4> QED BY <3>3, <4>1, <4>2
    <3>5. CASE op.pointer \notin DOMAIN t
      <4>1. Combined(t, op) = v
        BY <2>4, <3>5 DEF Combined
      <4> QED BY <3>3, <4>1
    <3> QED BY <3>4, <3>5
  <2>5. CASE op.kind # "extend" /\ op.kind # "overlay"
    <3>1. Combined(t, op) = op.value
      BY <2>5 DEF Combined
    <3> QED BY <1>2, <2>1, <2>5, <3>1 DEF Holds
  <2> QED BY <2>3, <2>4, <2>5
<1> QED BY <1>1, <1>2

\* The entry of a server on its own, as operations.
EntrySet(q, id) == {SetOp(<<Root, id, key>>, q.servers[id].fields[key]) : key \in DOMAIN q.servers[id].fields}

EntryOf(q, id) == [p \in {<<Root, id, key>> : key \in DOMAIN q.servers[id].fields} |-> q.servers[id].fields[p[3]]]

RoutedSet(q, id) == {op \in Asked(q) : Inside(op, id)}

LEMMA EntryNodes ==
  ASSUME NEW q, IsSource(q), NEW id \in DOMAIN q.servers
  PROVE  /\ \A p : p \in DOMAIN EntryOf(q, id) <=> \E key \in DOMAIN q.servers[id].fields : p = <<Root, id, key>>
         /\ \A key \in DOMAIN q.servers[id].fields : EntryOf(q, id)[<<Root, id, key>>] = q.servers[id].fields[key]
         /\ EntryOf(q, id) = [p \in DOMAIN EntryOf(q, id) |-> EntryOf(q, id)[p]]
         /\ EntrySet(q, id) = {SetOp(p, EntryOf(q, id)[p]) : p \in DOMAIN EntryOf(q, id)}
         /\ IsFiniteSet(DOMAIN EntryOf(q, id))
<1> DEFINE F == q.servers[id].fields
           D == {<<Root, id, key>> : key \in DOMAIN F}
           E == EntryOf(q, id)
           f == [key \in DOMAIN F |-> <<Root, id, key>>]
<1>1. E = [p \in D |-> F[p[3]]]
  BY DEF EntryOf
<1>2. \A key \in DOMAIN F : <<Root, id, key>> \in D /\ <<Root, id, key>>[3] = key
  OBVIOUS
<1>3. {f[key] : key \in DOMAIN F} = D /\ f = [key \in DOMAIN F |-> f[key]]
  OBVIOUS
<1>4. IsFiniteSet(D)
  <2> HIDE DEF f, D
  <2> QED BY <1>3, SourceServers, ImageIsFinite
<1>5. DOMAIN E = D /\ E = [p \in DOMAIN E |-> E[p]] /\ \A key \in DOMAIN F : E[<<Root, id, key>>] = F[key]
  <2> HIDE DEF E
  <2> QED BY <1>1, <1>2
<1>6. EntrySet(q, id) = {SetOp(p, E[p]) : p \in D}
  <2>1. \A key \in DOMAIN F : SetOp(<<Root, id, key>>, F[key]) = SetOp(<<Root, id, key>>, E[<<Root, id, key>>])
    BY <1>5
  <2> HIDE DEF E
  <2> QED BY <2>1 DEF EntrySet
<1> QED BY <1>4, <1>5, <1>6

LEMMA EntryValues ==
  ASSUME NEW q, IsSource(q), NEW id \in DOMAIN q.servers, NEW p \in DOMAIN EntryOf(q, id)
  PROVE  /\ p \in Pointers /\ p # << >> /\ Len(p) = 3 /\ IsTree(EntryOf(q, id)[p])
         /\ EntryOf(q, id)[p][<< >>] \notin ListLeaves /\ IsPrefix(<<Root, id>>, p)
<1>1. PICK key \in DOMAIN q.servers[id].fields : p = <<Root, id, key>>
  BY EntryNodes
<1>2. EntryOf(q, id)[p] = q.servers[id].fields[key]
  BY <1>1, EntryNodes
<1>3. id \in Names /\ key \in Names /\ IsTree(q.servers[id].fields[key])
      /\ q.servers[id].fields[key][<< >>] \notin ListLeaves
  BY <1>1, SourceServers
<1> QED BY <1>1, <1>2, <1>3, FieldPointer

LEMMA EntryIsPatch ==
  ASSUME NEW q, IsSource(q), NEW id \in DOMAIN q.servers
  PROVE  IsPatch(EntryOps(q, id), EntrySet(q, id))
<1> DEFINE f == EntryOf(q, id)
<1>1. /\ f = [p \in DOMAIN f |-> f[p]] /\ IsFiniteSet(DOMAIN f)
      /\ EntrySet(q, id) = {SetOp(p, f[p]) : p \in DOMAIN f}
  BY EntryNodes
<1>2. \A p \in DOMAIN f : p \in Pointers /\ p # << >> /\ IsTree(f[p]) /\ Len(p) = 3
  BY EntryValues
<1> HIDE DEF f
<1>3. IsPatch(SetToSeq({SetOp(p, f[p]) : p \in DOMAIN f}), {SetOp(p, f[p]) : p \in DOMAIN f})
  BY <1>1, <1>2, SetsArePatch
<1> QED BY <1>1, <1>3 DEF EntryOps, EntrySet

LEMMA RoutedIsPatch ==
  ASSUME NEW q, IsSource(q), ~Conflicting(Patch(q)), NEW id
  PROVE  IsPatch(Routed(q, id), RoutedSet(q, id))
<1> DEFINE s == Patch(q)
           R == {op \in ToSet(s) : Inside(op, id)}
<1>1. s \in Seq(Asked(q)) /\ ToSet(s) = Asked(q) /\ AreOperations(Asked(q)) /\ ~Conflicting(s)
  BY PatchEntries
<1>2. ToSet(s) \cap R = RoutedSet(q, id)
  BY <1>1 DEF RoutedSet
<1>3. Routed(q, id) = Kept(s, R)
  BY DEF Routed
<1> HIDE DEF s, R
<1>4. IsPatch(Kept(s, R), ToSet(s) \cap R)
  BY <1>1, PartOfPatch
<1> QED BY <1>2, <1>3, <1>4

\* A file beside is made like the shared file.
LEMMA StandaloneMade ==
  ASSUME NEW q, IsSource(q), ~Conflicting(Patch(q)), NEW id \in DOMAIN q.servers, NEW t \in Standalone(q, id)
  PROVE  \E d : /\ Result(Empty, EntrySet(q, id), d)
                /\ \A o \in RoutedSet(q, id) : Applies(d, o)
                /\ Result(d, RoutedSet(q, id), t)
<1>1. IsPatch(EntryOps(q, id), EntrySet(q, id)) /\ IsPatch(Routed(q, id), RoutedSet(q, id))
  BY EntryIsPatch, RoutedIsPatch
<1>2. PICK d \in AppliedAll(Empty, EntryOps(q, id)) : t \in AppliedAll(d, Routed(q, id))
  BY DEF Standalone
<1>3. Result(Empty, EntrySet(q, id), d)
  <2>1. \A o \in EntrySet(q, id) : Applies(Empty, o)
    BY <1>1, <1>2, EmptyIsDocument, AppliedAllIs
  <2>2. PICK w : AppliedAll(Empty, EntryOps(q, id)) = {w} /\ Result(Empty, EntrySet(q, id), w)
    BY <1>1, <2>1, EmptyIsDocument, AppliedAllIs
  <2> QED BY <1>2, <2>2
<1>4. IsDocument(d)
  BY <1>3 DEF Result
<1>5. \A o \in RoutedSet(q, id) : Applies(d, o)
  BY <1>1, <1>2, <1>4, AppliedAllIs
<1>6. PICK w : AppliedAll(d, Routed(q, id)) = {w} /\ Result(d, RoutedSet(q, id), w)
  BY <1>1, <1>4, <1>5, AppliedAllIs
<1> QED BY <1>2, <1>3, <1>5, <1>6

-----------------------------------------------------------------------------
(* Generated values that nothing contributes to, and that something does.  *)

LEMMA GeneratedOrOverlaid ==
  ASSUME NEW q, IsSource(q), NEW t, NEW d, NEW u, Makes(q, t, d, u), NEW p \in DOMAIN Generated(q)
  PROVE  \/ ValueAt(u, p) = Generated(q)[p]
         \/ \E op \in Asked(q) : /\ op \in SharedSet(q) /\ op.kind = "overlay" /\ op.pointer = p
                                 /\ ValueAt(u, p) = Overlaid(Generated(q)[p], op.value)
<1>1. CASE \A o \in SharedSet(q) : o.pointer # p
  BY <1>1, MadeAtGenerated
<1>2. CASE \E o \in SharedSet(q) : o.pointer = p
  <2>1. PICK o \in SharedSet(q) : o.pointer = p
    BY <1>2
  <2>2. /\ o.kind \in {"set", "overlay"}
        /\ o.kind = "set" => ValueAt(u, p) = Generated(q)[p]
        /\ o.kind = "overlay" => ValueAt(u, p) = Overlaid(Generated(q)[p], o.value)
    BY <2>1, MadeAtGenerated
  <2>3. o \in Asked(q)
    BY <2>2 DEF SharedSet, Deletions, DeleteOp
  <2> QED BY <2>1, <2>2, <2>3
<1> QED BY <1>1, <1>2

\* After a successful run every operation people ask for shows, in the file
\* or, inside a disabled server, in the file beside; so do generated values
\* but for what an overlay changes of them, and a disabled server has left
\* the shared file.
THEOREM PlansHold == Spec => []PlanHolds
<1>1. TypeInv /\ RunInv => PlanHolds
  <2> SUFFICES ASSUME TypeInv, RunInv, outcome = "done" PROVE PlanHolds
    BY DEF PlanHolds
  <2>0. IsSource(source) /\ MadeFrom(source, owned, doc)
    BY SourceIs DEF RunInv
  <2>1. PICK t, d : Makes(source, t, d, doc)
    BY <2>0 DEF MadeFrom
  <2>2. /\ Valid(source) /\ IsDocument(d) /\ Result(d, SharedSet(source), doc)
        /\ \A o \in SharedSet(source) : Applies(d, o)
        /\ AreOperations(SharedSet(source))
    BY <2>0, <2>1, SharedEntries DEF Makes, Result
  <2>3. ASSUME NEW op \in Asked(source), NEW id \in Disabled(source), Inside(op, id),
               NEW w \in Standalone(source, op.pointer[2])
        PROVE  Holds(op, w)
    <3>1. id = op.pointer[2] /\ id \in DOMAIN source.servers /\ op \in RoutedSet(source, id)
      BY <2>3 DEF Inside, RoutedSet, Disabled
    <3>2. ~Conflicting(Patch(source))
      BY <2>2 DEF Valid
    <3>3. PICK e : /\ Result(Empty, EntrySet(source, id), e)
                   /\ \A o \in RoutedSet(source, id) : Applies(e, o)
                   /\ Result(e, RoutedSet(source, id), w)
      BY <2>0, <2>3, <3>1, <3>2, StandaloneMade
    <3>4. IsDocument(e) /\ AreOperations(RoutedSet(source, id)) /\ Applies(e, op)
      BY <2>0, <3>1, <3>2, <3>3, RoutedIsPatch DEF Result, IsPatch
    <3> QED BY <3>1, <3>3, <3>4, ResultHolds
  <2>4. ASSUME NEW op \in Asked(source), ~ \E id \in Disabled(source) : Inside(op, id) PROVE Holds(op, doc)
    <3>1. op \in SharedSet(source)
      BY <2>4 DEF SharedSet, Stays
    <3> QED BY <2>2, <3>1, ResultHolds
  <2>5. ASSUME NEW p \in DOMAIN Generated(source)
        PROVE  \/ ValueAt(doc, p) = Generated(source)[p]
               \/ \E op \in Asked(source) :
                    /\ op.kind = "overlay" /\ op.pointer = p
                    /\ ValueAt(doc, p) = Overlaid(Generated(source)[p], op.value)
    BY <2>0, <2>1, GeneratedOrOverlaid
  <2>6. ASSUME NEW id \in Disabled(source) PROVE <<Root, id>> \notin DOMAIN doc
    <3>1. DeleteOp(<<Root, id>>) \in SharedSet(source)
      BY DEF SharedSet, Deletions
    <3>2. DeleteOp(<<Root, id>>).kind = "delete" /\ DeleteOp(<<Root, id>>).pointer = <<Root, id>>
      BY DEF DeleteOp
    <3> QED BY <2>2, <3>1, <3>2 DEF Result
  <2> QED BY <2>3, <2>4, <2>5, <2>6 DEF PlanHolds
<1> QED BY <1>1, RunAlways, PTL

\* After a successful run --check reports nothing: preparing again yields the
\* same document and the same manifest.
THEOREM DoneIsSynced == Spec => []DoneMeansSynced
<1>1. TypeInv /\ RunInv => DoneMeansSynced
  <2> SUFFICES ASSUME TypeInv, RunInv, outcome = "done"
               PROVE  Candidates(source) = {doc} /\ Record(source, doc) = owned
    BY DEF DoneMeansSynced
  <2>0. /\ IsSource(source) /\ IsDocument(doc) /\ Owns(owned)
        /\ owned = Record(source, doc) /\ MadeFrom(source, owned, doc)
    BY SourceIs DEF TypeInv, RunInv
  <2>1. PICK t, d : Makes(source, t, d, doc)
    BY <2>0 DEF MadeFrom
  <2>2. DOMAIN owned = DOMAIN Generated(source) /\ \A p \in DOMAIN owned : owned[p] = ValueAt(doc, p)
    BY <2>0 DEF Record
  <2>3. Conflicts(source) = {}
    BY <2>2 DEF Conflicts
  <2>4. Reconciled(source) = doc
    <3>1. Pruned(doc, DOMAIN owned \ DOMAIN Generated(source), Reconciled(source))
      BY <2>0, ReconciledIs
    <3>2. DOMAIN owned \ DOMAIN Generated(source) = {}
      BY <2>2
    <3>3. Pruned(doc, {}, Reconciled(source))
      BY <3>1, <3>2
    <3> QED BY <2>0, <3>3, PrunedNone
  <2>5. PICK e : Makes(source, doc, e, doc)
    BY <2>0, <2>1, MadeAgain
  <2>6. Makes(source, Reconciled(source), e, doc)
    BY <2>4, <2>5
  <2>7. Candidates(source) = {doc}
    BY <2>0, <2>3, <2>6, CandidatesAre
  <2> QED BY <2>0, <2>7
<1> QED BY <1>1, RunAlways, PTL

\* A killed run can be repeated, but for a generated table a patch overlays,
\* and for a pointer that is no longer generated and that a patch writes.
THEOREM KilledRunsRepeat == Spec => []KilledRunRepeats
<1>1. TypeInv /\ RunInv => KilledRunRepeats
  <2> SUFFICES ASSUME TypeInv, RunInv, outcome = "crashed", MadeFrom(source, owned, doc),
                      NEW p \in Conflicts(source)
               PROVE  \/ p \in Overlays(source)
                      \/ /\ p \in DOMAIN owned \ DOMAIN Generated(source)
                         /\ \E op \in ToSet(Shared(source)) : op.kind # "delete" /\ Touches(op.pointer, p)
    BY DEF KilledRunRepeats, RunInv
  <2>0. IsSource(source) /\ Owns(owned) /\ ToSet(Shared(source)) = SharedSet(source)
    BY SourceIs, SharedEntries DEF TypeInv
  <2>1. PICK t, d : Makes(source, t, d, doc) /\ \A r \in DOMAIN owned \ DOMAIN Generated(source) : r \notin DOMAIN t
    BY DEF MadeFrom
  <2>2. p \in DOMAIN doc /\ p \in DOMAIN owned \cup DOMAIN Generated(source)
        /\ ~(p \in DOMAIN Generated(source) /\ Generated(source)[p] = ValueAt(doc, p))
    BY DEF Conflicts
  <2>3. CASE p \in DOMAIN Generated(source)
    <3>1. \E op \in SharedSet(source) : op.kind = "overlay" /\ op.pointer = p
      BY <2>0, <2>1, <2>2, <2>3, GeneratedOrOverlaid
    <3> QED BY <2>0, <3>1 DEF Overlays
  <2>4. CASE p \notin DOMAIN Generated(source)
    <3>0. /\ p \in Pointers /\ Len(p) = 3 /\ p \notin DOMAIN t
          /\ p \in DOMAIN owned \ DOMAIN Generated(source)
      BY <2>0, <2>1, <2>2, <2>4 DEF Owns
    <3>1. SUFFICES ASSUME \A op \in SharedSet(source) : op.kind = "delete" \/ ~Touches(op.pointer, p)
                   PROVE  FALSE
      BY <2>0, <3>0
    <3>2. Result(t, GeneratedSet(source), d) /\ Result(d, SharedSet(source), doc)
          /\ AreOperations(SharedSet(source)) /\ IsTree(doc)
      BY <2>0, <2>1, SharedEntries DEF Makes, Result, IsDocument
    <3>3. \A r \in DOMAIN Generated(source) : ~Touches(r, p)
      BY <2>0, <2>4, <3>0, GeneratedValues, SameLengthApart
    <3>4. p \notin DOMAIN d
      <4>1. ~ \E r \in DOMAIN Generated(source) : p \in Above(r)
        BY <2>0, <3>0, <3>3, GeneratedValues, AboveIs DEF Touches
      <4>2. \A r \in DOMAIN Generated(source) : ~IsPrefix(r, p)
        BY <3>3 DEF Touches
      <4> QED BY <2>0, <3>0, <3>2, <4>1, <4>2, GeneratedResult
    <3>5. Outside(SharedSet(source), p)
      <4>1. ASSUME NEW o \in SharedSet(source), IsPrefix(o.pointer, p) PROVE FALSE
        <5>1. o.kind = "delete" /\ o.pointer \in Pointers
          BY <3>1, <3>2, <4>1, OperationFields DEF Touches, AreOperations
        <5>2. o.pointer \notin DOMAIN doc
          BY <3>2, <5>1 DEF Result
        <5> QED BY <2>2, <3>2, <4>1, <5>1, <5>2, TreeAbove
      <4> QED BY <4>1 DEF Outside
    <3>6. ~MadeFor(SharedSet(source), p)
      BY <3>0, <3>1, <3>2, OperationFields, AboveIs DEF MadeFor, Touches, AreOperations
    <3>7. p \notin DOMAIN doc
      BY <3>0, <3>2, <3>4, <3>5, <3>6 DEF Result
    <3> QED BY <2>2, <3>7
  <2> QED BY <2>3, <2>4
<1> QED BY <1>1, RunAlways, PTL

-----------------------------------------------------------------------------
(* What a run leaves alone.                                                *)

\* Below an operation, only what it names changes.
LEMMA UnnamedStays ==
  ASSUME NEW d, IsDocument(d), NEW S, AreOperations(S), NEW u, Result(d, S, u), \A o \in S : Applies(d, o),
         NEW p \in DOMAIN d, \A o \in S : \A c \in Named(o) : ~IsPrefix(c, p)
  PROVE  p \in DOMAIN u /\ u[p] = d[p]
<1>0. IsTree(d) /\ IsDocument(u) /\ IsTree(u) /\ p \in Pointers
  BY TreeNodes DEF IsDocument, Result
<1>1. CASE Outside(S, p)
  BY <1>0, <1>1 DEF Result
<1>2. CASE ~Outside(S, p)
  <2>1. PICK o \in S : IsPrefix(o.pointer, p)
    BY <1>2 DEF Outside
  <2>2. o.kind = "overlay"
    <3>1. o.kind # "overlay" => o.pointer \in Named(o)
      BY DEF Named
    <3> QED BY <2>1, <3>1
  <2> DEFINE b == o.pointer
             v == o.value
             e == ValueAt(d, b)
             r == Rest(b, p)
  <2>3. b \in Pointers /\ IsOperation(o) /\ IsTree(v) /\ v[<< >>] = Table
    BY <2>2, OperationFields DEF AreOperations
  <2>4. b \in DOMAIN d /\ d[b] = Table
    BY <1>0, <2>1, <2>2, <2>3, TreeAbove DEF Applies
  <2>5. ValueAt(u, b) = Overlaid(e, v)
    BY <2>2, <2>4 DEF Result, Combined
  <2>6. r \in Pointers /\ b \o r = p
    BY <1>0, <2>1, <2>3, RestJoins
  <2> HIDE DEF b, v, r
  <2> HIDE DEF e
  <2>7. IsTree(e) /\ r \in DOMAIN e /\ e[r] = d[p]
    <3>1. \A x \in Pointers : x \in DOMAIN e <=> b \o x \in DOMAIN d
      BY <1>0, <2>3, ValueNodes DEF e
    <3>2. \A x \in DOMAIN e : e[x] = d[b \o x]
      BY <1>0, <2>3, ValueNodes DEF e
    <3>3. IsTree(e)
      BY <1>0, <2>4, ValueIsTree DEF e
    <3>4. r \in DOMAIN e
      BY <2>6, <3>1
    <3> QED BY <2>6, <3>2, <3>3, <3>4
  <2>8. r \in DOMAIN Overlaid(e, v) => p \in DOMAIN u /\ u[p] = Overlaid(e, v)[r]
    <3> DEFINE w == ValueAt(u, b)
    <3>1. \A x \in Pointers : x \in DOMAIN w <=> b \o x \in DOMAIN u
      BY <1>0, <2>3, ValueNodes
    <3>2. \A x \in DOMAIN w : w[x] = u[b \o x]
      BY <1>0, <2>3, ValueNodes
    <3> HIDE DEF w
    <3>3. r \in DOMAIN w => p \in DOMAIN u /\ u[p] = w[r]
      BY <2>6, <3>1, <3>2
    <3> QED BY <2>5, <3>3 DEF w
  <2>9. CASE r = << >>
    <3>1. r \in DOMAIN Overlaid(e, v) /\ Overlaid(e, v)[r] = Table
      BY <2>3, <2>7, <2>9, OverlaidNodes, TreeNodes
    <3>2. p = b
      BY <2>3, <2>6, <2>9, JoinRoot
    <3> QED BY <2>4, <2>8, <3>1, <3>2
  <2>10. CASE r # << >>
    <3>1. <<r[1]>> \in Pointers /\ IsPrefix(<<r[1]>>, r)
      BY <2>6, <2>10, FirstKey
    <3>2. <<r[1]>> \notin DOMAIN v
      <4>1. SUFFICES ASSUME <<r[1]>> \in DOMAIN v PROVE FALSE
        OBVIOUS
      <4>2. <<r[1]>> \in Keys(v)
        BY <4>1 DEF Keys
      <4>3. b \o <<r[1]>> \in Named(o)
        BY <2>2, <4>2 DEF Named, b, v
      <4>4. IsPrefix(b \o <<r[1]>>, p)
        BY <2>3, <2>6, <3>1, JoinPrefix
      <4> QED BY <4>3, <4>4
    <3>3. r \notin DOMAIN v
      BY <2>3, <3>1, <3>2, TreeAbove
    <3>4. r \in DOMAIN Overlaid(e, v) /\ Overlaid(e, v)[r] = e[r]
      BY <2>3, <2>6, <2>7, <2>10, <3>2, <3>3, OverlaidNodes
    <3> QED BY <2>7, <2>8, <3>4
  <2> QED BY <2>9, <2>10
<1> QED BY <1>1, <1>2

LEMMA UnclaimedStays ==
  ASSUME TypeInv, RunInv, Write, NEW p \in theirs, \A c \in Claimed : ~IsPrefix(c, p),
         ~(doc[p] = Table /\ \E o \in DOMAIN owned : IsPrefix(p, o))
  PROVE  p \in DOMAIN doc' /\ doc'[p] = doc[p]
<1>0. /\ IsSource(source) /\ IsDocument(doc) /\ Owns(owned) /\ p \in DOMAIN doc /\ p \in Pointers
      /\ doc' = candidate /\ Plans(source, owned, doc, candidate)
  BY SourceIs, TreeNodes DEF TypeInv, RunInv, Write, IsDocument
<1>1. PICK t, d : Pruned(doc, DOMAIN owned \ DOMAIN Generated(source), t) /\ Makes(source, t, d, candidate)
  BY <1>0 DEF Plans
<1>2. /\ Result(t, GeneratedSet(source), d) /\ Result(d, SharedSet(source), candidate)
      /\ \A o \in SharedSet(source) : Applies(d, o)
      /\ AreOperations(SharedSet(source)) /\ ToSet(Shared(source)) = SharedSet(source) /\ IsDocument(d)
  BY <1>0, <1>1, SharedEntries DEF Makes, Result
<1>3. p \in DOMAIN t /\ t[p] = doc[p]
  <2>1. SUFFICES ASSUME p \notin DOMAIN t PROVE FALSE
    BY <1>1 DEF Pruned
  <2>2. PICK o \in DOMAIN owned : IsPrefix(o, p) \/ (p \in Above(o) /\ doc[p] = Table)
    BY <1>0, <1>1, <2>1 DEF Pruned
  <2>3. o \in Claimed /\ o \in Pointers
    BY <1>0 DEF Claimed, Owns
  <2>4. p \in Above(o) => IsPrefix(p, o)
    BY <2>3, AboveIs
  <2> QED BY <2>2, <2>3, <2>4
<1>4. p \in DOMAIN d /\ d[p] = t[p]
  <2>1. \A c \in DOMAIN Generated(source) : ~IsPrefix(c, p)
    BY DEF Claimed
  <2> QED BY <1>0, <1>2, <1>3, <2>1, GeneratedResult
<1>5. \A o \in SharedSet(source) : \A c \in Named(o) : ~IsPrefix(c, p)
  BY <1>2 DEF Claimed
<1>6. p \in DOMAIN candidate /\ candidate[p] = d[p]
  BY <1>2, <1>4, <1>5, UnnamedStays
<1> QED BY <1>0, <1>3, <1>4, <1>6

\* A run changes nothing a tool wrote outside the pointers the plan names or
\* the manifest records, but for tables that withdrawn output leaves empty.
THEOREM ToolsKeepTheirWork == Spec => ToolWorkKept
<1> DEFINE P == \A p \in theirs :
                  \/ \E c \in Claimed : IsPrefix(c, p)
                  \/ doc[p] = Table /\ \E o \in DOMAIN owned : IsPrefix(p, o)
                  \/ p \in DOMAIN doc' /\ doc'[p] = doc[p]
<1>1. TypeInv /\ RunInv /\ [Next]_vars => [Sync \/ Crash => P]_vars
  <2> SUFFICES ASSUME TypeInv, RunInv, Sync \/ Crash PROVE P
    OBVIOUS
  <2>1. CASE Refuse \/ Prepare \/ Publish \/ Crash
    <3>1. doc' = doc
      BY <2>1 DEF Refuse, Prepare, Publish, Crash
    <3> QED BY <3>1 DEF TypeInv
  <2>2. CASE Write
    BY <2>2, UnclaimedStays
  <2> QED BY <2>1, <2>2 DEF Sync
<1> QED BY <1>1, RunAlways, PTL DEF Spec, ToolWorkKept

-----------------------------------------------------------------------------
(* Nothing is forgotten: every node leads to one that is a tool's, or is   *)
(* in something generated, or left by a patch.                             *)

\* The nodes of T, and what is at or below the pointers of L.
Accounted(T, L) == {x \in Pointers : x \in T \/ \E o \in L : IsPrefix(o, x)}

\* x is away from what q puts anywhere.
Away(q, x) ==
  /\ \A g \in DOMAIN Generated(q) : ~Touches(g, x)
  /\ \A o \in SharedSet(q) : o.kind # "delete" => ~Touches(o.pointer, x)

LEMMA AwayStays ==
  ASSUME NEW q, IsSource(q), NEW t, NEW d, NEW u, Makes(q, t, d, u), NEW x \in Pointers, Away(q, x)
  PROVE  /\ x \in DOMAIN u => x \in DOMAIN t /\ u[x] = t[x]
         /\ x \in DOMAIN t /\ x \notin DOMAIN u => \E o \in SharedSet(q) : o.kind = "delete" /\ IsPrefix(o.pointer, x)
<1>0. /\ Result(t, GeneratedSet(q), d) /\ Result(d, SharedSet(q), u) /\ IsDocument(u) /\ IsTree(u)
      /\ AreOperations(SharedSet(q))
  BY SharedEntries DEF Makes, Result, IsDocument
<1>1. /\ x \in DOMAIN d <=> x \in DOMAIN t
      /\ x \in DOMAIN d => d[x] = t[x]
  <2>1. \A g \in DOMAIN Generated(q) : ~IsPrefix(g, x) /\ x \notin Above(g)
    BY GeneratedValues, AboveIs DEF Away, Touches
  <2> QED BY <1>0, <2>1, GeneratedResult
<1>2. \A o \in SharedSet(q) : o.kind # "delete" => ~IsPrefix(o.pointer, x) /\ x \notin Above(o.pointer)
  BY <1>0, OperationFields, AboveIs DEF Away, Touches, AreOperations
<1>3. CASE Outside(SharedSet(q), x)
  <2>1. ~MadeFor(SharedSet(q), x)
    BY <1>2 DEF MadeFor
  <2> QED BY <1>0, <1>1, <1>3, <2>1 DEF Result
<1>4. CASE ~Outside(SharedSet(q), x)
  <2>1. PICK o \in SharedSet(q) : IsPrefix(o.pointer, x)
    BY <1>4 DEF Outside
  <2>2. o.kind = "delete" /\ o.pointer \in Pointers
    BY <1>0, <1>2, <2>1, OperationFields DEF AreOperations
  <2>3. o.pointer \notin DOMAIN u
    BY <1>0, <2>2 DEF Result
  <2>4. x \notin DOMAIN u
    BY <1>0, <2>1, <2>2, <2>3, TreeAbove
  <2> QED BY <2>1, <2>2, <2>4
<1> QED BY <1>3, <1>4

\* What stands apart from everything above it stands apart from it.
LEMMA AwayBelow ==
  ASSUME NEW q, IsSource(q), NEW x \in Pointers, NEW y \in Pointers, IsPrefix(x, y), Away(q, x)
  PROVE  Away(q, y)
<1>1. ASSUME NEW p \in Pointers, ~Touches(p, x) PROVE ~Touches(p, y)
  <2>1. ~IsPrefix(p, y)
    BY <1>1, PrefixesMeet DEF Touches
  <2>2. ~IsPrefix(y, p)
    BY <1>1, PrefixTransitive DEF Touches
  <2> QED BY <2>1, <2>2 DEF Touches
<1>2. \A g \in DOMAIN Generated(q) : g \in Pointers
  BY GeneratedValues
<1>3. \A o \in SharedSet(q) : o.pointer \in Pointers
  BY SharedEntries, OperationFields DEF AreOperations
<1> QED BY <1>1, <1>2, <1>3 DEF Away

LEMMA PutsAre ==
  ASSUME NEW q, IsSource(q)
  PROVE  /\ \A o \in SharedSet(q) : o.kind # "delete" => o.pointer \in Puts(q) /\ o.pointer \in Written(q)
         /\ \A o \in SharedSet(q) : o.kind = "delete" => Above(o.pointer) \ {<< >>} \subseteq Written(q)
         /\ \A t : Complete(t, q) => Puts(q) \subseteq DOMAIN t
<1>0. ToSet(Shared(q)) = SharedSet(q)
  BY SharedEntries
<1>1. \A o \in SharedSet(q) : o.kind # "delete" => o.pointer \in Puts(q)
  BY <1>0 DEF Puts
<1>2. \A o \in SharedSet(q) : o.kind = "delete" => Above(o.pointer) \ {<< >>} \subseteq Written(q)
  BY <1>0 DEF Written
<1>3. ASSUME NEW t, Complete(t, q), NEW o \in SharedSet(q), o.kind # "delete" PROVE o.pointer \in DOMAIN t
  <2>1. PICK n \in DOMAIN Shared(q) : Shared(q)[n] = o
    BY <1>0 DEF ToSet
  <2> QED BY <1>3, <2>1 DEF Complete
<1>4. \A t : Complete(t, q) => Puts(q) \subseteq DOMAIN t
  BY <1>0, <1>3 DEF Puts
<1> QED BY <1>1, <1>2, <1>4 DEF Written

\* A run keeps nothing that is not accounted for.
LEMMA MadeLeads ==
  ASSUME NEW q, IsSource(q), NEW t, NEW d, NEW u, Makes(q, t, d, u), NEW T, NEW L \in SUBSET Pointers,
         Leads(t, Accounted(T, L \cup DOMAIN Generated(q))),
         NEW T2, \A x \in T : x \in DOMAIN t /\ x \in DOMAIN u /\ u[x] = t[x] => x \in T2,
         NEW L2, (L \cup Written(q)) \cap DOMAIN u \subseteq L2
  PROVE  Leads(u, Accounted(T2, L2 \cup DOMAIN Generated(q)))
<1> DEFINE A == Accounted(T, L \cup DOMAIN Generated(q))
           B == Accounted(T2, L2 \cup DOMAIN Generated(q))
<1>0. /\ IsDocument(t) /\ IsTree(t) /\ IsTree(u) /\ DOMAIN u \subseteq Pointers /\ DOMAIN t \subseteq Pointers
      /\ Complete(u, q) /\ AreOperations(SharedSet(q))
  BY SharedEntries, TreeNodes DEF Makes, Result, IsDocument
<1>1. ASSUME NEW x \in Pointers, NEW o \in Pointers, o \in DOMAIN u, x \in DOMAIN u, Touches(o, x),
             o \in L2 \cup DOMAIN Generated(q)
      PROVE  \E y \in DOMAIN u \cap B : IsPrefix(x, y)
  <2>1. CASE IsPrefix(o, x)
    BY <1>1, <2>1, PrefixReflexive DEF Accounted
  <2>2. CASE IsPrefix(x, o)
    BY <1>1, <2>2, PrefixReflexive DEF Accounted
  <2> QED BY <1>1, <2>1, <2>2 DEF Touches
<1>2. ASSUME NEW x \in DOMAIN u, x # << >> PROVE \E y \in DOMAIN u \cap B : IsPrefix(x, y)
  <2>0. x \in Pointers
    BY <1>0
  <2>1. CASE ~Away(q, x)
    <3>1. CASE \E g \in DOMAIN Generated(q) : Touches(g, x)
      BY <1>0, <1>1, <2>0, <3>1, GeneratedValues DEF Complete
    <3>2. CASE \E o \in SharedSet(q) : o.kind # "delete" /\ Touches(o.pointer, x)
      <4>1. PICK o \in SharedSet(q) : o.kind # "delete" /\ Touches(o.pointer, x)
        BY <3>2
      <4>2. o.pointer \in Pointers /\ o.pointer \in DOMAIN u /\ o.pointer \in L2
        BY <1>0, <4>1, PutsAre, OperationFields DEF AreOperations
      <4> QED BY <1>1, <2>0, <4>1, <4>2
    <3> QED BY <2>1, <3>1, <3>2 DEF Away
  <2>2. CASE Away(q, x)
    <3>1. x \in DOMAIN t
      BY <2>0, <2>2, AwayStays
    <3>2. PICK y \in DOMAIN t \cap A : IsPrefix(x, y)
      BY <1>2, <3>1 DEF Leads
    <3>3. y \in Pointers /\ Away(q, y)
      BY <1>0, <2>0, <2>2, <3>2, AwayBelow
    <3>4. CASE y \in DOMAIN u
      <4>1. y \in DOMAIN t /\ u[y] = t[y]
        BY <3>3, <3>4, AwayStays
      <4>2. CASE y \in T
        BY <3>2, <3>3, <3>4, <4>1, <4>2 DEF Accounted
      <4>3. CASE \E o \in L \cup DOMAIN Generated(q) : IsPrefix(o, y)
        <5>1. PICK o \in L \cup DOMAIN Generated(q) : IsPrefix(o, y)
          BY <4>3
        <5>2. o \notin DOMAIN Generated(q)
          BY <3>3, <5>1 DEF Away, Touches
        <5>3. o \in Pointers => o \in L2
          BY <1>0, <3>4, <5>1, <5>2, TreeAbove
        <5>4. o \in Pointers
          BY <5>1, <5>2
        <5> QED BY <3>2, <3>3, <3>4, <5>1, <5>3, <5>4 DEF Accounted
      <4> QED BY <3>2, <4>2, <4>3 DEF Accounted
    <3>5. CASE y \notin DOMAIN u
      <4>1. PICK o \in SharedSet(q) : o.kind = "delete" /\ IsPrefix(o.pointer, y)
        BY <3>2, <3>3, <3>5, AwayStays
      <4>2. o.pointer \in Pointers /\ o.pointer \notin DOMAIN u
        BY <1>0, <4>1, OperationFields DEF AreOperations, Makes, Result
      <4>3. ~IsPrefix(o.pointer, x)
        BY <1>0, <1>2, <4>2, TreeAbove
      <4>4. x \in Above(o.pointer)
        BY <2>0, <3>2, <3>3, <4>1, <4>2, <4>3, PrefixesMeet, PrefixReflexive, AboveIs
      <4>5. x \in L2
        BY <1>2, <4>1, <4>4, PutsAre
      <4> QED BY <1>1, <1>2, <2>0, <4>5, PrefixReflexive DEF Touches
    <3> QED BY <3>4, <3>5
  <2> QED BY <2>1, <2>2
<1> QED BY <1>2 DEF Leads

Owning == IF pc = "publish" THEN DOMAIN record ELSE DOMAIN owned

\* Until a run is killed, every node leads to something a tool wrote, a patch
\* left, or the manifest owns.
AccountsInv == ~cut => Leads(doc, Accounted(theirs, left \cup Owning))

LEMMA WriteAccounts ==
  ASSUME TypeInv, RunInv, AccountsInv, Write
  PROVE  AccountsInv'
<1> SUFFICES ASSUME ~cut PROVE AccountsInv'
  BY DEF AccountsInv, Write
<1>0. /\ IsSource(source) /\ IsDocument(doc) /\ IsTree(doc) /\ Owns(owned) /\ DOMAIN doc \subseteq Pointers
      /\ pc = "write" /\ doc' = candidate /\ record' = record /\ pc' = "publish" /\ record = Record(source, candidate)
      /\ theirs' = {p \in theirs \cap DOMAIN candidate : candidate[p] = doc[p]}
      /\ left' = (left \cup Written(source)) \cap DOMAIN candidate
      /\ Plans(source, owned, doc, candidate)
      /\ left \subseteq Pointers
  BY SourceIs, TreeNodes DEF TypeInv, RunInv, Write, IsDocument
<1> DEFINE G == DOMAIN Generated(source)
<1>1. PICK t, d : Pruned(doc, DOMAIN owned \ G, t) /\ Makes(source, t, d, candidate)
  BY <1>0 DEF Plans
<1>2. Owning = DOMAIN owned /\ Owning' = G
  BY <1>0 DEF Owning, Record
<1>3. Leads(t, Accounted(theirs, left \cup DOMAIN owned))
  BY <1>1, <1>2 DEF AccountsInv, Pruned
<1>4. IsTree(t) /\ DOMAIN t \subseteq Pointers
  BY <1>1, TreeNodes DEF Pruned, IsDocument
<1>5. ASSUME NEW y \in DOMAIN t, y \in Accounted(theirs, left \cup DOMAIN owned)
      PROVE  y \in Accounted(theirs, left \cup G)
  <2>1. CASE y \in theirs
    BY <1>5, <2>1 DEF Accounted
  <2>2. CASE \E o \in left \cup DOMAIN owned : IsPrefix(o, y)
    <3>1. PICK o \in left \cup DOMAIN owned : IsPrefix(o, y)
      BY <2>2
    <3>2. o \in Pointers
      BY <1>0 DEF Owns
    <3>3. o \in DOMAIN t
      BY <1>4, <3>1, <3>2, TreeAbove
    <3>4. o \notin DOMAIN owned \ G
      BY <1>1, <3>3 DEF Pruned
    <3> QED BY <1>5, <3>1, <3>4 DEF Accounted
  <2> QED BY <1>5, <2>1, <2>2 DEF Accounted
<1>6. Leads(t, Accounted(theirs, left \cup G))
  BY <1>3, <1>5 DEF Leads
<1>7. \A x \in theirs : x \in DOMAIN t /\ x \in DOMAIN candidate /\ candidate[x] = t[x] => x \in theirs'
  BY <1>0, <1>1 DEF Pruned
<1>8. Leads(candidate, Accounted(theirs', left' \cup G))
  BY <1>0, <1>1, <1>6, <1>7, MadeLeads
<1> QED BY <1>0, <1>2, <1>8 DEF AccountsInv

\* What a tool's write or removal at p leaves accounted for.
LEMMA ToolAccounts ==
  ASSUME NEW t, IsDocument(t), NEW p \in Pointers \ {<< >>}, NEW u, IsDocument(u),
         NEW T, NEW L \in SUBSET Pointers, NEW M \in SUBSET Pointers, NEW T2,
         Leads(t, Accounted(T, L \cup M)), T \ Below(t, p) \subseteq T2,
         \A x \in Pointers : ~Touches(p, x) => (x \in DOMAIN u <=> x \in DOMAIN t),
         \A x \in DOMAIN u \ {<< >>} : Touches(p, x) => \E y \in DOMAIN u \cap T2 : IsPrefix(x, y)
  PROVE  Leads(u, Accounted(T2, (L \ Below(t, p)) \cup M))
<1>0. IsTree(t) /\ IsTree(u) /\ DOMAIN t \subseteq Pointers /\ DOMAIN u \subseteq Pointers
  BY TreeNodes DEF IsDocument
<1> DEFINE B == Accounted(T2, (L \ Below(t, p)) \cup M)
<1>1. ASSUME NEW x \in DOMAIN u, x # << >> PROVE \E y \in DOMAIN u \cap B : IsPrefix(x, y)
  <2>0. x \in Pointers
    BY <1>0
  <2>1. CASE Touches(p, x)
    BY <1>0, <1>1, <2>1 DEF Accounted
  <2>2. CASE ~Touches(p, x)
    <3>1. x \in DOMAIN t
      BY <2>0, <2>2
    <3>2. PICK y \in DOMAIN t \cap Accounted(T, L \cup M) : IsPrefix(x, y)
      BY <1>1, <3>1 DEF Leads
    <3>3. y \in Pointers /\ ~Touches(p, y)
      BY <1>0, <2>0, <2>2, <3>2, PrefixesMeet, PrefixTransitive DEF Touches
    <3>4. y \in DOMAIN u
      BY <3>2, <3>3
    <3>5. y \in B
      <4>1. CASE y \in T
        BY <1>0, <3>3, <4>1, BelowIs DEF Accounted, Touches
      <4>2. CASE \E o \in L \cup M : IsPrefix(o, y)
        <5>1. PICK o \in L \cup M : IsPrefix(o, y)
          BY <4>2
        <5>2. o \in Pointers
          OBVIOUS
        <5>3. ~IsPrefix(p, o)
          BY <3>3, <5>1, <5>2, PrefixTransitive DEF Touches
        <5>4. o \notin Below(t, p)
          BY <1>0, <5>3, BelowIs
        <5> QED BY <3>3, <5>1, <5>4 DEF Accounted
      <4> QED BY <3>2, <4>1, <4>2 DEF Accounted
    <3> QED BY <3>2, <3>4, <3>5
  <2> QED BY <2>1, <2>2
<1> QED BY <1>1 DEF Leads

LEMMA AccountsStep ==
  ASSUME TypeInv, RunInv, AccountsInv, [Next]_vars
  PROVE  AccountsInv'
<1>0. /\ IsDocument(doc) /\ IsTree(doc) /\ DOMAIN doc \subseteq Pointers
      /\ IsSource(source) /\ left \in SUBSET Pointers /\ DOMAIN owned \in SUBSET Pointers
  BY SourceIs, TreeNodes DEF TypeInv, IsDocument, Owns
<1>1. CASE Refuse
  BY <1>1 DEF Refuse, AccountsInv, Owning
<1>2. CASE Prepare
  BY <1>2 DEF Prepare, AccountsInv, Owning
<1>3. CASE Write
  BY <1>3, WriteAccounts
<1>4. CASE Publish
  BY <1>4 DEF Publish, AccountsInv, Owning
<1>5. CASE Crash
  BY <1>5 DEF Crash, AccountsInv
<1>6. ASSUME NEW n \in ToolNodes, ToolSets(n[1], n[2]) PROVE AccountsInv'
  <2> DEFINE p == n[1]
  <2>1. p \in Pointers \ {<< >>} /\ IsTree(Leaf(n[2])) /\ Open(doc, p)
    BY <1>6, ToolNodesAre DEF ToolSets, Open
  <2>2. /\ doc' = Put(doc, p, Leaf(n[2])) /\ theirs' = (theirs \ Below(doc, p)) \cup {p}
        /\ left' = left \ Below(doc, p) /\ pc = "idle"
        /\ UNCHANGED <<owned, pc, record, cut>>
    BY <1>6 DEF ToolSets
  <2> HIDE DEF p
  <2> SUFFICES ASSUME ~cut PROVE AccountsInv'
    BY <2>2 DEF AccountsInv
  <2>3. /\ IsDocument(doc')
        /\ \A q \in Pointers : IsPrefix(p, q) => (q \in DOMAIN doc' <=> q = p)
        /\ \A q \in Pointers : ~IsPrefix(p, q) => (q \in DOMAIN doc' <=> q \in DOMAIN doc \/ q \in Above(p))
    BY <1>0, <2>1, <2>2, ToolPuts
  <2>4. \A x \in Pointers : ~Touches(p, x) => (x \in DOMAIN doc' <=> x \in DOMAIN doc)
    BY <2>1, <2>3, AboveIs DEF Touches
  <2>5. ASSUME NEW x \in DOMAIN doc', Touches(p, x) PROVE \E y \in DOMAIN doc' \cap theirs' : IsPrefix(x, y)
    <3>1. x \in Pointers
      BY <2>3, TreeNodes DEF IsDocument
    <3>2. p \in DOMAIN doc' \cap theirs' /\ IsPrefix(p, p)
      BY <2>1, <2>2, <2>3, PrefixReflexive
    <3> QED BY <2>3, <2>5, <3>1, <3>2 DEF Touches
  <2>6. theirs \ Below(doc, p) \subseteq theirs'
    BY <2>2
  <2>7. Leads(doc, Accounted(theirs, left \cup DOMAIN owned))
    BY <2>2 DEF AccountsInv, Owning
  <2>8. Leads(doc', Accounted(theirs', (left \ Below(doc, p)) \cup DOMAIN owned))
    BY <1>0, <2>1, <2>3, <2>4, <2>5, <2>6, <2>7, ToolAccounts
  <2> QED BY <2>2, <2>8 DEF AccountsInv, Owning
<1>7. ASSUME NEW n \in ToolNodes, ToolRemoves(n[1]) PROVE AccountsInv'
  <2> DEFINE p == n[1]
  <2>1. p \in Pointers \ {<< >>} /\ p \in DOMAIN doc
    BY <1>7, ToolNodesAre DEF ToolRemoves
  <2>2. /\ doc' = Without(doc, p) /\ theirs' = (theirs \ Below(doc, p)) \cup (Above(p) \ {<< >>})
        /\ left' = left \ Below(doc, p) /\ pc = "idle"
        /\ UNCHANGED <<owned, pc, record, cut>>
    BY <1>7 DEF ToolRemoves
  <2> HIDE DEF p
  <2> SUFFICES ASSUME ~cut PROVE AccountsInv'
    BY <2>2 DEF AccountsInv
  <2>3. /\ IsDocument(doc')
        /\ \A q \in Pointers : q \in DOMAIN doc' <=> q \in DOMAIN doc /\ ~IsPrefix(p, q)
    BY <1>0, <2>1, <2>2, WithoutNodes
  <2>4. \A x \in Pointers : ~Touches(p, x) => (x \in DOMAIN doc' <=> x \in DOMAIN doc)
    BY <2>3 DEF Touches
  <2>5. ASSUME NEW x \in DOMAIN doc', x # << >>, Touches(p, x)
        PROVE  \E y \in DOMAIN doc' \cap theirs' : IsPrefix(x, y)
    <3>1. x \in Pointers /\ ~IsPrefix(p, x)
      BY <2>3, TreeNodes DEF IsDocument
    <3>2. x \in Above(p)
      BY <2>1, <2>5, <3>1, AboveIs, PrefixReflexive DEF Touches
    <3> QED BY <2>2, <2>5, <3>1, <3>2, PrefixReflexive
  <2>6. theirs \ Below(doc, p) \subseteq theirs'
    BY <2>2
  <2>7. Leads(doc, Accounted(theirs, left \cup DOMAIN owned))
    BY <2>2 DEF AccountsInv, Owning
  <2>8. Leads(doc', Accounted(theirs', (left \ Below(doc, p)) \cup DOMAIN owned))
    BY <1>0, <2>1, <2>3, <2>4, <2>5, <2>6, <2>7, ToolAccounts
  <2> QED BY <2>2, <2>8 DEF AccountsInv, Owning
<1>8. ASSUME NEW q \in Sources, ChangeSource(q) PROVE AccountsInv'
  BY <1>8 DEF ChangeSource, AccountsInv, Owning
<1>9. CASE UNCHANGED vars
  BY <1>9 DEF vars, AccountsInv, Owning
<1> QED BY <1>1, <1>2, <1>3, <1>4, <1>5, <1>6, <1>7, <1>8, <1>9 DEF Next, Sync, Tool

LEMMA AllAlways == Spec => [](TypeInv /\ RunInv /\ AccountsInv)
<1>1. Init => TypeInv /\ RunInv
  BY TypeInit, RunInit
<1>2. Init => AccountsInv
  BY EmptyIsDocument DEF Init, AccountsInv, Leads
<1>3. TypeInv /\ RunInv /\ AccountsInv /\ [Next]_vars => (TypeInv /\ RunInv /\ AccountsInv)'
  BY TypeStep, RunStep, AccountsStep
<1> QED BY <1>1, <1>2, <1>3, PTL DEF Spec

\* What the compiler generated and no longer generates is gone after a
\* successful run, with the tables made for it.
THEOREM NothingIsForgotten == Spec => []NothingForgotten
<1>1. TypeInv /\ RunInv /\ AccountsInv => NothingForgotten
  <2> SUFFICES ASSUME TypeInv, RunInv, AccountsInv, outcome = "done", ~cut, NEW p \in DOMAIN doc \ {<< >>}
               PROVE  \/ \E q \in DOMAIN doc : q # p /\ IsPrefix(p, q)
                      \/ p \in theirs
                      \/ \E q \in left \cup DOMAIN Generated(source) : IsPrefix(q, p)
    BY DEF NothingForgotten
  <2>1. pc = "idle" /\ DOMAIN owned = DOMAIN Generated(source)
    BY DEF RunInv, Record
  <2>2. Leads(doc, Accounted(theirs, left \cup DOMAIN Generated(source)))
    BY <2>1 DEF AccountsInv, Owning
  <2>3. PICK y \in DOMAIN doc \cap Accounted(theirs, left \cup DOMAIN Generated(source)) : IsPrefix(p, y)
    BY <2>2 DEF Leads
  <2> QED BY <2>3 DEF Accounted
<1> QED BY <1>1, AllAlways, PTL

-----------------------------------------------------------------------------
(* Servers that are registered, and servers kept beside the file.          *)

LEMMA SameServer ==
  ASSUME NEW i \in Names, NEW j \in Names, Touches(<<Root, i>>, <<Root, j>>)
  PROVE  i = j
<1>1. <<Root, i>> = <<Root, j>>
  BY ServerPointer, SameLengthApart
<1> QED BY <1>1

\* A pointer in the entry of one server is away from those of the others.
LEMMA OneServer ==
  ASSUME NEW i \in Names, NEW j \in Names, NEW p \in Pointers, IsPrefix(<<Root, i>>, p), Touches(p, <<Root, j>>)
  PROVE  i = j
<1>0. <<Root, i>> \in Pointers /\ <<Root, j>> \in Pointers
  BY ServerPointer
<1>1. Touches(<<Root, i>>, <<Root, j>>)
  BY <1>0, PrefixTransitive, PrefixesMeet DEF Touches
<1> QED BY <1>1, SameServer

LEMMA FieldTouches ==
  ASSUME NEW id \in Names, NEW key \in Names, NEW p \in Pointers
  PROVE  /\ Touches(p, <<Root, id, key>>) => Touches(p, <<Root, id>>)
         /\ IsPrefix(p, <<Root, id>>) => IsPrefix(p, <<Root, id, key>>) /\ p # <<Root, id, key>>
<1>0. /\ <<Root, id>> \in Pointers /\ <<Root, id, key>> \in Pointers
      /\ IsPrefix(<<Root, id>>, <<Root, id, key>>) /\ <<Root, id>> # <<Root, id, key>>
  BY ServerPointer, FieldPointer
<1>1. Touches(p, <<Root, id, key>>) => Touches(p, <<Root, id>>)
  BY <1>0, PrefixesMeet, PrefixTransitive DEF Touches
<1>2. IsPrefix(p, <<Root, id>>) => IsPrefix(p, <<Root, id, key>>)
  BY <1>0, PrefixTransitive
<1>3. IsPrefix(p, <<Root, id>>) => p # <<Root, id, key>>
  BY <1>0, PrefixAntisymmetric
<1> QED BY <1>1, <1>2, <1>3

LEMMA InsideIs ==
  ASSUME NEW id \in Names, NEW op, op.pointer \in Pointers
  PROVE  Inside(op, id) <=> IsPrefix(<<Root, id>>, op.pointer) /\ op.pointer # <<Root, id>>
<1> DEFINE p == op.pointer
           r == <<Root, id>>
<1>0. r \in Pointers /\ p \in Pointers /\ Len(r) = 2 /\ r[1] = Root /\ r[2] = id /\ Len(p) \in Nat
  BY ServerPointer, PointerLen
<1>1. IsPrefix(r, p) <=> Len(p) >= 2 /\ p[1] = Root /\ p[2] = id
  <2>1. IsPrefix(r, p) <=> Len(r) <= Len(p) /\ \A k \in 1..Len(r) : r[k] = p[k]
    BY <1>0, PrefixWhere
  <2>2. 1..Len(r) = {1, 2}
    BY <1>0
  <2> HIDE DEF r, p
  <2> QED BY <1>0, <2>1, <2>2
<1>2. IsPrefix(r, p) /\ Len(p) = 2 => p = r
  <2>1. 1..2 = {1, 2}
    OBVIOUS
  <2> HIDE DEF r, p
  <2> QED BY <1>0, <1>1, <2>1, SamePointer
<1>3. p = r => Len(p) = 2
  BY <1>0
<1>4. Inside(op, id) <=> Len(p) >= 3 /\ p[1] = Root /\ p[2] = id
  BY DEF Inside
<1> HIDE DEF r, p
<1>4a. Len(p) >= 3 <=> Len(p) >= 2 /\ Len(p) # 2
  <2>1. \A n \in Nat : n >= 3 <=> n >= 2 /\ n # 2
    OBVIOUS
  <2> QED BY <1>0, <2>1
<1>4b. IsPrefix(r, p) => (Len(p) = 2 <=> p = r)
  BY <1>2, <1>3
<1>5. Inside(op, id) <=> IsPrefix(r, p) /\ p # r
  BY <1>1, <1>4, <1>4a, <1>4b, Zenon
<1> QED BY <1>5 DEF r, p

\* Nothing people ask for is in the entry of a disabled server or above it, but inside it.
EntryAlone(q, id) == \A op \in Asked(q) : Touches(op.pointer, <<Root, id>>) => Inside(op, id)

\* Whatever people ask for at a field of a server contributes to it.
EntryAgrees(q, id) ==
  \A op \in Asked(q) : \A key \in DOMAIN q.servers[id].fields :
    Touches(op.pointer, <<Root, id, key>>) => Contributes(op, <<Root, id, key>>, q.servers[id].fields[key])

LEMMA AskedAre ==
  ASSUME NEW q, IsSource(q), NEW op \in Asked(q)
  PROVE  op.pointer \in Pointers /\ op.pointer # << >> /\ IsOperation(op)
<1>1. AreOperations(Asked(q))
  BY PatchEntries
<1>2. IsOperation(op)
  BY <1>1 DEF AreOperations
<1> QED BY <1>2, OperationFields

LEMMA AgreesAlone ==
  ASSUME NEW q, IsSource(q), NEW id \in DOMAIN q.servers, EntryAgrees(q, id)
  PROVE  EntryAlone(q, id)
<1> SUFFICES ASSUME NEW op \in Asked(q), Touches(op.pointer, <<Root, id>>), ~Inside(op, id) PROVE FALSE
  BY DEF EntryAlone
<1>0. op.pointer \in Pointers /\ id \in Names /\ <<Root, id>> \in Pointers
  BY AskedAre, SourceServers, ServerPointer
<1>1. IsPrefix(op.pointer, <<Root, id>>)
  BY <1>0, InsideIs, PrefixReflexive DEF Touches
<1>2. PICK key \in DOMAIN q.servers[id].fields : key \in Names
  BY SourceServers
<1>3. IsPrefix(op.pointer, <<Root, id, key>>) /\ op.pointer # <<Root, id, key>>
  BY <1>0, <1>1, <1>2, FieldTouches
<1>4. Contributes(op, <<Root, id, key>>, q.servers[id].fields[key])
  BY <1>2, <1>3 DEF EntryAgrees, Touches
<1> QED BY <1>3, <1>4 DEF Contributes

\* When the operations left for the shared file, with the deletions, do not conflict.
LEMMA SharedApart ==
  ASSUME NEW q, IsSource(q), ~Conflicting(Patch(q))
  PROVE  ~Conflicting(Shared(q)) <=>
           \A op \in Asked(q) : \A id \in Disabled(q) : Stays(q, op) => ~Touches(op.pointer, <<Root, id>>)
<1> DEFINE R == {op \in ToSet(Patch(q)) : \A id \in Disabled(q) : ~Inside(op, id)}
           k == Kept(Patch(q), R)
           d == SetToSeq(Deletions(q))
           K == {op \in Asked(q) : Stays(q, op)}
           D == Deletions(q)
           U == K \cup D
<1>0. Patch(q) \in Seq(Asked(q)) /\ ToSet(Patch(q)) = Asked(q) /\ AreOperations(Asked(q))
  BY PatchEntries
<1>1. ToSet(Patch(q)) \cap R = K
  BY <1>0 DEF Stays
<1>2. IsPatch(k, K)
  <2> HIDE DEF K
  <2>1. IsPatch(Kept(Patch(q), R), ToSet(Patch(q)) \cap R)
    BY <1>0, PartOfPatch
  <2> QED BY <1>1, <2>1
<1>3. d \in Seq(D) /\ ToSet(d) = D /\ Unrepeated(d) /\ AreOperations(D)
  BY DeletionsList, SetAsList
<1>4. Shared(q) = k \o d /\ AreOperations(SharedSet(q)) /\ ToSet(Shared(q)) = SharedSet(q)
  BY SharedEntries DEF Shared, Deletions
<1>5. Disabled(q) \subseteq Names
  BY SourceServers DEF Disabled
<1>6. Apart(D)
  <2>1. ASSUME NEW i \in Disabled(q), NEW j \in Disabled(q), Touches(<<Root, i>>, <<Root, j>>) PROVE i = j
    BY <1>5, <2>1, SameServer
  <2>2. \A i : DeleteOp(<<Root, i>>).pointer = <<Root, i>>
    BY DEF DeleteOp
  <2> QED BY <2>1, <2>2 DEF Apart, Deletions
<1>7. (\A op \in Asked(q) : \A id \in Disabled(q) : Stays(q, op) => ~Touches(op.pointer, <<Root, id>>))
        <=> \A o \in K : \A m \in D : ~Touches(o.pointer, m.pointer)
  <2>1. \A i : DeleteOp(<<Root, i>>).pointer = <<Root, i>>
    BY DEF DeleteOp
  <2>2. ASSUME NEW o \in Asked(q), NEW id \in Disabled(q), Stays(q, o), \A n \in K : \A m \in D : ~Touches(n.pointer, m.pointer)
        PROVE  ~Touches(o.pointer, <<Root, id>>)
    <3>1. o \in K /\ DeleteOp(<<Root, id>>) \in D
      BY <2>2 DEF Deletions
    <3> QED BY <2>1, <2>2, <3>1
  <2>3. ASSUME NEW o \in K, NEW m \in D,
               \A op \in Asked(q) : \A id \in Disabled(q) : Stays(q, op) => ~Touches(op.pointer, <<Root, id>>)
        PROVE  ~Touches(o.pointer, m.pointer)
    <3>1. PICK id \in Disabled(q) : m = DeleteOp(<<Root, id>>)
      BY DEF Deletions
    <3> QED BY <2>1, <2>3, <3>1
  <2> QED BY <2>2, <2>3
<1> HIDE DEF k, d, K, D, R
<1>8. k \in Seq(U) /\ d \in Seq(U)
  BY <1>2, <1>3, SeqDef DEF IsPatch
<1>9. SharedSet(q) = U
  BY DEF SharedSet, K, D
<1> HIDE DEF U
<1>10. ASSUME \A o \in K : \A m \in D : ~Touches(o.pointer, m.pointer) PROVE ~Conflicting(Shared(q))
  <2>1. K \cap D = {}
    <3> SUFFICES ASSUME NEW o \in K, o \in D PROVE FALSE
      OBVIOUS
    <3>1. o.pointer \in Pointers
      BY <1>3, OperationFields DEF AreOperations
    <3> QED BY <1>10, <3>1, PrefixReflexive DEF Touches
  <2>2. Unrepeated(k \o d) /\ k \o d \in Seq(U) /\ ToSet(k \o d) = U
    BY <1>2, <1>3, <1>8, <2>1, EntriesOfConcat DEF IsPatch, U
  <2>3. Apart(U)
    <3>1. Apart(K)
      BY <1>2 DEF IsPatch
    <3>2. \A o \in K : \A m \in D : ~Touches(o.pointer, m.pointer) /\ ~Touches(m.pointer, o.pointer)
      BY <1>10, TouchesBothWays
    <3> QED BY <1>6, <3>1, <3>2 DEF Apart, U
  <2> DEFINE s == k \o d
  <2>4. s \in Seq(U) /\ Unrepeated(s) /\ Apart(ToSet(s)) /\ AreOperations(ToSet(s))
    BY <1>4, <1>9, <2>2, <2>3
  <2> HIDE DEF s
  <2>5. ~Conflicting(s)
    BY <2>4, ConflictingIs
  <2> QED BY <1>4, <2>5 DEF s
<1>11. ASSUME ~Conflicting(Shared(q)), NEW o \in K, NEW m \in D PROVE ~Touches(o.pointer, m.pointer)
  <2>1. PICK i \in 1..Len(k) : k[i] = o
    BY <1>2, EntriesInSet DEF IsPatch
  <2>2. PICK j \in 1..Len(d) : d[j] = m
    BY <1>3, EntriesInSet
  <2>3. Len(k) \in Nat /\ Len(d) \in Nat
    BY <1>8
  <2>4. Len(k \o d) = Len(k) + Len(d) /\ (k \o d)[i] = o /\ (k \o d)[Len(k) + j] = m
    BY <1>8, <2>1, <2>2, <2>3, ConcatProperties
  <2>5. DOMAIN (k \o d) = 1..Len(k) + Len(d)
    BY <1>8, <2>4
  <2>6. i \in DOMAIN (k \o d) /\ Len(k) + j \in DOMAIN (k \o d) /\ i # Len(k) + j
    BY <2>1, <2>2, <2>3, <2>5
  <2> QED BY <1>4, <1>11, <2>4, <2>6 DEF Conflicting
<1> QED BY <1>7, <1>10, <1>11

-----------------------------------------------------------------------------
(* The file beside.                                                        *)

LEMMA EntryResult ==
  ASSUME NEW q, IsSource(q), NEW id \in DOMAIN q.servers, NEW d, Result(Empty, EntrySet(q, id), d)
  PROVE  /\ IsDocument(d)
         /\ \A p \in DOMAIN EntryOf(q, id) : p \in DOMAIN d /\ ValueAt(d, p) = EntryOf(q, id)[p]
         /\ \A x \in Pointers : (\A p \in DOMAIN EntryOf(q, id) : ~IsPrefix(p, x)) =>
              /\ x \in DOMAIN d <=> x = << >> \/ \E p \in DOMAIN EntryOf(q, id) : x \in Above(p)
              /\ x \in DOMAIN d => d[x] = Table
<1> DEFINE f == EntryOf(q, id)
           S == EntrySet(q, id)
<1>1. S = {SetOp(p, f[p]) : p \in DOMAIN f}
  BY EntryNodes
<1>1a. \A p \in DOMAIN f : p \in Pointers /\ IsTree(f[p])
  BY EntryValues
<1>2. Result(Empty, S, d)
  OBVIOUS
<1> HIDE DEF f, S
<1>3. /\ IsDocument(d)
      /\ \A p \in DOMAIN f : p \in DOMAIN d /\ ValueAt(d, p) = f[p]
      /\ \A x \in Pointers : (\A p \in DOMAIN f : ~IsPrefix(p, x)) =>
           /\ x \in DOMAIN d <=> x \in DOMAIN Empty \/ \E p \in DOMAIN f : x \in Above(p)
           /\ x \in DOMAIN d => d[x] = IF x \in DOMAIN Empty THEN Empty[x] ELSE Table
  BY <1>1, <1>1a, <1>2, SetsResult
<1>4. DOMAIN Empty = {<< >>} /\ Empty[<< >>] = Table
  BY LeafIs, EmptyIsDocument DEF Empty
<1>5. \A x \in Pointers : (\A p \in DOMAIN f : ~IsPrefix(p, x)) =>
        /\ x \in DOMAIN d <=> x = << >> \/ \E p \in DOMAIN f : x \in Above(p)
        /\ x \in DOMAIN d => d[x] = Table
  BY <1>3, <1>4
<1> QED BY <1>3, <1>5 DEF f

\* Where patches agree with an entry, they apply to it.
LEMMA RoutedApplies ==
  ASSUME NEW q, IsSource(q), NEW id \in DOMAIN q.servers, EntryAgrees(q, id),
         NEW d, Result(Empty, EntrySet(q, id), d), NEW o \in RoutedSet(q, id)
  PROVE  /\ Applies(d, o)
         /\ (\A p \in DOMAIN EntryOf(q, id) : ~Touches(o.pointer, p)) => o.pointer \notin DOMAIN d
         /\ \A p \in DOMAIN EntryOf(q, id) : Touches(o.pointer, p) =>
              o.pointer = p /\ Contributes(o, p, EntryOf(q, id)[p]) /\ o.kind \in {"set", "overlay"}
<1> DEFINE E == EntryOf(q, id)
<1>0. /\ IsDocument(d) /\ IsTree(d)
      /\ \A p \in DOMAIN E : p \in DOMAIN d /\ ValueAt(d, p) = E[p]
      /\ \A x \in Pointers : (\A p \in DOMAIN E : ~IsPrefix(p, x)) =>
           /\ x \in DOMAIN d <=> x = << >> \/ \E p \in DOMAIN E : x \in Above(p)
           /\ x \in DOMAIN d => d[x] = Table
  BY EntryResult DEF IsDocument
<1>1. /\ o.pointer \in Pointers /\ o.pointer # << >> /\ o \in Asked(q)
      /\ id \in Names /\ <<Root, id>> \in Pointers /\ Len(<<Root, id>>) = 2
      /\ IsPrefix(<<Root, id>>, o.pointer) /\ o.pointer # <<Root, id>>
  BY AskedAre, SourceServers, ServerPointer, InsideIs DEF RoutedSet
<1>2. ASSUME NEW p \in DOMAIN E, Touches(o.pointer, p)
      PROVE  o.pointer = p /\ Contributes(o, p, E[p]) /\ o.kind \in {"set", "overlay"}
  <2>1. PICK key \in DOMAIN q.servers[id].fields : p = <<Root, id, key>>
    BY EntryNodes
  <2>2. E[p] = q.servers[id].fields[key] /\ E[p][<< >>] \notin ListLeaves
    BY <2>1, EntryNodes, EntryValues
  <2>3. Contributes(o, p, E[p])
    BY <1>1, <1>2, <2>1, <2>2 DEF EntryAgrees
  <2> QED BY <2>2, <2>3 DEF Contributes
<1>2a. \A p \in DOMAIN E : p \in Pointers /\ Len(p) = 3 /\ IsPrefix(<<Root, id>>, p) /\ IsTree(E[p])
  BY EntryValues
<1> HIDE DEF E
<1>3. ASSUME \A p \in DOMAIN E : ~Touches(o.pointer, p) PROVE o.pointer \notin DOMAIN d
  <2>1. \A p \in DOMAIN E : ~IsPrefix(p, o.pointer) /\ o.pointer \notin Above(p)
    BY <1>2a, <1>1, <1>3, AboveIs DEF Touches
  <2> QED BY <1>0, <1>1, <2>1
<1>4. ASSUME NEW x \in Above(o.pointer), x \in DOMAIN d PROVE d[x] = Table
  <2>1. x \in Pointers /\ IsPrefix(x, o.pointer) /\ x # o.pointer
    BY <1>1, <1>4, AboveIs
  <2>2. ASSUME NEW p \in DOMAIN E, IsPrefix(p, x) PROVE FALSE
    <3>1. IsPrefix(p, o.pointer)
      BY <1>1, <1>2a, <2>1, <2>2, PrefixTransitive
    <3>2. o.pointer = p
      BY <1>2, <3>1 DEF Touches
    <3> QED BY <1>1, <2>1, <2>2, <3>2, PrefixAntisymmetric
  <2> QED BY <1>0, <1>4, <2>1, <2>2
<1>5. ASSUME o.pointer \in DOMAIN d
      PROVE  /\ o.kind = "extend" => d[o.pointer] \in ListLeaves
             /\ o.kind = "overlay" => d[o.pointer] = Table
  <2>1. PICK p \in DOMAIN E : Touches(o.pointer, p)
    BY <1>3, <1>5
  <2>2. o.pointer = p /\ Contributes(o, p, E[p]) /\ o.kind \in {"set", "overlay"}
    BY <1>2, <2>1
  <2>3. d[p] = E[p][<< >>]
    BY <1>0, <1>5, <2>2, ValueIsTree
  <2> QED BY <2>2, <2>3 DEF Contributes
<1>6. Applies(d, o)
  BY <1>4, <1>5 DEF Applies
<1> QED BY <1>2, <1>3, <1>6 DEF E

LEMMA BesideIsMade ==
  ASSUME NEW q, IsSource(q), ~Conflicting(Patch(q)), NEW id \in DOMAIN q.servers, EntryAgrees(q, id)
  PROVE  Standalone(q, id) # {}
<1>0. IsPatch(EntryOps(q, id), EntrySet(q, id)) /\ IsPatch(Routed(q, id), RoutedSet(q, id)) /\ IsDocument(Empty)
  BY EntryIsPatch, RoutedIsPatch, EmptyIsDocument
<1>1. \A o \in EntrySet(q, id) : Applies(Empty, o)
  <2>1. DOMAIN Empty = {<< >>} /\ Empty[<< >>] = Table
    BY LeafIs, EmptyIsDocument DEF Empty
  <2>2. \A o \in EntrySet(q, id) : o.pointer # << >>
    BY <1>0, OperationFields DEF IsPatch, AreOperations
  <2> QED BY <2>1, <2>2 DEF Applies
<1>2. PICK d : AppliedAll(Empty, EntryOps(q, id)) = {d} /\ Result(Empty, EntrySet(q, id), d)
  BY <1>0, <1>1, AppliedAllIs
<1>3. IsDocument(d) /\ \A o \in RoutedSet(q, id) : Applies(d, o)
  BY <1>2, RoutedApplies DEF Result
<1>4. PICK u : AppliedAll(d, Routed(q, id)) = {u}
  BY <1>0, <1>3, AppliedAllIs
<1> QED BY <1>2, <1>4 DEF Standalone

\* What makes a configuration valid does not tell registered from disabled
\* servers (_validate_plan and _optional_servers check alike).
THEOREM ValidIs ==
  ASSUME NEW q, IsSource(q)
  PROVE  Valid(q) <=> /\ ~Conflicting(q.committed) /\ ~Conflicting(q.local) /\ ~Conflicting(Patch(q))
                      /\ \A id \in DOMAIN q.servers : EntryAgrees(q, id)
<1>0. /\ DOMAIN q.servers \subseteq Names /\ DOMAIN q.servers = Registered(q) \cup Disabled(q)
      /\ Registered(q) \cap Disabled(q) = {}
      /\ ToSet(Shared(q)) = SharedSet(q)
  BY SourceServers, SharedEntries DEF Registered, Disabled
<1>0a. \A op \in Asked(q) : op.pointer \in Pointers
  BY AskedAre
<1>1. ASSUME Valid(q), NEW id \in DOMAIN q.servers, NEW op \in Asked(q), NEW key \in DOMAIN q.servers[id].fields,
             Touches(op.pointer, <<Root, id, key>>)
      PROVE  Contributes(op, <<Root, id, key>>, q.servers[id].fields[key])
  <2>1. key \in Names /\ id \in Names /\ op.pointer \in Pointers /\ <<Root, id>> \in Pointers
    BY <1>0, <1>0a, SourceServers, ServerPointer
  <2>2. Touches(op.pointer, <<Root, id>>)
    BY <1>1, <2>1, FieldTouches
  <2>3. ASSUME NEW i \in Disabled(q), Inside(op, i) PROVE i = id
    BY <1>0, <2>1, <2>2, <2>3, InsideIs, OneServer
  <2>4. CASE id \in Registered(q)
    <3>1. op \in SharedSet(q)
      BY <1>0, <2>3, <2>4 DEF SharedSet, Stays
    <3>2. FieldOf(q, <<Root, id, key>>, id, key)
      BY <2>4 DEF FieldOf
    <3>3. <<Root, id, key>> \in DOMAIN Generated(q) /\ Generated(q)[<<Root, id, key>>] = q.servers[id].fields[key]
      BY <3>2, GeneratedNodes
    <3>4. Contributes(op, <<Root, id, key>>, Generated(q)[<<Root, id, key>>])
      BY <1>1, <3>1, <3>3, SharedClash
    <3> QED BY <3>3, <3>4
  <2>5. CASE id \in Disabled(q)
    <3>1. ~Conflicting(Patch(q)) /\ ~Conflicting(Shared(q))
      BY <1>1 DEF Valid
    <3>2. Inside(op, id)
      <4>1. SUFFICES ASSUME ~Inside(op, id) PROVE FALSE
        OBVIOUS
      <4>2. Stays(q, op)
        BY <2>3, <4>1 DEF Stays
      <4> QED BY <2>2, <2>5, <3>1, <4>2, SharedApart
    <3>3. ToSet(Routed(q, id)) = RoutedSet(q, id) /\ op \in RoutedSet(q, id)
      BY <3>1, <3>2, RoutedIsPatch DEF IsPatch, RoutedSet
    <3>4. PICK i \in DOMAIN Routed(q, id) : Routed(q, id)[i] = op
      BY <3>3 DEF ToSet
    <3>5. ~Clashes(op, EntryOf(q, id))
      BY <1>1, <2>5, <3>4 DEF Valid, EntryOf
    <3>6. <<Root, id, key>> \in DOMAIN EntryOf(q, id) /\ EntryOf(q, id)[<<Root, id, key>>] = q.servers[id].fields[key]
      BY EntryNodes
    <3>7. Contributes(op, <<Root, id, key>>, EntryOf(q, id)[<<Root, id, key>>])
      BY <1>1, <3>5, <3>6 DEF Clashes
    <3> QED BY <3>6, <3>7
  <2> QED BY <1>0, <2>4, <2>5
<1>2. ASSUME ~Conflicting(q.committed), ~Conflicting(q.local), ~Conflicting(Patch(q)),
             \A id \in DOMAIN q.servers : EntryAgrees(q, id)
      PROVE  Valid(q)
  <2>1. ~Conflicting(Shared(q))
    <3>1. ASSUME NEW op \in Asked(q), NEW id \in Disabled(q), Stays(q, op), Touches(op.pointer, <<Root, id>>) PROVE FALSE
      <4>1. EntryAlone(q, id)
        BY <1>0, <1>2, AgreesAlone
      <4> QED BY <3>1, <4>1 DEF EntryAlone, Stays
    <3> QED BY <1>2, <3>1, SharedApart
  <2>2. ASSUME NEW op \in SharedSet(q) PROVE ~Clashes(op, Generated(q))
    <3>1. SUFFICES ASSUME NEW p \in DOMAIN Generated(q), Touches(op.pointer, p) PROVE Contributes(op, p, Generated(q)[p])
      BY DEF Clashes
    <3>2. PICK id, key : FieldOf(q, p, id, key)
      BY GeneratedNodes
    <3>3. /\ p = <<Root, id, key>> /\ id \in Registered(q) /\ key \in DOMAIN q.servers[id].fields
          /\ Generated(q)[p] = q.servers[id].fields[key]
      BY <3>2, GeneratedNodes DEF FieldOf
    <3>4. CASE op \in Asked(q)
      BY <1>0, <1>2, <3>1, <3>3, <3>4 DEF EntryAgrees
    <3>5. CASE op \in Deletions(q)
      <4>1. PICK i \in Disabled(q) : op.pointer = <<Root, i>>
        BY <3>5 DEF Deletions, DeleteOp
      <4>2. i \in Names /\ id \in Names /\ key \in Names /\ <<Root, i>> \in Pointers
        BY <1>0, <3>3, <4>1, SourceServers, ServerPointer
      <4>3. Touches(<<Root, i>>, <<Root, id>>)
        BY <3>1, <3>3, <4>1, <4>2, FieldTouches
      <4> QED BY <1>0, <3>3, <4>1, <4>2, <4>3, SameServer
    <3> QED BY <3>4, <3>5 DEF SharedSet
  <2>3. \A i \in DOMAIN Shared(q) : ~Clashes(Shared(q)[i], Generated(q))
    BY <1>0, <2>2 DEF ToSet
  <2>4. ASSUME NEW id \in Disabled(q), NEW i \in DOMAIN Routed(q, id)
        PROVE  ~Clashes(Routed(q, id)[i], EntryOf(q, id))
    <3>1. ToSet(Routed(q, id)) = RoutedSet(q, id)
      BY <1>2, RoutedIsPatch DEF IsPatch
    <3>2. Routed(q, id)[i] \in Asked(q)
      BY <3>1 DEF ToSet, RoutedSet
    <3>3. SUFFICES ASSUME NEW p \in DOMAIN EntryOf(q, id), Touches(Routed(q, id)[i].pointer, p)
                   PROVE  Contributes(Routed(q, id)[i], p, EntryOf(q, id)[p])
      BY DEF Clashes
    <3>4. PICK key \in DOMAIN q.servers[id].fields : p = <<Root, id, key>>
      BY <1>0, EntryNodes
    <3>5. EntryOf(q, id)[p] = q.servers[id].fields[key] /\ EntryAgrees(q, id)
      BY <1>0, <1>2, <3>4, EntryNodes
    <3> QED BY <3>2, <3>3, <3>4, <3>5 DEF EntryAgrees
  <2>5. \A id \in Disabled(q) : Standalone(q, id) # {}
    BY <1>0, <1>2, BesideIsMade
  <2> QED BY <1>2, <2>1, <2>3, <2>4, <2>5 DEF Valid, EntryOf
<1>3. ASSUME Valid(q)
      PROVE  ~Conflicting(q.committed) /\ ~Conflicting(q.local) /\ ~Conflicting(Patch(q))
  BY <1>3 DEF Valid
<1> QED BY <1>1, <1>2, <1>3 DEF EntryAgrees

-----------------------------------------------------------------------------
(* Registering and disabling.                                              *)

LEMMA ToggledIs ==
  ASSUME NEW q, IsSource(q), NEW id \in DOMAIN q.servers
  PROVE  /\ IsSource(Toggled(q, id))
         /\ Toggled(q, id).committed = q.committed /\ Toggled(q, id).local = q.local
         /\ DOMAIN Toggled(q, id).servers = DOMAIN q.servers
         /\ \A i \in DOMAIN q.servers : Toggled(q, id).servers[i].fields = q.servers[i].fields
<1> DEFINE r == Toggled(q, id)
           s == r.servers
<1>0. q = [servers |-> q.servers, committed |-> q.committed, local |-> q.local]
  BY DEF IsSource
<1>1. r = [servers |-> [q.servers EXCEPT ![id].enabled = ~@], committed |-> q.committed, local |-> q.local]
  BY <1>0 DEF Toggled
<1>2. DOMAIN s = DOMAIN q.servers
  BY <1>1
<1>3. ASSUME NEW i \in DOMAIN q.servers
      PROVE  /\ s[i].fields = q.servers[i].fields /\ s[i].enabled \in BOOLEAN
             /\ s[i] = [enabled |-> s[i].enabled, fields |-> s[i].fields]
  <2> DEFINE a == q.servers[i]
  <2>1. a = [enabled |-> a.enabled, fields |-> a.fields] /\ a.enabled \in BOOLEAN
    BY DEF IsSource
  <2>2. s[i] = IF i = id THEN [a EXCEPT !.enabled = ~@] ELSE a
    BY <1>1
  <2> HIDE DEF a, s
  <2>3. [a EXCEPT !.enabled = ~@] = [enabled |-> ~a.enabled, fields |-> a.fields]
    BY <2>1
  <2> QED BY <2>1, <2>2, <2>3 DEF a
<1>4. r.committed = q.committed /\ r.local = q.local
  BY <1>1
<1>5. r = [servers |-> r.servers, committed |-> r.committed, local |-> r.local]
  BY <1>1
<1> HIDE DEF r, s
<1>6. /\ \A ops \in {r.committed, r.local} : ops \in Seq(ToSet(ops)) /\ \A op \in ToSet(ops) : IsOperation(op)
      /\ IsFiniteSet(DOMAIN s) /\ DOMAIN s \subseteq Names
  BY <1>2, <1>4 DEF IsSource
<1>7. ASSUME NEW i \in DOMAIN s
      PROVE  /\ IsFiniteSet(DOMAIN s[i].fields) /\ DOMAIN s[i].fields \subseteq Names /\ DOMAIN s[i].fields # {}
             /\ \A key \in DOMAIN s[i].fields : IsTree(s[i].fields[key]) /\ s[i].fields[key][<< >>] \notin ListLeaves
  BY <1>2, <1>3, SourceServers
<1>8. IsSource(r)
  BY <1>2, <1>3, <1>5, <1>6, <1>7 DEF IsSource, s
<1> QED BY <1>2, <1>3, <1>4, <1>8 DEF r, s

LEMMA ToggledSame ==
  ASSUME NEW q, IsSource(q), NEW id \in DOMAIN q.servers
  PROVE  /\ Valid(q) <=> Valid(Toggled(q, id))
         /\ Standalone(Toggled(q, id), id) = Standalone(q, id)
<1> DEFINE r == Toggled(q, id)
<1>0. /\ IsSource(r) /\ r.committed = q.committed /\ r.local = q.local
      /\ DOMAIN r.servers = DOMAIN q.servers
      /\ \A i \in DOMAIN q.servers : r.servers[i].fields = q.servers[i].fields
  BY ToggledIs
<1> HIDE DEF r
<1>1. Patch(r) = Patch(q) /\ Asked(r) = Asked(q)
  BY <1>0 DEF Patch, Asked
<1>2. \A i \in DOMAIN q.servers : EntryAgrees(r, i) <=> EntryAgrees(q, i)
  BY <1>0, <1>1 DEF EntryAgrees
<1>3. Valid(q) <=> Valid(r)
  <2>1. Valid(q) <=> /\ ~Conflicting(q.committed) /\ ~Conflicting(q.local) /\ ~Conflicting(Patch(q))
                     /\ \A i \in DOMAIN q.servers : EntryAgrees(q, i)
    BY ValidIs
  <2>2. Valid(r) <=> /\ ~Conflicting(r.committed) /\ ~Conflicting(r.local) /\ ~Conflicting(Patch(r))
                     /\ \A i \in DOMAIN r.servers : EntryAgrees(r, i)
    BY <1>0, ValidIs
  <2> QED BY <1>0, <1>1, <1>2, <2>1, <2>2
<1>4. Routed(r, id) = Routed(q, id)
  BY <1>1 DEF Routed
<1>5. EntryOps(r, id) = EntryOps(q, id)
  BY <1>0 DEF EntryOps
<1>6. Standalone(r, id) = Standalone(q, id)
  BY <1>4, <1>5 DEF Standalone
<1> QED BY <1>3, <1>6 DEF r

\* What the plan does at the entry of a registered server is what the file
\* beside would be made of.
LEMMA NearEntry ==
  ASSUME NEW q, IsSource(q), Valid(q), NEW id \in Registered(q)
  PROVE  /\ id \in Names /\ id \in DOMAIN q.servers /\ EntryAgrees(q, id)
         /\ \A op : op \in RoutedSet(q, id) <=> op \in SharedSet(q) /\ Touches(op.pointer, <<Root, id>>)
         /\ \A p : p \in DOMAIN EntryOf(q, id) <=> p \in DOMAIN Generated(q) /\ Touches(p, <<Root, id>>)
         /\ \A p \in DOMAIN EntryOf(q, id) : Generated(q)[p] = EntryOf(q, id)[p]
<1>0. id \in Names /\ id \in DOMAIN q.servers /\ EntryAgrees(q, id) /\ <<Root, id>> \in Pointers
      /\ id \notin Disabled(q) /\ Disabled(q) \subseteq Names
  BY ValidIs, SourceServers, ServerPointer DEF Registered, Disabled
<1>1. ASSUME NEW op \in RoutedSet(q, id) PROVE op \in SharedSet(q) /\ Touches(op.pointer, <<Root, id>>)
  <2>1. op \in Asked(q) /\ op.pointer \in Pointers /\ IsPrefix(<<Root, id>>, op.pointer)
    BY <1>0, AskedAre, InsideIs DEF RoutedSet
  <2>2. \A i \in Disabled(q) : ~Inside(op, i)
    BY <1>0, <2>1, InsideIs, OneServer DEF Touches
  <2> QED BY <2>1, <2>2 DEF SharedSet, Stays, Touches
<1>2. ASSUME NEW op \in SharedSet(q), Touches(op.pointer, <<Root, id>>) PROVE op \in RoutedSet(q, id)
  <2>1. CASE op \in Asked(q)
    <3>1. EntryAlone(q, id)
      BY <1>0, AgreesAlone
    <3> QED BY <1>2, <2>1, <3>1 DEF EntryAlone, RoutedSet
  <2>2. CASE op \in Deletions(q)
    <3>1. PICK i \in Disabled(q) : op.pointer = <<Root, i>>
      BY <2>2 DEF Deletions, DeleteOp
    <3> QED BY <1>0, <1>2, <3>1, SameServer
  <2> QED BY <2>1, <2>2 DEF SharedSet
<1>3. ASSUME NEW p \in DOMAIN EntryOf(q, id)
      PROVE  p \in DOMAIN Generated(q) /\ Touches(p, <<Root, id>>) /\ Generated(q)[p] = EntryOf(q, id)[p]
  <2>1. PICK key \in DOMAIN q.servers[id].fields : p = <<Root, id, key>>
    BY <1>0, EntryNodes
  <2>2. FieldOf(q, p, id, key)
    BY <2>1 DEF FieldOf
  <2>3. p \in DOMAIN Generated(q) /\ Generated(q)[p] = q.servers[id].fields[key]
    BY <2>2, GeneratedNodes
  <2>4. EntryOf(q, id)[p] = q.servers[id].fields[key] /\ IsPrefix(<<Root, id>>, p)
    BY <1>0, <2>1, EntryNodes, EntryValues
  <2> QED BY <2>3, <2>4 DEF Touches
<1>4. ASSUME NEW p \in DOMAIN Generated(q), Touches(p, <<Root, id>>) PROVE p \in DOMAIN EntryOf(q, id)
  <2>1. PICK i, key : FieldOf(q, p, i, key)
    BY GeneratedNodes
  <2>2. i \in DOMAIN q.servers /\ key \in DOMAIN q.servers[i].fields /\ p = <<Root, i, key>>
    BY <2>1 DEF FieldOf, Registered
  <2>3. i \in Names /\ key \in Names
    BY <2>2, SourceServers
  <2>4. p \in Pointers /\ IsPrefix(<<Root, i>>, p)
    BY <2>2, <2>3, FieldPointer
  <2>5. i = id
    BY <1>0, <1>4, <2>3, <2>4, OneServer
  <2> QED BY <1>0, <2>2, <2>5, EntryNodes
<1> QED BY <1>0, <1>1, <1>2, <1>3, <1>4

-----------------------------------------------------------------------------
(* The entry of a registered server, and the file beside it would be in.   *)

\* u is what a run makes for q, through e; t is the file beside for id, through d.
Beside(q, id, e, u, d, t) ==
  /\ IsSource(q) /\ id \in Registered(q) /\ Makes(q, u, e, u)
  /\ Result(Empty, EntrySet(q, id), d)
  /\ \A o \in RoutedSet(q, id) : Applies(d, o)
  /\ Result(d, RoutedSet(q, id), t)

LEMMA BesideFields ==
  ASSUME NEW q, NEW id, NEW e, NEW u, NEW d, NEW t, Beside(q, id, e, u, d, t),
         NEW p \in DOMAIN EntryOf(q, id)
  PROVE  p \in DOMAIN e /\ p \in DOMAIN d /\ p \in DOMAIN u /\ ValueAt(e, p) = ValueAt(d, p)
<1>0. IsSource(q) /\ Valid(q) /\ id \in Registered(q) /\ Result(u, GeneratedSet(q), e)
      /\ Result(Empty, EntrySet(q, id), d) /\ Complete(u, q)
  BY DEF Beside, Makes
<1>1. p \in DOMAIN Generated(q) /\ Generated(q)[p] = EntryOf(q, id)[p] /\ id \in DOMAIN q.servers
  BY <1>0, NearEntry
<1>2. p \in DOMAIN e /\ ValueAt(e, p) = Generated(q)[p]
  BY <1>0, <1>1, GeneratedResult
<1>3. p \in DOMAIN d /\ ValueAt(d, p) = EntryOf(q, id)[p]
  BY <1>0, <1>1, EntryResult
<1>4. p \in DOMAIN u
  BY <1>0, <1>1 DEF Complete
<1> QED BY <1>1, <1>2, <1>3, <1>4

\* Where a patch has its say, both hold the same, but for what it extends or finds.
LEMMA BesidePatched ==
  ASSUME NEW q, NEW id, NEW e, NEW u, NEW d, NEW t, Beside(q, id, e, u, d, t),
         NEW p \in Pointers, p \in DOMAIN u \cup DOMAIN t,
         NEW o \in RoutedSet(q, id), IsPrefix(o.pointer, p)
  PROVE  \/ p \in DOMAIN u /\ p \in DOMAIN t /\ u[p] = t[p]
         \/ p \in DOMAIN u /\ p \in DOMAIN t /\ ToSet(t[p]) \subseteq ToSet(u[p]) /\ o.kind = "extend" /\ o.pointer = p
         \/ p \notin DOMAIN t /\ FoundBy(o, p)
<1> DEFINE b == o.pointer
           v == o.value
           x == Rest(b, p)
<1>0. /\ IsSource(q) /\ Valid(q) /\ id \in Registered(q) /\ Result(e, SharedSet(q), u)
      /\ Result(d, RoutedSet(q, id), t) /\ Result(Empty, EntrySet(q, id), d)
      /\ IsTree(u) /\ IsTree(t) /\ IsTree(e) /\ IsTree(d) /\ IsDocument(e)
      /\ \A n \in SharedSet(q) : Applies(e, n)
  BY DEF Beside, Makes, Result, IsDocument
<1>1. o \in SharedSet(q) /\ id \in DOMAIN q.servers /\ EntryAgrees(q, id) /\ o \in Asked(q) /\ Applies(e, o)
  BY <1>0, NearEntry DEF RoutedSet
<1>2. /\ b \in Pointers /\ b # << >> /\ IsOperation(o) /\ IsTree(v)
      /\ o.kind = "overlay" => v[<< >>] = Table
      /\ o.kind = "extend" => v[<< >>] \in ListLeaves
  BY <1>0, <1>1, AskedAre, OperationFields
<1>3. x \in Pointers /\ b \o x = p
  BY <1>2, RestJoins
<1> HIDE DEF x
<1> DEFINE w == ValueAt(u, b)
           z == ValueAt(t, b)
<1>4. (p \in DOMAIN u <=> x \in DOMAIN w) /\ (p \in DOMAIN u => u[p] = w[x])
  <2>1. \A r \in Pointers : r \in DOMAIN w <=> b \o r \in DOMAIN u
    BY <1>0, <1>2, ValueNodes
  <2>2. \A r \in DOMAIN w : w[r] = u[b \o r]
    BY <1>0, <1>2, ValueNodes
  <2> HIDE DEF w
  <2> QED BY <1>3, <2>1, <2>2
<1>5. (p \in DOMAIN t <=> x \in DOMAIN z) /\ (p \in DOMAIN t => t[p] = z[x])
  <2>1. \A r \in Pointers : r \in DOMAIN z <=> b \o r \in DOMAIN t
    BY <1>0, <1>2, ValueNodes
  <2>2. \A r \in DOMAIN z : z[r] = t[b \o r]
    BY <1>0, <1>2, ValueNodes
  <2> HIDE DEF z
  <2> QED BY <1>3, <2>1, <2>2
<1>6. o.kind # "delete"
  <2>1. SUFFICES ASSUME o.kind = "delete" PROVE FALSE
    OBVIOUS
  <2>2. b \notin DOMAIN u /\ b \notin DOMAIN t
    BY <1>0, <1>1, <2>1 DEF Result
  <2> QED BY <1>0, <1>2, <2>2, TreeAbove
<1>7. w = Combined(e, o) /\ z = Combined(d, o)
  BY <1>0, <1>1, <1>6 DEF Result
<1> HIDE DEF w, z
<1>8. w = z => p \in DOMAIN u /\ p \in DOMAIN t /\ u[p] = t[p]
  BY <1>4, <1>5
<1>9. CASE \E f \in DOMAIN EntryOf(q, id) : Touches(b, f)
  <2>1. PICK f \in DOMAIN EntryOf(q, id) : Touches(b, f)
    BY <1>9
  <2>2. b = f /\ o.kind \in {"set", "overlay"}
    BY <1>0, <1>1, <2>1, RoutedApplies
  <2>3. b \in DOMAIN e /\ b \in DOMAIN d /\ ValueAt(e, b) = ValueAt(d, b)
    BY <2>2, BesideFields
  <2>4. Combined(e, o) = Combined(d, o)
    BY <2>2, <2>3 DEF Combined
  <2> QED BY <1>7, <1>8, <2>4
<1>10. CASE \A f \in DOMAIN EntryOf(q, id) : ~Touches(b, f)
  <2>1. b \notin DOMAIN d
    BY <1>0, <1>1, <1>10, RoutedApplies
  <2>2. CASE o.kind = "extend"
    <3> DEFINE l == IF b \in DOMAIN e THEN e[b] ELSE << >>
               m == v[<< >>]
    <3>1. l \in ListLeaves /\ m \in ListLeaves /\ << >> \in ListLeaves
      BY <1>1, <1>2, <2>2, NodesAssumption DEF Applies
    <3>2. w = Leaf(Extended(l, m)) /\ z = Leaf(Extended(<< >>, m))
      BY <1>7, <2>1, <2>2 DEF Combined
    <3> HIDE DEF l, m
    <3>3. x = << >>
      <4>1. x \in DOMAIN w \/ x \in DOMAIN z
        BY <1>4, <1>5
      <4> QED BY <3>2, <4>1, LeafIs
    <3>4. x \in DOMAIN w /\ x \in DOMAIN z /\ w[x] = Extended(l, m) /\ z[x] = Extended(<< >>, m)
      BY <3>2, <3>3, LeafIs
    <3>5. ToSet(Extended(<< >>, m)) = ToSet(<< >>) \cup ToSet(m) /\ ToSet(Extended(l, m)) = ToSet(l) \cup ToSet(m)
      BY <3>1, ListsExtend
    <3>6. ToSet(z[x]) \subseteq ToSet(w[x])
      BY <3>4, <3>5, EntriesOfEmpty
    <3>7. b = p
      BY <1>2, <1>3, <3>3, JoinRoot
    <3> QED BY <1>4, <1>5, <2>2, <3>4, <3>6, <3>7
  <2>3. CASE o.kind = "overlay"
    <3>1. z = v
      BY <1>7, <2>1, <2>3 DEF Combined
    <3>2. CASE b \notin DOMAIN e
      <4>1. w = v
        BY <1>7, <2>3, <3>2 DEF Combined
      <4> QED BY <1>8, <3>1, <4>1
    <3>3. CASE b \in DOMAIN e
      <4> DEFINE E == ValueAt(e, b)
      <4>1. w = Overlaid(E, v) /\ IsTree(E)
        BY <1>0, <1>7, <2>3, <3>3, ValueIsTree DEF Combined
      <4> HIDE DEF E, v, b
      <4>2. /\ \A r \in Pointers : r \in DOMAIN Overlaid(E, v) <=>
                 r \in DOMAIN v \/ (r \in DOMAIN E /\ r # << >> /\ <<r[1]>> \notin DOMAIN v)
            /\ \A r \in DOMAIN Overlaid(E, v) :
                 Overlaid(E, v)[r] = IF r \in DOMAIN v THEN v[r] ELSE E[r]
        BY <1>2, <2>3, <4>1, OverlaidNodes
      <4>3. CASE x \in DOMAIN v
        BY <1>3, <1>4, <1>5, <3>1, <4>1, <4>2, <4>3
      <4>4. CASE x \notin DOMAIN v
        <5>1. p \notin DOMAIN t
          BY <1>5, <3>1, <4>4
        <5>2. x # << >> /\ <<x[1]>> \notin DOMAIN v
          BY <1>3, <1>4, <4>1, <4>2, <4>4, <5>1
        <5>3. p # b
          BY <1>2, <1>3, <5>2, JoinRoot, JoinCancels, RootPrefix
        <5>4. ASSUME NEW k \in Keys(v), IsPrefix(b \o k, p) PROVE FALSE
          <6>1. k \in Pointers /\ Len(k) = 1 /\ k \in DOMAIN v
            BY <1>2, TreeNodes DEF Keys
          <6>2. IsPrefix(k, x)
            BY <1>2, <1>3, <5>4, <6>1, JoinPrefix
          <6>3. k = <<x[1]>>
            <7>1. Len(k) <= Len(x) /\ \A j \in 1..Len(k) : k[j] = x[j]
              BY <1>3, <6>1, <6>2, PrefixWhere
            <7>2. k[1] = x[1] /\ k = [j \in 1..Len(k) |-> k[j]]
              BY <6>1, <7>1, PointerLen
            <7>3. k = <<k[1]>>
              BY <6>1, <7>2
            <7> QED BY <7>2, <7>3
          <6> QED BY <5>2, <6>1, <6>3
        <5>5. \A k \in Named(o) : ~IsPrefix(k, p)
          BY <2>3, <5>4 DEF Named, b, v
        <5> QED BY <2>3, <5>1, <5>3, <5>5 DEF FoundBy, b
      <4> QED BY <4>3, <4>4
    <3> QED BY <3>2, <3>3
  <2>4. CASE o.kind # "extend" /\ o.kind # "overlay"
    <3>1. w = v /\ z = v
      BY <1>7, <2>4 DEF Combined
    <3> QED BY <1>8, <3>1
  <2> QED BY <2>2, <2>3, <2>4
<1> QED BY <1>9, <1>10

\* Elsewhere both hold the same, but for what no plan accounts for.
LEMMA BesideUnpatched ==
  ASSUME NEW q, NEW id, NEW e, NEW u, NEW d, NEW t, Beside(q, id, e, u, d, t),
         NEW p \in Pointers, p \in DOMAIN u \cup DOMAIN t, IsPrefix(<<Root, id>>, p),
         \A o \in RoutedSet(q, id) : ~IsPrefix(o.pointer, p)
  PROVE  \/ p \in DOMAIN u /\ p \in DOMAIN t /\ u[p] = t[p]
         \/ p \notin DOMAIN t /\ Away(q, p)
<1> DEFINE S == SharedSet(q)
           R == RoutedSet(q, id)
           E == DOMAIN EntryOf(q, id)
<1>0. /\ IsSource(q) /\ Valid(q) /\ id \in Registered(q) /\ Result(e, S, u) /\ Result(u, GeneratedSet(q), e)
      /\ Result(d, R, t) /\ Result(Empty, EntrySet(q, id), d) /\ Complete(u, q)
      /\ IsTree(u) /\ IsTree(t) /\ IsTree(e) /\ IsTree(d)
  BY DEF Beside, Makes, Result, IsDocument
<1>1. /\ id \in Names /\ id \in DOMAIN q.servers /\ <<Root, id>> \in Pointers /\ <<Root, id>> # << >>
      /\ \A op : op \in R <=> op \in S /\ Touches(op.pointer, <<Root, id>>)
      /\ \A f : f \in E <=> f \in DOMAIN Generated(q) /\ Touches(f, <<Root, id>>)
  BY <1>0, NearEntry, ServerPointer
<1>2. \A op \in S : op.pointer \in Pointers
  BY <1>0, SharedEntries, OperationFields DEF AreOperations
<1>3. \A f \in DOMAIN Generated(q) : f \in Pointers
  BY <1>0, GeneratedValues
<1>4. \A r \in Pointers : Touches(r, p) => Touches(r, <<Root, id>>)
  BY <1>1, PrefixesMeet, PrefixTransitive DEF Touches
<1>5. \A op \in S : Touches(op.pointer, p) => op \in R
  BY <1>1, <1>2, <1>4
<1>6. \A f \in DOMAIN Generated(q) : Touches(f, p) => f \in E
  BY <1>1, <1>3, <1>4
<1>7. Outside(S, p) /\ Outside(R, p)
  BY <1>5 DEF Outside, Touches
<1>8. MadeFor(S, p) <=> MadeFor(R, p)
  <2>1. \A op \in S : p \in Above(op.pointer) => Touches(op.pointer, p)
    BY <1>2, AboveIs DEF Touches
  <2> QED BY <1>1, <1>5, <2>1 DEF MadeFor
<1>9. /\ p \in DOMAIN u <=> p \in DOMAIN e \/ MadeFor(S, p)
      /\ p \in DOMAIN u => u[p] = IF p \in DOMAIN e THEN e[p] ELSE Table
  BY <1>0, <1>7 DEF Result
<1>10. /\ p \in DOMAIN t <=> p \in DOMAIN d \/ MadeFor(R, p)
       /\ p \in DOMAIN t => t[p] = IF p \in DOMAIN d THEN d[p] ELSE Table
  BY <1>0, <1>7 DEF Result
<1>11. CASE \E f \in E : IsPrefix(f, p)
  <2>1. PICK f \in E : IsPrefix(f, p)
    BY <1>11
  <2>2. ValueAt(e, f) = ValueAt(d, f) /\ f \in Pointers
    BY <1>1, <1>3, <2>1, BesideFields
  <2>3. AlikeBelow(e, d, f)
    BY <1>0, <2>2, SameValue
  <2>4. (p \in DOMAIN e <=> p \in DOMAIN d) /\ (p \in DOMAIN e => e[p] = d[p])
    BY <2>1, <2>3 DEF AlikeBelow
  <2> QED BY <1>8, <1>9, <1>10, <2>4
<1>12. CASE \A f \in E : ~IsPrefix(f, p)
  <2>1. /\ p \in DOMAIN d <=> \E f \in E : p \in Above(f)
        /\ p \in DOMAIN d => d[p] = Table
    <3>1. p # << >>
      BY <1>1, RootPrefix
    <3> QED BY <1>0, <1>1, <1>12, <3>1, EntryResult
  <2>2. ASSUME p \in DOMAIN t PROVE p \in DOMAIN u /\ u[p] = t[p]
    <3>1. t[p] = Table
      BY <1>10, <2>1, <2>2
    <3>2. PICK r \in DOMAIN u \cap Pointers : IsPrefix(p, r) /\ p # r
      <4>1. CASE p \in DOMAIN d
        <5>1. PICK f \in E : p \in Above(f)
          BY <2>1, <4>1
        <5>2. f \in DOMAIN u /\ f \in Pointers
          BY <1>1, <1>3, BesideFields
        <5> QED BY <5>1, <5>2, AboveIs
      <4>2. CASE MadeFor(R, p)
        <5>1. PICK o \in R : o.kind # "delete" /\ p \in Above(o.pointer)
          BY <4>2 DEF MadeFor
        <5>2. o \in S /\ o.pointer \in Pointers
          BY <1>1, <1>2
        <5>3. o.pointer \in DOMAIN u
          BY <1>0, <5>1, <5>2, PutsAre
        <5> QED BY <5>1, <5>2, <5>3, AboveIs
      <4> QED BY <1>10, <2>2, <4>1, <4>2
    <3>3. p \in DOMAIN u /\ u[p] = Table
      BY <1>0, <3>2, TreeAbove
    <3> QED BY <3>1, <3>3
  <2>3. ASSUME p \notin DOMAIN t PROVE Away(q, p)
    <3>1. ASSUME NEW g \in DOMAIN Generated(q), Touches(g, p) PROVE FALSE
      <4>1. g \in E /\ g \in Pointers
        BY <1>3, <1>6, <3>1
      <4>2. p \in Above(g)
        BY <1>12, <3>1, <4>1, AboveIs, PrefixReflexive DEF Touches
      <4> QED BY <1>10, <2>1, <2>3, <4>1, <4>2
    <3>2. ASSUME NEW o \in S, o.kind # "delete", Touches(o.pointer, p) PROVE FALSE
      <4>1. o \in R /\ o.pointer \in Pointers /\ ~IsPrefix(o.pointer, p)
        BY <1>2, <1>5, <3>2
      <4>2. p \in Above(o.pointer)
        BY <3>2, <4>1, AboveIs, PrefixReflexive DEF Touches
      <4>3. MadeFor(R, p)
        BY <3>2, <4>1, <4>2 DEF MadeFor
      <4> QED BY <1>10, <2>3, <4>3
    <3> QED BY <3>1, <3>2 DEF Away
  <2> QED BY <2>2, <2>3
<1> QED BY <1>11, <1>12

LEMMA BesideHolds ==
  ASSUME TypeInv, RunInv, AccountsInv, outcome = "done", ~cut, NEW id \in Registered(source),
         NEW t \in Standalone(source, id), NEW p \in Below(doc, <<Root, id>>) \cup Below(t, <<Root, id>>)
  PROVE  \/ p \in DOMAIN doc \cap DOMAIN t /\ doc[p] = t[p]
         \/ /\ p \in DOMAIN doc \cap DOMAIN t /\ ToSet(t[p]) \subseteq ToSet(doc[p])
            /\ \E op \in ToSet(Shared(source)) : op.kind = "extend" /\ op.pointer = p
         \/ /\ p \notin DOMAIN t
            /\ \/ \E q \in theirs : IsPrefix(p, q)
               \/ \E q \in left \ Puts(source) : Touches(q, p)
               \/ \E op \in ToSet(Shared(source)) : FoundBy(op, p)
<1> DEFINE q == source
<1>0. /\ IsSource(q) /\ IsDocument(doc) /\ IsTree(doc) /\ DOMAIN doc \subseteq Pointers
      /\ MadeFrom(q, owned, doc) /\ DOMAIN owned = DOMAIN Generated(q) /\ pc = "idle"
      /\ ToSet(Shared(q)) = SharedSet(q)
  BY SourceIs, TreeNodes, SharedEntries DEF TypeInv, RunInv, IsDocument, Record
<1>1. PICK e : Makes(q, doc, e, doc)
  BY <1>0, MadeAgain DEF MadeFrom
<1>2. Valid(q) /\ ~Conflicting(Patch(q)) /\ id \in Names /\ id \in DOMAIN q.servers /\ <<Root, id>> \in Pointers
  BY <1>0, <1>1, NearEntry, ServerPointer DEF Makes, Valid
<1>3. PICK d : /\ Result(Empty, EntrySet(q, id), d)
               /\ \A o \in RoutedSet(q, id) : Applies(d, o)
               /\ Result(d, RoutedSet(q, id), t)
  BY <1>0, <1>2, StandaloneMade
<1>4. Beside(q, id, e, doc, d, t) /\ IsTree(t)
  BY <1>0, <1>1, <1>3 DEF Beside, Result, IsDocument
<1>5. p \in Pointers /\ p \in DOMAIN doc \cup DOMAIN t /\ IsPrefix(<<Root, id>>, p)
  BY <1>0, <1>2, <1>4, BelowIs
<1>6. CASE \E o \in RoutedSet(q, id) : IsPrefix(o.pointer, p)
  <2>1. PICK o \in RoutedSet(q, id) : IsPrefix(o.pointer, p)
    BY <1>6
  <2>2. o \in ToSet(Shared(q))
    BY <1>0, <1>2, NearEntry
  <2>3. \/ p \in DOMAIN doc /\ p \in DOMAIN t /\ doc[p] = t[p]
        \/ p \in DOMAIN doc /\ p \in DOMAIN t /\ ToSet(t[p]) \subseteq ToSet(doc[p]) /\ o.kind = "extend" /\ o.pointer = p
        \/ p \notin DOMAIN t /\ FoundBy(o, p)
    BY <1>4, <1>5, <2>1, BesidePatched
  <2> QED BY <2>2, <2>3
<1>7. CASE \A o \in RoutedSet(q, id) : ~IsPrefix(o.pointer, p)
  <2>1. \/ p \in DOMAIN doc /\ p \in DOMAIN t /\ doc[p] = t[p]
        \/ p \notin DOMAIN t /\ Away(q, p)
    BY <1>4, <1>5, <1>7, BesideUnpatched
  <2>2. ASSUME p \notin DOMAIN t, Away(q, p)
        PROVE  (\E x \in theirs : IsPrefix(p, x)) \/ \E x \in left \ Puts(q) : Touches(x, p)
    <3>1. p \in DOMAIN doc \ {<< >>}
      BY <1>2, <1>5, <2>2, RootPrefix, ServerPointer
    <3>2. Leads(doc, Accounted(theirs, left \cup DOMAIN Generated(q)))
      BY <1>0 DEF AccountsInv, Owning
    <3>3. PICK y \in DOMAIN doc \cap Accounted(theirs, left \cup DOMAIN Generated(q)) : IsPrefix(p, y)
      BY <3>1, <3>2 DEF Leads
    <3>4. CASE y \in theirs
      BY <3>3, <3>4
    <3>5. CASE \E x \in left \cup DOMAIN Generated(q) : IsPrefix(x, y)
      <4>1. PICK x \in left \cup DOMAIN Generated(q) : IsPrefix(x, y)
        BY <3>5
      <4>2. x \in Pointers /\ y \in Pointers
        BY <1>0, GeneratedValues DEF TypeInv
      <4>3. Touches(x, p)
        BY <1>5, <3>3, <4>1, <4>2, PrefixesMeet DEF Touches
      <4>4. x \notin DOMAIN Generated(q)
        BY <2>2, <4>3 DEF Away
      <4>5. x \notin Puts(q)
        BY <1>0, <2>2, <4>3 DEF Away, Puts
      <4> QED BY <4>1, <4>3, <4>4, <4>5
    <3> QED BY <3>3, <3>4, <3>5 DEF Accounted
  <2> QED BY <2>1, <2>2
<1> QED BY <1>6, <1>7

\* Disabling a server moves its entry, patches included, to the file beside,
\* and makes no valid configuration invalid.
THEOREM DisablingKeepsEntry == Spec => []DisabledKeepsEntry
<1>1. TypeInv /\ RunInv /\ AccountsInv => DisabledKeepsEntry
  <2> SUFFICES ASSUME TypeInv, RunInv, AccountsInv PROVE DisabledKeepsEntry
    OBVIOUS
  <2>1. ASSUME NEW id \in DOMAIN source.servers
        PROVE  /\ Valid(source) <=> Valid(Toggled(source, id))
               /\ Standalone(Toggled(source, id), id) = Standalone(source, id)
    BY SourceIs, ToggledSame
  <2> QED BY <2>1, BesideHolds DEF DisabledKeepsEntry
<1> QED BY <1>1, AllAlways, PTL
==============================================================================
