-------------------------------- MODULE Lists --------------------------------
(***************************************************************************)
(* List comprehensions, which the compiler merges lists with               *)
(* ([x for x in s if x in S]).  Written as a recursive function rather     *)
(* than with SelectSeq, of which the proof system knows nothing.           *)
(***************************************************************************)
EXTENDS Integers, SequencesExt

\* [n -> the entries of the first n of s that are in S, in their order]
KeptUpTo(s, S) ==
  LET kept[n \in 0..Len(s)] ==
        IF n = 0 THEN << >>
        ELSE IF s[n] \in S THEN Append(kept[n - 1], s[n]) ELSE kept[n - 1]
  IN kept

\* The entries of s that are in S, in their order.
Kept(s, S) == KeptUpTo(s, S)[Len(s)]

\* No entry twice.
Unrepeated(s) == \A i, j \in 1..Len(s) : s[i] = s[j] => i = j
=============================================================================
