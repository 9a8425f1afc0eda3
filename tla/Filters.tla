------------------------------ MODULE Filters ------------------------------
(***************************************************************************)
(* SelectSeq with a set for the test, FlattenSeq of a mapped sequence, a   *)
(* sum, and a sorted sequence.                                             *)
(* The provers cannot expand the library's forms, or an operator that      *)
(* takes an operator; they can expand these, and FilterLemmas states what  *)
(* they do.                                                                *)
(***************************************************************************)
EXTENDS Integers, Sequences, FiniteSets

(* The elements of s that lie in S, in their order. *)
Keep(s, S) ==
  LET kept[k \in 0..Len(s)] ==
        IF k = 0 THEN <<>>
        ELSE IF s[k] \in S THEN Append(kept[k - 1], s[k])
        ELSE kept[k - 1]
  IN kept[Len(s)]

(* What F makes of the elements of s, one after the other. *)
Flat(s, F) ==
  LET flat[k \in 0..Len(s)] == IF k = 0 THEN <<>> ELSE flat[k - 1] \o F[s[k]]
  IN flat[Len(s)]

(* The sum of the numbers in s. *)
Total(s) ==
  LET sum[k \in 0..Len(s)] == IF k = 0 THEN 0 ELSE sum[k - 1] + s[k]
  IN sum[Len(s)]

(* The elements of a finite set one after the other: Before[s] are those   *)
(* of them that come before s.                                             *)
Sequenced(S, Before) ==
  [n \in 1..Cardinality(S) |-> CHOOSE s \in S : Cardinality(Before[s]) = n - 1]
=============================================================================
