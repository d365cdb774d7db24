------------------------------ MODULE IndexOrder ------------------------------
(***************************************************************************)
(* The positions a loop picks that tests one after the other.              *)
(***************************************************************************)
EXTENDS Naturals, FiniteSets

\* The numbers of a finite set, in ascending order.
Ascending(S) ==
  CHOOSE s \in [1..Cardinality(S) -> S] : \A i, j \in 1..Cardinality(S) : i < j => s[i] < s[j]
=============================================================================
