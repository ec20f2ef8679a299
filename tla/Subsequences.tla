----------------------------- MODULE Subsequences -----------------------------
(***************************************************************************)
(* Filtering a list and listing a set of numbers.  SelectSeq and           *)
(* SetToSortSeq say the same of a predicate and of a relation; this form   *)
(* names the places, which the proofs need.                                *)
(***************************************************************************)
EXTENDS Naturals, FiniteSets, Sequences

\* How many places of K come up to i.
Place(K, i) == Cardinality({j \in K : j <= i})

\* The lowest k of them.
Lowest(K, k) == {i \in K : Place(K, i) <= k}

\* All of them, in ascending order.
InOrder(K) == [n \in 1 .. Cardinality(K) |-> CHOOSE i \in K : Place(K, i) = n]

\* What stands at the places in K, in its order.
Subsequence(q, K) ==
  [n \in 1 .. Cardinality(K) |-> q[CHOOSE i \in K : Place(K, i) = n]]

===============================================================================
