---------------------------- MODULE Collections -----------------------------
(***************************************************************************)
(* Loops over a collection that several parts of the code share: the sum   *)
(* of the members' weights, and the members taken in order.                *)
(***************************************************************************)
EXTENDS Integers, FiniteSets, FiniteSetsExt

\* The weights of the members of S together.
Total(weight, S) == FoldSet(LAMBDA x, n : weight[x] + n, 0, S)

\* The numbers in S in ascending order.
Ascending(S) ==
  [i \in 1 .. Cardinality(S) |-> CHOOSE a \in S : Cardinality({b \in S : b <= a}) = i]

\* The members of S in the order that the pairs in W say.
Arranged(S, W) ==
  [i \in 1 .. Cardinality(S) |->
     CHOOSE a \in S : Cardinality({b \in S : <<b, a>> \in W}) = i - 1]
=============================================================================
