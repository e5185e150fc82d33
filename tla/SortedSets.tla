----------------------------- MODULE SortedSets -----------------------------
(***************************************************************************)
(* The elements of a finite set in an order that is given as a set of      *)
(* pairs, for proofs, which cannot take an order as an operator.           *)
(***************************************************************************)
EXTENDS Integers, FiniteSets

\* An element comes behind as many others as are before it.
Sorted(S, before) ==
    LET place == [x \in S |-> Cardinality({y \in S : <<y, x>> \in before})]
    IN  [i \in 1..Cardinality(S) |-> CHOOSE x \in S : place[x] = i - 1]

\* Numbers from the least to the greatest.
Increasing(S) == Sorted(S, {p \in S \X S : p[1] < p[2]})
=============================================================================
