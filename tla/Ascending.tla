------------------------------- MODULE Ascending -------------------------------
(* The elements of a finite set of numbers in their order: the n-th is the  *)
(* one that has n - 1 of them below it.                                     *)
EXTENDS Integers, FiniteSets

InOrder(S) ==
  [n \in 1..Cardinality(S) |-> CHOOSE x \in S : Cardinality({y \in S : y < x}) = n - 1]
=============================================================================
