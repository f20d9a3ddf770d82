------------------------------ MODULE Ordering ------------------------------
(***************************************************************************)
(* Finite sets of numbers in order: what a loop that filters the indexes   *)
(* of a list collects.                                                     *)
(***************************************************************************)
EXTENDS Integers, FiniteSets

(* The members of S from the least to the greatest. *)
InOrder(S) ==
  [n \in 1 .. Cardinality(S) |->
     CHOOSE i \in S : Cardinality({j \in S : j < i}) = n - 1]
=============================================================================
