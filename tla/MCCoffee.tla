------------------------------ MODULE MCCoffee ------------------------------
(* Coffee for TLC: names are interchangeable. *)
EXTENDS Coffee, TLC

Symmetry == Permutations(Name)

=============================================================================
