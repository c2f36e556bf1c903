-------------------------------- MODULE MCShm --------------------------------
(* Shm for TLC: names are interchangeable. *)
EXTENDS Shm, TLC
Symmetry == Permutations(Name)
=============================================================================
