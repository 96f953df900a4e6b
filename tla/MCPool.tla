------------------------------- MODULE MCPool -------------------------------
(* Pool on small instances. *)
EXTENDS Pool, TLC

Symmetry == Permutations(Conns) \cup Permutations(Borrowers)

AllButDoubleRelease == AllEvents \ {"doubleRelease"}
=============================================================================
