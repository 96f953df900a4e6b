------------------------------ MODULE MCSession ------------------------------
(* Session on small instances. *)
EXTENDS Session
StarOfOne == [s \in {"select *"} |-> "select a, b"]
Symmetry == Permutations(Callers)
=============================================================================
