------------------------------- MODULE MCWire -------------------------------
(* Wire on small instances. *)
EXTENDS Wire
=============================================================================
