-------------------------- MODULE MCCircuitBreaker --------------------------
(* Instances of CircuitBreaker for TLC; the runs check progress, so no symmetry is used. *)
EXTENDS CircuitBreaker
=============================================================================
