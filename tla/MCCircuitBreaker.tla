-------------------------- MODULE MCCircuitBreaker --------------------------
(* Instances of CircuitBreaker for TLC: the calls are interchangeable. *)
EXTENDS CircuitBreaker, TLC

Symmetry == Permutations(Calls)
=============================================================================
