-------------------------- MODULE MCCircuitBreaker --------------------------
(* Bounds for TLC: the ring of overload evidence and the timers are finite *)
(* by construction, so no state constraint is needed.                      *)
EXTENDS CircuitHistory, TLC

CONSTANTS r1, r2, r3

Interchangeable == Permutations(Requests)
=============================================================================
