----------------------------- MODULE MCAdmission -----------------------------
(* Bounds for TLC: the counter is bounded by the number of handlers. *)
EXTENDS Admission, TLC

CONSTANTS r1, r2, r3, r4, r5, r6

Interchangeable == Permutations(Requests)
=============================================================================
