--------------------------- MODULE MCModelCircuit ---------------------------
(* Model values for TLC.  Attempts are interchangeable, and so are quota   *)
(* groups: the table tells them apart only by equality.                    *)
EXTENDS ModelCircuit, TLC

CONSTANTS a1, a2, a3, g1, g2, g3

Interchangeable == Permutations(Attempts) \cup Permutations(Groups)
=============================================================================
