---------------------------- MODULE MCStreamPump ----------------------------
(* Bounds for TLC: MaxEvents and MaxChunks bound a stream. *)
EXTENDS StreamPump, TLC

CONSTANTS r1, r2
=============================================================================
