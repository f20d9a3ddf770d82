---------------------------- MODULE MCSelection ----------------------------
(* Two sessions, one of them with two requests at a time, over two         *)
(* accounts.                                                               *)
EXTENDS Selection, TLC

CONSTANTS m1, g1, g2, r1, r2, r3, s1, s2

Key(g) == [group |-> g, enabled |-> TRUE]
TwoAccounts == <<Key(g1), Key(g2)>>

OneTier == <<<<m1>>>>

TwoSessions == [r \in Requests |-> IF r = r3 THEN s2 ELSE s1]

(* The two requests of the one session are interchangeable. *)
Interchangeable == Permutations({r1, r2})
=============================================================================
