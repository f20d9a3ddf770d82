------------------------------- MODULE Clock -------------------------------
(***************************************************************************)
(* Deadlines and ages.  The code stores instants and compares them with    *)
(* now(); the models keep what the comparison tells apart: the ticks left  *)
(* until a deadline (0: it has passed, or there is none), and the ticks    *)
(* since an observation, up to the first age at which it no longer counts. *)
(***************************************************************************)
EXTENDS Integers

Decrement(t) == IF t = 0 THEN 0 ELSE t - 1

(* The age of an observation that counts for window ticks, a tick later.   *)
Older(age, window) == IF age > window THEN age ELSE age + 1

Forgotten(window) == window + 1
=============================================================================
