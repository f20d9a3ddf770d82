---------------------------- MODULE BoundedSlots ----------------------------
(***************************************************************************)
(* What local admission promises the rest of the proxy: an exchange with   *)
(* the upstream happens inside one of Limit slots, and a slot is left only *)
(* by the exchange that took it.  Admission keeps the promise for the      *)
(* handlers; the streaming path keeps it for a response whose permit goes  *)
(* from the handler to the pump.                                           *)
(***************************************************************************)
EXTENDS Integers, FiniteSets

CONSTANTS Requests, Limit

VARIABLE inside

Init == inside = {}

Enter(r) ==
  /\ r \notin inside
  /\ Cardinality(inside) < Limit
  /\ inside' = inside \cup {r}

Exit(r) == r \in inside /\ inside' = inside \ {r}

Next == \E r \in Requests : Enter(r) \/ Exit(r)

Spec == Init /\ [][Next]_inside
=============================================================================
