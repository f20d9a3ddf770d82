----------------------------- MODULE ModelEntry -----------------------------
(***************************************************************************)
(* The health entry of one model in the routing table (ModelEntry,         *)
(* src/src/router.rs) and its operations, each under the `models` mutex.   *)
(*                                                                         *)
(* Two kinds of evidence are kept per quota group, at most one entry each: *)
(* failing_groups (429, 5xx, transport) and missing_groups (404).  An      *)
(* entry is modelled by its age, Forgotten(window) standing for no entry;  *)
(* entries past the window are dropped wherever the deque is read.         *)
(***************************************************************************)
EXTENDS Clock, FiniteSets

CONSTANTS
  Groups,            \* quota groups of the configured keys
  TripGroups,        \* routing.model_trip_distinct_groups
  TripWindow,        \* routing.model_trip_window_secs, in ticks
  ModelOpen,         \* routing.model_open_secs, in ticks
  MissingGroups,     \* routing.model_missing_distinct_groups
  MissingWindow,     \* routing.model_missing_window_secs, in ticks
  MissingCooldown    \* routing.model_missing_cooldown_secs, in ticks

ASSUME ModelAssumption ==
  /\ IsFiniteSet(Groups)
  /\ TripGroups \in Nat \ {0}
  /\ TripWindow \in Nat \ {0}
  /\ ModelOpen \in Nat \ {0}
  /\ MissingGroups \in Nat \ {0}
  /\ MissingWindow \in Nat \ {0}
  /\ MissingCooldown \in Nat \ {0}

ModelType ==
  [state : {"Closed", "Open", "HalfOpen"},
   timer : Nat,                                        \* until open_until
   probe : BOOLEAN,                                    \* probe_in_flight
   failing : [Groups -> 0 .. Forgotten(TripWindow)],   \* failing_groups
   disabled : BOOLEAN,
   back : Nat,                                         \* until disabled_until
   missing : [Groups -> 0 .. Forgotten(MissingWindow)]]

NoneFailing == [g \in Groups |-> Forgotten(TripWindow)]
NoneMissing == [g \in Groups |-> Forgotten(MissingWindow)]

NewModel ==
  [state |-> "Closed", timer |-> 0, probe |-> FALSE, failing |-> NoneFailing,
   disabled |-> FALSE, back |-> 0, missing |-> NoneMissing]

ModelAgedKeepingFailures(m) ==
  [m EXCEPT !.timer = Decrement(@),
            !.back = Decrement(@),
            !.missing = [g \in Groups |-> Older(m.missing[g], MissingWindow)]]
ModelAged(m) ==
  [m EXCEPT !.timer = Decrement(@),
            !.failing = [g \in Groups |-> Older(m.failing[g], TripWindow)],
            !.back = Decrement(@),
            !.missing = [g \in Groups |-> Older(m.missing[g], MissingWindow)]]

(* model_view: every look at the entry first lets elapsed deadlines act. *)
HalfOpened(m) ==
  IF m.state = "Open" /\ m.timer = 0
  THEN [m EXCEPT !.state = "HalfOpen", !.probe = FALSE]
  ELSE m

Recovered(m) ==
  IF m.disabled /\ m.back = 0
  THEN [m EXCEPT !.disabled = FALSE, !.missing = NoneMissing]
  ELSE m

Viewed(m) == Recovered(HalfOpened(m))

(* What dialability() asks of a viewed model before it looks at routes.    *)
Selectable(m) ==
  /\ ~m.disabled
  /\ m.state # "Open"
  /\ m.state = "HalfOpen" => ~m.probe

(* begin_attempt: the first attempt of a half-open period takes the slot.  *)
TakesProbe(m) == m.state = "HalfOpen" /\ ~m.probe
AfterBegin(m) == IF TakesProbe(m) THEN [m EXCEPT !.probe = TRUE] ELSE m

(* transition_model_circuit: into Open, from anywhere but Open.            *)
Opened(m) ==
  CASE m.state = "Closed" -> [m EXCEPT !.state = "Open", !.timer = ModelOpen,
                                       !.probe = FALSE, !.failing = NoneFailing]
    [] m.state = "HalfOpen" -> [m EXCEPT !.state = "Open", !.timer = ModelOpen,
                                         !.probe = FALSE]
    [] m.state = "Open" -> m

(* record_route_failure: a half-open model re-opens at once; otherwise the *)
(* group joins the evidence, which opens when TripGroups groups hold it.   *)
WithFailing(m, g) == [m EXCEPT !.failing[g] = 0]

Suspects(m) == {g \in Groups : m.failing[g] <= TripWindow}

TripsOnRepeats(m, g) ==
  m.state = "HalfOpen" \/ Cardinality(Suspects(m)) + 1 >= TripGroups
Trips(m, g) ==
  m.state = "HalfOpen" \/ Cardinality(Suspects(WithFailing(m, g))) >= TripGroups

AfterRouteFailure(m, g) ==
  IF m.state = "HalfOpen"
  THEN Opened(m)
  ELSE IF Trips(m, g) THEN Opened(WithFailing(m, g)) ELSE WithFailing(m, g)

(* The CircuitTransition it returns is one that opens_circuit() counts.    *)
CountsEveryTrip(m, g) == Trips(m, g)
OpensCircuit(m, g) == m.state # "Open" /\ Trips(m, g)

(* note_success: the circuit closes, and a model that served is not missing.*)
ServedKeepingMissing(m) ==
  IF m.state = "Closed"
  THEN [m EXCEPT !.disabled = FALSE]
  ELSE [m EXCEPT !.state = "Closed", !.probe = FALSE, !.failing = NoneFailing,
                 !.disabled = FALSE]
Served(m) ==
  LET seen == [m EXCEPT !.disabled = FALSE, !.back = 0, !.missing = NoneMissing]
  IN  IF m.state = "Closed"
      THEN seen
      ELSE [seen EXCEPT !.state = "Closed", !.probe = FALSE,
                        !.failing = NoneFailing]

(* note_model_missing: enough distinct groups answered 404 inside the      *)
(* window, so the model itself is missing for a while.                     *)
WithMissing(m, g) == [m EXCEPT !.missing[g] = 0]

Absentees(m) == {g \in Groups : m.missing[g] <= MissingWindow}

AfterMissing(m, g) ==
  IF Cardinality(Absentees(WithMissing(m, g))) < MissingGroups
  THEN WithMissing(m, g)
  ELSE [m EXCEPT !.disabled = TRUE, !.back = MissingCooldown,
                 !.missing = NoneMissing]

(* InflightGuard: release_probe after an answer, and Drop for a guard that *)
(* still holds the slot.                                                   *)
Released(m) == [m EXCEPT !.probe = FALSE]

DroppedKeepingSlot(m) == IF m.state = "HalfOpen" THEN m ELSE Released(m)
Dropped(m) ==
  [m EXCEPT !.probe = FALSE,
            !.state = IF @ = "HalfOpen" THEN "Closed" ELSE @]
=============================================================================
