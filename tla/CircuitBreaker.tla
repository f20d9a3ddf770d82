--------------------------- MODULE CircuitBreaker ---------------------------
(***************************************************************************)
(* The proxy-wide circuit breaker under concurrent requests.               *)
(*                                                                         *)
(* A request handler looks at the breaker when it is accepted, asks it     *)
(* before every upstream attempt, awaits the attempt with no lock held,    *)
(* and reports (or does not report) what came of it.  Everything between   *)
(* two of these calls is one atomic step here; any number of them          *)
(* interleave, and a client that disconnects drops the handler at an await.*)
(*                                                                         *)
(* What routing decides (is there a route, another attempt, any usable     *)
(* route left after a quota signal) is a free choice in this module.       *)
(***************************************************************************)
EXTENDS Breaker, FiniteSets

CONSTANTS
  Requests,           \* request handlers
  MaxRouteAttempts,   \* routing.max_route_attempts
  Unreported          \* the outcomes with no report a probe may end in

UnreportedKinds == {"rate_limited", "quota_elsewhere", "cancelled"}

ASSUME RequestAssumption ==
  /\ MaxRouteAttempts \in Nat \ {0}
  /\ Unreported \subseteq UnreportedKinds

VARIABLES
  circuit,   \* the breaker
  pc,        \* where each handler is: "idle", "routing" or "dialing"
  attempt,   \* upstream attempts made for the current request
  probing    \* the handlers whose attempt was admitted as a half-open probe

vars == <<circuit, pc, attempt, probing>>

Dialing == {r \in Requests : pc[r] = "dialing"}

TypeOK ==
  /\ circuit \in CircuitType
  /\ pc \in [Requests -> {"idle", "routing", "dialing"}]
  /\ attempt \in [Requests -> 0 .. MaxRouteAttempts]
  /\ probing \subseteq Dialing

Init ==
  /\ circuit = NewCircuit
  /\ pc = [r \in Requests |-> "idle"]
  /\ attempt = [r \in Requests |-> 0]
  /\ probing = {}

(* A client request passes local admission and the handler samples state().*)
Arrive(r) ==
  /\ pc[r] = "idle"
  /\ pc' = [pc EXCEPT ![r] = "routing"]
  /\ attempt' = [attempt EXCEPT ![r] = 0]
  /\ circuit' = Observed(circuit)
  /\ UNCHANGED probing

(* readyz and metrics sample state() too. *)
Probe == circuit' = Observed(circuit) /\ UNCHANGED <<pc, attempt, probing>>

Leave(r) ==
  /\ pc' = [pc EXCEPT ![r] = "idle"]
  /\ attempt' = [attempt EXCEPT ![r] = 0]

(* The planner finds no route: the handler answers without asking.         *)
NoRoute(r) ==
  /\ pc[r] = "routing"
  /\ Leave(r)
  /\ UNCHANGED <<circuit, probing>>

Refuse(r) ==
  /\ pc[r] = "routing"
  /\ ~Admits(circuit)
  /\ Leave(r)
  /\ UNCHANGED <<circuit, probing>>

Dial(r) ==
  /\ pc[r] = "routing"
  /\ Admits(circuit)
  /\ circuit' = AfterAdmit(circuit)
  /\ probing' = IF circuit.state = "Closed" THEN probing ELSE probing \cup {r}
  /\ pc' = [pc EXCEPT ![r] = "dialing"]
  /\ attempt' = [attempt EXCEPT ![r] = @ + 1]

(* The attempt is over: another route is tried if the budget and the       *)
(* planner allow it, or the handler answers the client.                    *)
Conclude(r) ==
  /\ pc[r] = "dialing"
  /\ probing' = probing \ {r}
  /\ \/ /\ attempt[r] < MaxRouteAttempts
        /\ pc' = [pc EXCEPT ![r] = "routing"]
        /\ UNCHANGED attempt
     \/ Leave(r)

Answered(r) ==
  /\ pc[r] = "dialing"
  /\ circuit' = AfterSuccess(circuit)
  /\ probing' = probing \ {r}
  /\ Leave(r)

(* Transport error, 5xx, 529, first-byte timeout, EOF, invalid JSON. *)
Overloaded(r) == Conclude(r) /\ circuit' = AfterOverload(circuit)

(* 400, 401, 403, 404 and unclassified statuses. *)
Neutral(r) == Conclude(r) /\ circuit' = AfterNeutral(circuit)

(* An explicit quota signal that left no usable route. *)
QuotaExhausted(r) ==
  Conclude(r) /\ \E d \in QuotaOpen : circuit' = AfterQuota(circuit, d)

(* A generic 429, or a quota signal while other routes are usable: the     *)
(* breaker is told nothing.  Any attempt can end so, a half-open probe     *)
(* only if Unreported says that the environment does this to probes.       *)
NotReported(r) ==
  /\ Conclude(r)
  /\ r \in probing => {"rate_limited", "quota_elsewhere"} \cap Unreported # {}
  /\ UNCHANGED circuit

(* The client disconnects: the handler is dropped at its await. *)
Cancel(r) ==
  /\ \/ pc[r] = "dialing" /\ (r \in probing => "cancelled" \in Unreported)
     \/ pc[r] = "routing"
  /\ Leave(r)
  /\ probing' = probing \ {r}
  /\ UNCHANGED circuit

Tick == circuit' = CircuitAged(circuit) /\ UNCHANGED <<pc, attempt, probing>>

Outcome(r) ==
  \/ Answered(r) \/ Overloaded(r) \/ Neutral(r) \/ QuotaExhausted(r)
  \/ NotReported(r)

Next ==
  \/ \E r \in Requests :
       \/ Arrive(r) \/ NoRoute(r) \/ Refuse(r) \/ Dial(r) \/ Outcome(r)
       \/ Cancel(r)
  \/ Probe
  \/ Tick

Spec == Init /\ [][Next]_vars

(* Time passes; a running handler takes its next step, and an attempt is   *)
(* bounded by the connect, read and first-byte timeouts.  Nothing obliges  *)
(* a client to send a request, or a probe to read the state.               *)
Fairness ==
  /\ WF_vars(Tick)
  /\ \A r \in Requests : WF_vars(Refuse(r) \/ Dial(r)) /\ WF_vars(Outcome(r))

FairSpec == Spec /\ Fairness

-----------------------------------------------------------------------------
(* If every probe is reported, a claimed half-open slot belongs to a probe *)
(* still in flight: no other attempt, however it ends, leaves one behind.  *)
SlotHeldByProbe == circuit.probe => probing # {}

(* The slot is claimed only in HalfOpen, so neither closing nor reopening  *)
(* carries a stale claim into the next half-open period.                   *)
SlotOnlyHalfOpen == circuit.probe => circuit.state = "HalfOpen"

(* Whatever fails, the breaker comes back to a point where it lets a       *)
(* request through (README.md:588 "it will half-open automatically").      *)
AdmitsAgain == []<>Admits(circuit)
=============================================================================
