----------------------- MODULE CircuitBreakerProofs -----------------------
(***************************************************************************)
(* Safety of the proxy-wide breaker for any number of request handlers,    *)
(* any thresholds, windows and cooldowns.                                  *)
(***************************************************************************)
EXTENDS CircuitHistory, TLAPS

(* The operations of the breaker keep its type, whatever its state is. *)
LEMMA OperationsTyped ==
  ASSUME NEW c \in CircuitType
  PROVE  /\ CircuitAged(c) \in CircuitType
         /\ AfterAdmit(c) \in CircuitType
         /\ AfterSuccess(c) \in CircuitType
         /\ \A d \in QuotaOpen : AfterQuota(c, d) \in CircuitType
         /\ AfterOverload(c) \in CircuitType
         /\ AfterNeutral(c) \in CircuitType
         /\ Observed(c) \in CircuitType
<1> USE BreakerAssumption DEF BreakerAssumption, CircuitType, OpenReasons
<1>1. NoEvidence \in [Slots -> 0 .. Absent]
  BY DEF NoEvidence, Slots, Absent, Forgotten
<1>2. CircuitAged(c) \in CircuitType
  <2>1. [i \in Slots |-> Older(c.recent[i], OverloadWindow)] \in [Slots -> 0 .. Absent]
    BY DEF Older, Absent, Forgotten, Slots
  <2>2. Decrement(c.timer) \in Nat
    BY DEF Decrement
  <2> QED BY <2>1, <2>2 DEF CircuitAged
<1>3. WithFailure(c) \in [Slots -> 0 .. Absent]
  BY DEF WithFailure, Slots, Absent, Forgotten
<1>4. AfterOverload(c) \in CircuitType
  BY <1>1, <1>3 DEF AfterOverload
<1>5. \A d \in QuotaOpen : AfterQuota(c, d) \in CircuitType
  BY DEF AfterQuota
<1> QED
  BY <1>1, <1>2, <1>4, <1>5
  DEF AfterAdmit, AfterSuccess, AfterNeutral, Observed

(* A handler that is about to ask for a route has budget left: Conclude    *)
(* returns to the loop only below MaxRouteAttempts.                        *)
BudgetLeft ==
  \A r \in Requests : pc[r] = "routing" => attempt[r] < MaxRouteAttempts

TypeInv == TypeOK /\ BudgetLeft

LEMMA TypeInvInit == Init => TypeInv
BY BreakerAssumption, RequestAssumption
DEF BreakerAssumption, RequestAssumption, Init, TypeInv, TypeOK, BudgetLeft,
    Dialing, NewCircuit, CircuitType,
    OpenReasons, NoEvidence, Slots, Absent, Forgotten

LEMMA TypeInvStep == TypeInv /\ [Next]_vars => TypeInv'
<1> SUFFICES ASSUME TypeInv, [Next]_vars PROVE TypeInv'
  OBVIOUS
<1> USE RequestAssumption
    DEF RequestAssumption, TypeInv, TypeOK, BudgetLeft, Dialing
<1>1. ASSUME NEW r \in Requests, Arrive(r) PROVE TypeInv'
  BY <1>1, OperationsTyped DEF Arrive
<1>2. ASSUME NEW r \in Requests, NoRoute(r) PROVE TypeInv'
  BY <1>2 DEF NoRoute, Leave
<1>3. ASSUME NEW r \in Requests, Refuse(r) PROVE TypeInv'
  BY <1>3 DEF Refuse, Leave
<1>4. ASSUME NEW r \in Requests, Dial(r) PROVE TypeInv'
  BY <1>4, OperationsTyped DEF Dial
<1>5. ASSUME NEW r \in Requests, Outcome(r) PROVE TypeInv'
  <2>1. CASE Answered(r)
    BY <2>1, OperationsTyped DEF Answered, Leave
  <2>2. ASSUME circuit' \in CircuitType, Conclude(r) PROVE TypeInv'
    BY <2>2 DEF Conclude, Leave
  <2>3. ~Answered(r) => circuit' \in CircuitType /\ Conclude(r)
    BY <1>5, OperationsTyped
    DEF Outcome, Overloaded, Neutral, QuotaExhausted, NotReported
  <2> QED BY <2>1, <2>2, <2>3
<1>6. ASSUME NEW r \in Requests, Cancel(r) PROVE TypeInv'
  BY <1>6 DEF Cancel, Leave
<1>7. CASE Probe
  BY <1>7, OperationsTyped DEF Probe
<1>8. CASE Tick
  BY <1>8, OperationsTyped DEF Tick
<1>9. CASE UNCHANGED vars
  BY <1>9 DEF vars
<1> QED
  BY <1>1, <1>2, <1>3, <1>4, <1>5, <1>6, <1>7, <1>8, <1>9 DEF Next

(* Every field of the breaker, the program counters and the budget stay in *)
(* their types: no handler makes more than MaxRouteAttempts attempts for   *)
(* one request, however its attempts end.                                  *)
THEOREM TypeCorrect == Spec => []TypeOK
<1>1. TypeInv => TypeOK
  BY DEF TypeInv
<1> QED BY <1>1, TypeInvInit, TypeInvStep, PTL DEF Spec

(* A claimed half-open slot exists only in HalfOpen: closing and reopening *)
(* both take the claim away, even when a handler other than the probe does *)
(* it (circuit.rs:111-157).                                                *)
THEOREM SlotClaim == Spec => []SlotOnlyHalfOpen
<1>1. Init => SlotOnlyHalfOpen
  BY DEF Init, SlotOnlyHalfOpen, NewCircuit
<1>2. TypeInv /\ SlotOnlyHalfOpen /\ [Next]_vars => SlotOnlyHalfOpen'
  <2> SUFFICES ASSUME TypeInv, SlotOnlyHalfOpen, [Next]_vars
               PROVE SlotOnlyHalfOpen'
    OBVIOUS
  <2> USE DEF TypeInv, TypeOK, CircuitType, SlotOnlyHalfOpen
  <2>1. CASE UNCHANGED circuit
    BY <2>1
  <2>2. CASE circuit' \in {AfterSuccess(circuit), AfterOverload(circuit),
                           AfterNeutral(circuit)}
    BY <2>2 DEF AfterSuccess, AfterOverload, AfterNeutral
  <2>3. CASE \E d \in QuotaOpen : circuit' = AfterQuota(circuit, d)
    BY <2>3 DEF AfterQuota
  <2>4. CASE circuit' \in {AfterAdmit(circuit), Observed(circuit),
                           CircuitAged(circuit)}
    BY <2>4 DEF AfterAdmit, Observed, CircuitAged
  <2> QED
    BY <2>1, <2>2, <2>3, <2>4
    DEF Next, vars, Arrive, NoRoute, Refuse, Dial, Outcome, Answered,
        Overloaded, Neutral, QuotaExhausted, NotReported, Cancel, Probe, Tick
<1> QED BY <1>1, <1>2, TypeInvInit, TypeInvStep, PTL DEF Spec

(* If no half-open probe ends unreported, a claimed slot always belongs to *)
(* a probe in flight, so it is given back, whatever the other attempts do: *)
(* what keeps the breaker from refusing every request for ever             *)
(* (circuit.rs:77-79).                                                     *)
THEOREM SlotNeverLost ==
  ASSUME Unreported = {}
  PROVE  Spec => []SlotHeldByProbe
<1>1. Init => SlotHeldByProbe
  BY DEF Init, SlotHeldByProbe, NewCircuit
<1>2. TypeInv /\ SlotHeldByProbe /\ [Next]_vars => SlotHeldByProbe'
  <2> SUFFICES ASSUME TypeInv, SlotHeldByProbe, [Next]_vars
               PROVE SlotHeldByProbe'
    OBVIOUS
  <2> USE DEF TypeInv, TypeOK, CircuitType, SlotHeldByProbe, Dialing
  <2>1. ASSUME NEW r \in Requests, Dial(r) PROVE SlotHeldByProbe'
    BY <2>1 DEF Dial, AfterAdmit
  <2>2. ASSUME NEW r \in Requests, Outcome(r), ~NotReported(r)
        PROVE  ~circuit'.probe
    BY <2>2
    DEF Outcome, Answered, Overloaded, Neutral, QuotaExhausted,
        AfterSuccess, AfterOverload, AfterNeutral, AfterQuota
  <2>3. ASSUME NEW r \in Requests, NotReported(r) \/ Cancel(r)
        PROVE  UNCHANGED <<circuit, probing>>
    <3>1. r \notin probing
      BY <2>3 DEF NotReported, Cancel
    <3> QED BY <2>3, <3>1 DEF NotReported, Cancel, Conclude
  <2>4. ASSUME NEW r \in Requests, Arrive(r) \/ NoRoute(r) \/ Refuse(r)
        PROVE UNCHANGED probing /\ circuit' \in {circuit, Observed(circuit)}
    BY <2>4 DEF Arrive, NoRoute, Refuse
  <2>5. CASE /\ UNCHANGED probing
             /\ circuit' \in {circuit, Observed(circuit), CircuitAged(circuit)}
    BY <2>5 DEF Observed, CircuitAged
  <2> QED
    BY <2>1, <2>2, <2>3, <2>4, <2>5 DEF Next, vars, Probe, Tick
<1> QED BY <1>1, <1>2, TypeInvInit, TypeInvStep, PTL DEF Spec

(* The slot loses its holder in one way only, whatever Unreported allows:  *)
(* the handler of a probe ends its attempt and reports nothing.            *)
SlotLostUnreported ==
  [][SlotHeldByProbe /\ ~SlotHeldByProbe'
       => \E r \in probing : NotReported(r) \/ Cancel(r)]_vars

(* A generic 429, a quota signal while other routes are usable, and a      *)
(* disconnect are the only ends of a probe that leave the claim behind: no *)
(* report, late or not, and no other attempt does (circuit.rs:77-79).      *)
THEOREM SlotLost == Spec => SlotLostUnreported
<1>1. TypeInv /\ [Next]_vars =>
        [SlotHeldByProbe /\ ~SlotHeldByProbe'
           => \E r \in probing : NotReported(r) \/ Cancel(r)]_vars
  <2> SUFFICES ASSUME TypeInv, [Next]_vars,
                      SlotHeldByProbe, ~SlotHeldByProbe'
               PROVE  \E r \in probing : NotReported(r) \/ Cancel(r)
    OBVIOUS
  <2> USE DEF TypeInv, TypeOK, CircuitType, SlotHeldByProbe, Dialing
  <2>1. ASSUME NEW r \in Requests, Dial(r) PROVE FALSE
    BY <2>1 DEF Dial, AfterAdmit
  <2>2. ASSUME NEW r \in Requests, Outcome(r), ~NotReported(r) PROVE FALSE
    <3>1. ~circuit'.probe
      BY <2>2
      DEF Outcome, Answered, Overloaded, Neutral, QuotaExhausted,
          AfterSuccess, AfterOverload, AfterNeutral, AfterQuota
    <3> QED BY <3>1
  <2>3. ASSUME NEW r \in Requests, NotReported(r) \/ Cancel(r)
        PROVE  r \in probing
    BY <2>3 DEF NotReported, Cancel, Conclude
  <2>4. ASSUME NEW r \in Requests, Arrive(r) \/ NoRoute(r) \/ Refuse(r)
        PROVE UNCHANGED probing /\ circuit' \in {circuit, Observed(circuit)}
    BY <2>4 DEF Arrive, NoRoute, Refuse
  <2>5. ASSUME UNCHANGED probing,
               circuit' \in {circuit, Observed(circuit), CircuitAged(circuit)}
        PROVE  FALSE
    BY <2>5 DEF Observed, CircuitAged
  <2> QED
    BY <2>1, <2>2, <2>3, <2>4, <2>5 DEF Next, vars, Probe, Tick
<1> QED BY <1>1, TypeInvInit, TypeInvStep, PTL DEF Spec, SlotLostUnreported

(* The slot is claimed and no attempt is left that could report. *)
Wedged == circuit.probe /\ Dialing = {}

(* A breaker in that state is in it for ever: time, the samplers of        *)
(* state() and every new request leave it there, and each of these         *)
(* requests is refused, with no restart but the process's own.             *)
THEOREM WedgedForGood == Spec => [](Wedged => [](Wedged /\ ~Admits(circuit)))
<1>1. TypeInv /\ SlotOnlyHalfOpen /\ Wedged => ~Admits(circuit)
  BY DEF SlotOnlyHalfOpen, Wedged, Admits
<1>2. TypeInv /\ SlotOnlyHalfOpen /\ Wedged /\ [Next]_vars => Wedged'
  <2> SUFFICES ASSUME TypeInv, SlotOnlyHalfOpen, Wedged, [Next]_vars
               PROVE  Wedged'
    OBVIOUS
  <2> USE DEF TypeInv, TypeOK, CircuitType, Wedged, Dialing
  <2>1. ASSUME NEW r \in Requests, Dial(r) PROVE FALSE
    BY <1>1, <2>1 DEF Dial
  <2>2. ASSUME NEW r \in Requests, Outcome(r) PROVE FALSE
    BY <2>2
    DEF Outcome, Answered, Overloaded, Neutral, QuotaExhausted, NotReported,
        Conclude
  <2>3. ASSUME circuit' \in {circuit, Observed(circuit), CircuitAged(circuit)}
        PROVE  circuit'.probe
    BY <2>3 DEF SlotOnlyHalfOpen, Observed, CircuitAged
  <2>4. ASSUME NEW r \in Requests, NEW v \in {"idle", "routing"},
               pc' = [pc EXCEPT ![r] = v]
        PROVE  Dialing' = {}
    BY <2>4
  <2>5. ASSUME NEW r \in Requests,
               Arrive(r) \/ NoRoute(r) \/ Refuse(r) \/ Cancel(r)
        PROVE  /\ circuit' \in {circuit, Observed(circuit)}
               /\ \E v \in {"idle", "routing"} : pc' = [pc EXCEPT ![r] = v]
    BY <2>5 DEF Arrive, NoRoute, Refuse, Cancel, Leave
  <2>6. CASE Probe \/ Tick \/ UNCHANGED vars
    BY <2>3, <2>6 DEF Probe, Tick, vars
  <2> QED
    BY <2>1, <2>2, <2>3, <2>4, <2>5, <2>6 DEF Next
<1> QED BY <1>1, <1>2, TypeInvInit, TypeInvStep, SlotClaim, PTL DEF Spec

-----------------------------------------------------------------------------
(* The history variables watch the breaker and do not disturb it.          *)
LEMMA HistoryStep == HistoryNext => Next
BY DEF HistoryNext, Next, Outcome

LEMMA HistoryRefines == HistorySpec => Spec
<1>1. HistoryInit => Init
  BY DEF HistoryInit
<1>2. [HistoryNext]_historyVars => [Next]_vars
  BY HistoryStep DEF historyVars, vars
<1> QED BY <1>1, <1>2, PTL DEF HistorySpec, Spec

LEMMA HistoryTyped == HistorySpec => []TypeInv
BY HistoryRefines, TypeInvInit, TypeInvStep, PTL DEF Spec

(* The evidence that the breaker still holds is a part of what was         *)
(* reported, and all of it while the breaker is closed.                    *)
EvidenceInv ==
  /\ lately \in [Slots -> 0 .. Absent]
  /\ \A i \in Slots : circuit.recent[i] \in {Absent, lately[i]}
  /\ circuit.state = "Closed" => circuit.recent = lately

LEMMA EvidenceInit == HistoryInit => EvidenceInv
BY BreakerAssumption
DEF BreakerAssumption, HistoryInit, Init, EvidenceInv, NewCircuit, NoEvidence,
    Slots, Absent, Forgotten

LEMMA EvidenceStep == TypeInv /\ EvidenceInv /\ [HistoryNext]_historyVars => EvidenceInv'
<1> SUFFICES ASSUME TypeInv, EvidenceInv, [HistoryNext]_historyVars
             PROVE  EvidenceInv'
  OBVIOUS
<1> USE BreakerAssumption
    DEF BreakerAssumption, TypeInv, TypeOK, CircuitType, EvidenceInv, Slots,
        Absent, Forgotten
<1>1. ASSUME NEW r \in Requests, Answered(r), lately' = NoEvidence
      PROVE  EvidenceInv'
  BY <1>1 DEF Answered, AfterSuccess, NoEvidence
<1>2. ASSUME NEW r \in Requests, Overloaded(r), lately' = Reported
      PROVE  EvidenceInv'
  <2>1. circuit' = AfterOverload(circuit)
    BY <1>2 DEF Overloaded
  <2>2. lately' \in [Slots -> 0 .. Absent]
    BY <1>2 DEF Reported
  <2>3. ASSUME circuit.state = "HalfOpen" \/ WindowFull(circuit)
        PROVE  circuit'.recent = NoEvidence /\ circuit'.state = "Open"
    BY <2>1, <2>3 DEF AfterOverload
  <2>4. ASSUME ~(circuit.state = "HalfOpen" \/ WindowFull(circuit))
        PROVE  /\ circuit'.recent = WithFailure(circuit)
               /\ circuit'.state = circuit.state
    BY <2>1, <2>4 DEF AfterOverload
  <2>5. \A i \in Slots : WithFailure(circuit)[i] \in {Absent, lately'[i]}
    BY <1>2 DEF WithFailure, Reported
  <2>6. circuit.state = "Closed" => WithFailure(circuit) = lately'
    BY <1>2 DEF WithFailure, Reported
  <2> QED BY <2>2, <2>3, <2>4, <2>5, <2>6 DEF NoEvidence
<1>3. CASE /\ UNCHANGED lately
           /\ \/ circuit' \in {circuit, Observed(circuit), AfterAdmit(circuit),
                               AfterNeutral(circuit)}
              \/ \E d \in QuotaOpen : circuit' = AfterQuota(circuit, d)
  <2>1. /\ circuit'.recent = circuit.recent
        /\ circuit'.state = "Closed" => circuit.state = "Closed"
    BY <1>3 DEF Observed, AfterAdmit, AfterNeutral, AfterQuota
  <2> QED BY <1>3, <2>1
<1>4. CASE Tick /\ lately' = Elapsed
  BY <1>4 DEF Tick, CircuitAged, Elapsed, Older
<1> QED
  BY <1>1, <1>2, <1>3, <1>4
  DEF HistoryNext, historyVars, Arrive, NoRoute, Refuse, Dial, Neutral,
      QuotaExhausted, NotReported, Cancel, Probe

(* With any threshold and window the breaker opens on overload exactly     *)
(* when enough of it was reported lately, whatever openings, quota signals *)
(* and late reports came between: no evidence is lost, none counts twice   *)
(* or after it expired (circuit.rs:126-144).                               *)
THEOREM OpensWhenItShould == HistorySpec => OpensOnSustainedOverload
<1>1. ASSUME TypeInv, EvidenceInv, NEW r \in Requests, Overloaded(r),
             circuit.state # "HalfOpen"
      PROVE  /\ Restarted => Sustained
             /\ circuit.state = "Closed" /\ Sustained => circuit'.state = "Open"
  <2> USE BreakerAssumption
      DEF BreakerAssumption, TypeInv, TypeOK, CircuitType, EvidenceInv, Slots,
          Absent, Forgotten
  <2>1. circuit' = AfterOverload(circuit)
    BY <1>1 DEF Overloaded
  <2>2. WindowFull(circuit) => Sustained
    BY <1>1 DEF WindowFull, Sustained
  <2>3. circuit.state = "Closed" /\ Sustained => WindowFull(circuit)
    BY <1>1 DEF WindowFull, Sustained
  <2>4. Restarted => WindowFull(circuit)
    BY <1>1, <2>1 DEF Restarted, AfterOverload
  <2>5. WindowFull(circuit) => circuit'.state = "Open"
    BY <1>1, <2>1 DEF AfterOverload
  <2> QED BY <2>2, <2>3, <2>4, <2>5
<1>2. TypeInv /\ EvidenceInv /\ [HistoryNext]_historyVars =>
        [\A r \in Requests :
           Overloaded(r) /\ circuit.state # "HalfOpen"
             => /\ Restarted => Sustained
                /\ circuit.state = "Closed" /\ Sustained
                     => circuit'.state = "Open"]_historyVars
  BY <1>1
<1> QED
  BY <1>2, HistoryTyped, EvidenceInit, EvidenceStep, PTL
  DEF HistorySpec, OpensOnSustainedOverload

(* Every attempt in flight while the breaker is open began before that.    *)
LateInv == circuit.state = "Open" => Dialing \subseteq late

LEMMA LateStep == TypeInv /\ LateInv /\ [HistoryNext]_historyVars => LateInv'
<1> SUFFICES ASSUME TypeInv, LateInv, [HistoryNext]_historyVars,
                    circuit'.state = "Open"
             PROVE  Dialing' \subseteq late'
  BY DEF LateInv
<1> USE DEF TypeInv, TypeOK, CircuitType
<1>1. CASE UNCHANGED historyVars
  BY <1>1 DEF historyVars, LateInv, Dialing
<1>2. CASE HistoryNext /\ circuit.state # "Open"
  BY <1>2 DEF HistoryNext, Remembered
<1>3. CASE HistoryNext /\ circuit.state = "Open"
  <2>1. ASSUME NEW r \in Requests, Dial(r) PROVE FALSE
    BY <1>3, <2>1 DEF Dial, AfterAdmit
  <2>2. ASSUME NEW r \in Requests, NEW v \in {"idle", "routing"},
               pc' = [pc EXCEPT ![r] = v]
        PROVE  Dialing' \subseteq Dialing
    BY <2>2 DEF Dialing
  <2>3. ASSUME UNCHANGED pc PROVE Dialing' \subseteq Dialing
    BY <2>3 DEF Dialing
  <2>4. Dialing' \subseteq Dialing
    BY <1>3, <2>1, <2>2, <2>3, HistoryStep
    DEF Next, Arrive, NoRoute, Refuse, Outcome, Answered, Overloaded, Neutral,
        QuotaExhausted, NotReported, Cancel, Probe, Tick, Leave, Conclude
  <2>5. late' = late \cap Dialing'
    BY <1>3 DEF HistoryNext, Remembered
  <2> QED BY <1>3, <2>4, <2>5 DEF LateInv
<1> QED BY <1>1, <1>2, <1>3

(* However many handlers and whatever the cooldowns, what cuts an opening  *)
(* short is the report of an attempt that began before it: the breaker     *)
(* lets nothing else through until the cooldown elapses (circuit.rs:5).    *)
THEOREM CutShortOnlyLate == HistorySpec => CutShortByLateReport
<1>1. HistoryInit => LateInv
  BY DEF HistoryInit, Init, LateInv, Dialing
<1>2. ASSUME TypeInv, LateInv, [HistoryNext]_historyVars, CutShort
      PROVE  /\ circuit'.state # "HalfOpen"
             /\ \E r \in late : r \notin Dialing'
  <2> USE DEF TypeInv, TypeOK, CircuitType, CutShort
  <2>1. ASSUME NEW r \in Requests, Dial(r) PROVE FALSE
    BY <1>2, <2>1 DEF Dial, Admits
  <2>2. circuit' \notin {circuit, Observed(circuit), CircuitAged(circuit)}
    <3>1. circuit.timer \in Nat /\ Decrement(circuit.timer) <= circuit.timer
      BY <1>2 DEF Decrement
    <3>2. circuit' # circuit /\ circuit' # Observed(circuit)
      BY <1>2, <3>1 DEF Observed, Decrement
    <3>3. ASSUME circuit' = CircuitAged(circuit) PROVE FALSE
      <4>1. circuit'.state = circuit.state
        BY <1>2, <3>3 DEF CircuitAged
      <4>2. circuit'.timer = Decrement(circuit.timer)
        BY <1>2, <3>3 DEF CircuitAged
      <4> QED BY <1>2, <3>1, <4>1, <4>2 DEF Decrement
    <3> QED BY <3>2, <3>3
  <2>3. PICK r \in Requests : Outcome(r) \/ Cancel(r)
    BY <1>2, <2>1, <2>2, HistoryStep
    DEF historyVars, Next, Arrive, NoRoute, Refuse, Probe, Tick
  <2>4. r \in Dialing /\ r \notin Dialing'
    <3>1. pc[r] = "dialing"
      BY <2>2, <2>3
      DEF Outcome, Answered, Overloaded, Neutral, QuotaExhausted, NotReported,
          Cancel, Conclude
    <3>2. \E v \in {"idle", "routing"} : pc' = [pc EXCEPT ![r] = v]
      BY <2>2, <2>3
      DEF Outcome, Answered, Overloaded, Neutral, QuotaExhausted, NotReported,
          Cancel, Conclude, Leave
    <3> QED BY <1>2, <3>1, <3>2 DEF Dialing
  <2>5. circuit'.state # "HalfOpen"
    BY <1>2, <2>2, <2>3
    DEF Outcome, Answered, Overloaded, Neutral, QuotaExhausted, NotReported,
        Cancel, AfterSuccess, AfterOverload, AfterNeutral, AfterQuota
  <2> QED BY <1>2, <2>4, <2>5 DEF LateInv
<1>3. TypeInv /\ LateInv /\ [HistoryNext]_historyVars =>
        [CutShort => /\ circuit'.state # "HalfOpen"
                     /\ \E r \in late : r \notin Dialing']_historyVars
  BY <1>2
<1> QED
  BY <1>1, <1>3, LateStep, HistoryTyped, PTL
  DEF HistorySpec, CutShortByLateReport
=============================================================================
