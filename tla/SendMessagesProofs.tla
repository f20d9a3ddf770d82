------------------------ MODULE SendMessagesProofs ------------------------
(***************************************************************************)
(* The attempt loop for any number of requests, any topology of accounts,  *)
(* keys, models and tiers, and any parameters; then the same loop fed with *)
(* the responses of the upstream, for any set of responses and any         *)
(* configured initial values, maxima and caps of the cooldowns.            *)
(***************************************************************************)
EXTENDS Responses, SharedProofs, FiniteSetTheorems

(* Outside an attempt and the decision after it, a request has an attempt  *)
(* left: what the three next_attempt functions check before they loop.     *)
Unspent == {"idle", "routing", "choosing", "planned", "sleeping", "done"}

BudgetInv ==
  /\ pc \in [Requests -> States]
  /\ attempt \in [Requests -> 0 .. MaxRouteAttempts]
  /\ \A r \in Requests : pc[r] \in Unspent => attempt[r] < MaxRouteAttempts

(* What a step does to the request that takes it; the rest is left alone.  *)
Returns(r) ==
  /\ pc' = [pc EXCEPT ![r] = "done"]
  /\ attempt' = [attempt EXCEPT ![r] = 0]

Decides(r) ==
  /\ pc[r] = "dialing"
  /\ \E d \in Deciding : pc' = [pc EXCEPT ![r] = d]
  /\ UNCHANGED attempt

Loops(r) ==
  /\ pc[r] \in Deciding
  /\ BudgetLeft(r)
  /\ \E to \in {"routing", "sleeping"} : pc' = [pc EXCEPT ![r] = to]
  /\ UNCHANGED attempt

(* The choice of a key makes the plan's target, or is the handler's last.  *)
Chooses(r) ==
  /\ pc[r] = "choosing"
  /\ pc' = [pc EXCEPT ![r] = "planned"]
  /\ UNCHANGED <<attempt, probing>>

LEMMA ChoiceEnds ==
  ASSUME NEW r \in Requests, Choose(r)
  PROVE  Chooses(r) \/ (Returns(r) /\ probing' = probing \ {r})
BY DEF Choose, Chooses, Returns, Return, Goto

(* Every outcome of an attempt ends the request or hands it to a decision. *)
LEMMA OutcomeEnds ==
  ASSUME NEW r \in Requests, Outcome(r)
  PROVE  Returns(r) \/ Decides(r)
<1> USE DEF Returns, Decides, Deciding, Return, Fails, Goto, Ends
<1>1. CASE Answered(r) \/ Unknown(r)
  BY <1>1 DEF Answered, Unknown
<1>2. CASE Overloaded(r)
  BY <1>2 DEF Overloaded
<1>3. CASE RateLimited(r)
  BY <1>3 DEF RateLimited
<1>4. CASE QuotaExhausted(r)
  BY <1>4 DEF QuotaExhausted
<1>5. CASE Rejected(r) \/ Forbidden(r) \/ NotFound(r)
  BY <1>5 DEF Rejected, Forbidden, NotFound
<1>6. CASE Invalid(r)
  BY <1>6 DEF Invalid
<1> QED
  BY <1>1, <1>2, <1>3, <1>4, <1>5, <1>6 DEF Outcome

(* Every decision ends the request or loops with an attempt left. *)
LEMMA DecisionEnds ==
  ASSUME NEW r \in Requests, Decide(r)
  PROVE  Returns(r) \/ Loops(r)
<1> USE DEF Returns, Loops, Deciding, Return, Goto, Sleep, Tried
<1>1. CASE FailOver(r)
  BY <1>1 DEF FailOver
<1>2. CASE AwaitRoute(r)
  BY <1>2 DEF AwaitRoute, NothingPlanned
<1>3. CASE Replay(r)
  BY <1>3 DEF Replay, NothingPlanned
<1>4. CASE FailOverElsewhere(r)
  BY <1>4 DEF FailOverElsewhere, Replan
<1>5. CASE GiveUp(r)
  BY <1>5 DEF GiveUp
<1> QED
  BY <1>1, <1>2, <1>3, <1>4, <1>5 DEF Decide

LEMMA BudgetInvInit == Init => BudgetInv
BY RequestAssumption DEF RequestAssumption, Init, BudgetInv, States

LEMMA BudgetInvStep == BudgetInv /\ [Next]_vars => BudgetInv'
<1> SUFFICES ASSUME BudgetInv, [Next]_vars PROVE BudgetInv'
  OBVIOUS
<1> USE RequestAssumption DEF RequestAssumption, BudgetInv, States, Unspent
<1>1. ASSUME NEW r \in Requests, Arrive(r) PROVE BudgetInv'
  BY <1>1 DEF Arrive, Goto
<1>2. ASSUME NEW r \in Requests, Route(r) PROVE BudgetInv'
  BY <1>2 DEF Route, Goto
<1>3. ASSUME NEW r \in Requests, Returns(r) PROVE BudgetInv'
  BY <1>3 DEF Returns
<1>4. ASSUME NEW r \in Requests, Dial(r) PROVE BudgetInv'
  BY <1>4 DEF Dial, Goto
<1>5. ASSUME NEW r \in Requests, Decides(r) PROVE BudgetInv'
  BY <1>5 DEF Decides, Deciding
<1>6. ASSUME NEW r \in Requests, Loops(r) PROVE BudgetInv'
  BY <1>6 DEF Loops, BudgetLeft
<1>7. ASSUME NEW r \in Requests, Wake(r) \/ Chooses(r) PROVE BudgetInv'
  BY <1>7 DEF Wake, Goto, Chooses
<1>8. CASE UNCHANGED <<pc, attempt>>
  BY <1>8
<1>9. ASSUME NEW r \in Requests, Unavailable(r) \/ Refuse(r) \/ Cancel(r)
      PROVE  Returns(r)
  BY <1>9 DEF Unavailable, Refuse, Cancel, Return, Returns
<1> QED
  BY <1>1, <1>2, <1>3, <1>4, <1>5, <1>6, <1>7, <1>8, <1>9, OutcomeEnds,
     ChoiceEnds, DecisionEnds
  DEF Next, vars, Tick

(* Whatever mix of failures, replans, sleeps and replays a request goes    *)
(* through, all its attempts come from one budget of MaxRouteAttempts, and *)
(* the check at the head of the loop (upstream.rs:157) never fires.        *)
THEOREM BudgetIsOne == Spec => []OneBudget
<1>1. BudgetInv => OneBudget
  BY DEF BudgetInv, OneBudget, Unspent
<1> QED BY <1>1, BudgetInvInit, BudgetInvStep, PTL DEF Spec

-----------------------------------------------------------------------------
(* The refinement of CircuitBreaker.  Phase of a request by its progress   *)
(* and the attempts it has made.                                           *)
PhaseOf(p, n) ==
  CASE p \in {"idle", "done"} -> "idle"
    [] p = "dialing" -> "dialing"
    [] p \in Deciding -> IF n < MaxRouteAttempts THEN "routing" ELSE "idle"
    [] OTHER -> "routing"

PhaseAttempt(p, n) == IF PhaseOf(p, n) = "idle" THEN 0 ELSE n

Phases == [r \in Requests |-> Phase(r)]
Attempts == [r \in Requests |-> IF Phase(r) = "idle" THEN 0 ELSE attempt[r]]

(* The half-open probes are dialing, and a request with no loop running    *)
(* has made no attempt.                                                    *)
GateInv ==
  /\ BudgetInv
  /\ probing \subseteq In({"dialing"})
  /\ \A r \in Requests : pc[r] \in {"idle", "done"} => attempt[r] = 0

LEMMA GateInvInit == Init => GateInv
BY BudgetInvInit DEF GateInv, Init

LEMMA GateInvStep == GateInv /\ [Next]_vars => GateInv'
<1> SUFFICES ASSUME GateInv, [Next]_vars PROVE GateInv'
  OBVIOUS
<1>1. BudgetInv'
  BY BudgetInvStep DEF GateInv
<1>2. probing' \subseteq In({"dialing"})'
  <2> USE DEF GateInv, BudgetInv, In
  <2>1. ASSUME NEW r \in Requests, Outcome(r) PROVE probing' = probing \ {r}
    BY <2>1
    DEF Outcome, Answered, Overloaded, RateLimited, QuotaExhausted, Rejected,
        Forbidden, NotFound, Invalid, Unknown, Return, Fails
  <2>2. ASSUME NEW r \in Requests, Decide(r)
        PROVE  UNCHANGED probing \/ probing' = probing \ {r}
    BY <2>2
    DEF Decide, FailOver, AwaitRoute, Replay, FailOverElsewhere, GiveUp,
        Return, Tried
  <2>3. ASSUME NEW r \in Requests,
               Unavailable(r) \/ Refuse(r) \/ Cancel(r)
        PROVE  probing' = probing \ {r}
    BY <2>3 DEF Unavailable, Refuse, Cancel, Return
  <2>4. ASSUME NEW r \in Requests,
               Arrive(r) \/ Route(r) \/ Chooses(r) \/ Wake(r)
        PROVE  /\ UNCHANGED probing
               /\ pc[r] # "dialing"
               /\ \E to \in States : pc' = [pc EXCEPT ![r] = to]
    BY <2>4 DEF Arrive, Route, Chooses, Wake, Goto, States
  <2>5. ASSUME NEW r \in Requests, Dial(r)
        PROVE  probing' \subseteq probing \cup {r}
               /\ pc' = [pc EXCEPT ![r] = "dialing"]
    BY <2>5 DEF Dial, Goto
  <2>6. ASSUME NEW r \in Requests, Outcome(r) \/ Decide(r)
        PROVE  \E to \in States : pc' = [pc EXCEPT ![r] = to]
    BY <2>6, OutcomeEnds, DecisionEnds
    DEF Returns, Decides, Loops, States, Deciding
  <2>7. ASSUME NEW r \in Requests, Decide(r) PROVE pc[r] # "dialing"
    BY <2>7
    DEF Decide, FailOver, AwaitRoute, Replay, FailOverElsewhere, GiveUp,
        NothingPlanned, Replan, Deciding
  <2>8. ASSUME NEW r \in Requests,
               Unavailable(r) \/ Refuse(r) \/ Cancel(r)
        PROVE  pc' = [pc EXCEPT ![r] = "done"]
    BY <2>8 DEF Unavailable, Refuse, Cancel, Return
  <2>9. CASE UNCHANGED <<pc, probing>>
    BY <2>9
  <2>10. ASSUME NEW r \in Requests, Returns(r), probing' = probing \ {r}
         PROVE  probing' \subseteq In({"dialing"})'
    BY <2>10 DEF Returns
  <2> QED
    BY <2>1, <2>2, <2>3, <2>4, <2>5, <2>6, <2>7, <2>8, <2>9, <2>10,
       ChoiceEnds
    DEF Next, vars, Tick
<1>3. (\A r \in Requests : pc[r] \in {"idle", "done"} => attempt[r] = 0)'
  <2> DEFINE Fresh == \A r \in Requests : pc[r] \in {"idle", "done"}
                                            => attempt[r] = 0
  <2> USE DEF GateInv, BudgetInv
  <2>1. ASSUME NEW r \in Requests, Returns(r) PROVE Fresh'
    BY <2>1 DEF Returns
  <2>2. ASSUME NEW r \in Requests, Decides(r) \/ Loops(r) PROVE Fresh'
    BY <2>2 DEF Decides, Loops, Deciding
  <2>3. ASSUME NEW r \in Requests, Dial(r) PROVE Fresh'
    BY <2>3 DEF Dial, Goto
  <2>4. ASSUME NEW r \in Requests,
               Arrive(r) \/ Route(r) \/ Chooses(r) \/ Wake(r)
        PROVE  Fresh'
    BY <2>4 DEF Arrive, Route, Chooses, Wake, Goto
  <2>5. ASSUME NEW r \in Requests, Unavailable(r) \/ Refuse(r) \/ Cancel(r)
        PROVE  Fresh'
    BY <2>5 DEF Unavailable, Refuse, Cancel, Return
  <2>6. CASE UNCHANGED <<pc, attempt>>
    BY <2>6
  <2> QED
    BY <2>1, <2>2, <2>3, <2>4, <2>5, <2>6, ChoiceEnds, OutcomeEnds,
       DecisionEnds
    DEF Next, vars, Tick
<1> QED
  BY <1>1, <1>2, <1>3 DEF GateInv

(* The breaker of CircuitBreaker is this one. *)
LEMMA SameBreaker ==
  /\ Gate!NewCircuit = NewCircuit
  /\ Gate!Admits(circuit) = Admits(circuit)
  /\ Gate!Observed(circuit) = Observed(circuit)
  /\ Gate!AfterAdmit(circuit) = AfterAdmit(circuit)
  /\ Gate!AfterSuccess(circuit) = AfterSuccess(circuit)
  /\ Gate!AfterOverload(circuit) = AfterOverload(circuit)
  /\ Gate!AfterNeutral(circuit) = AfterNeutral(circuit)
  /\ Gate!CircuitAged(circuit) = CircuitAged(circuit)
  /\ \A d : Gate!AfterQuota(circuit, d) = AfterQuota(circuit, d)
BY DEF Gate!NewCircuit, NewCircuit, Gate!Admits, Admits, Gate!Observed,
       Observed, Gate!AfterAdmit, AfterAdmit, Gate!AfterSuccess, AfterSuccess,
       Gate!AfterOverload, AfterOverload, Gate!AfterNeutral, AfterNeutral,
       Gate!CircuitAged, CircuitAged, Gate!AfterQuota, AfterQuota,
       Gate!NoEvidence, NoEvidence, Gate!Absent, Absent, Gate!Slots, Slots,
       Gate!WindowFull, WindowFull, Gate!WithFailure, WithFailure,
       Gate!Forgotten, Forgotten, Gate!Older, Older, Gate!Decrement, Decrement

(* A request's phase depends on nothing but its progress and its attempts. *)
LEMMA PhaseIs ==
  /\ Phases = [r \in Requests |-> PhaseOf(pc[r], attempt[r])]
  /\ Attempts = [r \in Requests |-> PhaseAttempt(pc[r], attempt[r])]
BY DEF Phases, Attempts, Phase, PhaseOf, PhaseAttempt, BudgetLeft

(* Only r's progress and attempts change, hence only r's phase. *)
Moves(r) ==
  /\ pc' = [pc EXCEPT ![r] = pc'[r]]
  /\ attempt' = [attempt EXCEPT ![r] = attempt'[r]]

LEMMA AbstractStep ==
  ASSUME NEW r \in Requests, GateInv, GateInv', Moves(r)
  PROVE  /\ Phases' = [Phases EXCEPT ![r] = PhaseOf(pc'[r], attempt'[r])]
         /\ Attempts' = [Attempts EXCEPT ![r] = PhaseAttempt(pc'[r], attempt'[r])]
<1>1. /\ Phases' = [q \in Requests |-> PhaseOf(pc'[q], attempt'[q])]
      /\ Attempts' = [q \in Requests |-> PhaseAttempt(pc'[q], attempt'[q])]
  BY DEF Phases, Attempts, Phase, PhaseOf, PhaseAttempt, BudgetLeft
<1>2. /\ pc \in [Requests -> States]
      /\ attempt \in [Requests -> 0 .. MaxRouteAttempts]
  BY DEF GateInv, BudgetInv
<1>3. \A q \in Requests \ {r} :
        pc'[q] = pc[q] /\ attempt'[q] = attempt[q]
  BY <1>2 DEF Moves
<1>4. \A q \in Requests \ {r} :
        /\ PhaseOf(pc'[q], attempt'[q]) = PhaseOf(pc[q], attempt[q])
        /\ PhaseAttempt(pc'[q], attempt'[q]) = PhaseAttempt(pc[q], attempt[q])
  BY <1>3
<1> QED
  BY <1>1, <1>4, PhaseIs

LEMMA GateInit == Init => Gate!Init
<1> SUFFICES ASSUME Init PROVE Gate!Init
  OBVIOUS
<1>1. \A r \in Requests : Phase(r) = "idle"
  BY DEF Init, Phase, Deciding
<1> QED
  BY <1>1, SameBreaker DEF Init, Gate!Init

(* The phase of a request, and the attempts counted for it, by its         *)
(* progress.                                                               *)
LEMMA PhaseValue ==
  ASSUME GateInv, NEW r \in Requests
  PROVE  /\ pc[r] \in {"idle", "done"}
              => Phases[r] = "idle" /\ Attempts[r] = 0 /\ attempt[r] = 0
         /\ pc[r] \in {"routing", "choosing", "planned", "sleeping"}
              => Phases[r] = "routing" /\ Attempts[r] = attempt[r]
         /\ pc[r] = "dialing"
              => Phases[r] = "dialing" /\ Attempts[r] = attempt[r]
         /\ pc[r] \in Deciding /\ BudgetLeft(r)
              => Phases[r] = "routing" /\ Attempts[r] = attempt[r]
         /\ pc[r] \in Deciding /\ ~BudgetLeft(r)
              => Phases[r] = "idle" /\ Attempts[r] = 0
BY DEF GateInv, Phases, Attempts, Phase, Deciding

(* What the step of a request makes of its phase. *)
LEMMA PhaseAfter ==
  ASSUME NEW r \in Requests, GateInv, GateInv', Moves(r)
  PROVE  /\ pc'[r] = "done"
              => /\ Phases' = [Phases EXCEPT ![r] = "idle"]
                 /\ Attempts' = [Attempts EXCEPT ![r] = 0]
         /\ pc'[r] \in {"routing", "choosing", "planned", "sleeping"}
              => /\ Phases' = [Phases EXCEPT ![r] = "routing"]
                 /\ Attempts' = [Attempts EXCEPT ![r] = attempt'[r]]
         /\ pc'[r] = "dialing"
              => /\ Phases' = [Phases EXCEPT ![r] = "dialing"]
                 /\ Attempts' = [Attempts EXCEPT ![r] = attempt'[r]]
         /\ pc'[r] \in Deciding /\ attempt'[r] < MaxRouteAttempts
              => /\ Phases' = [Phases EXCEPT ![r] = "routing"]
                 /\ Attempts' = [Attempts EXCEPT ![r] = attempt'[r]]
         /\ pc'[r] \in Deciding /\ ~(attempt'[r] < MaxRouteAttempts)
              => /\ Phases' = [Phases EXCEPT ![r] = "idle"]
                 /\ Attempts' = [Attempts EXCEPT ![r] = 0]
<1> DEFINE to == PhaseOf(pc'[r], attempt'[r])
           n == PhaseAttempt(pc'[r], attempt'[r])
<1>1. /\ pc'[r] = "done" => to = "idle" /\ n = 0
      /\ pc'[r] \in {"routing", "choosing", "planned", "sleeping"}
           => to = "routing" /\ n = attempt'[r]
      /\ pc'[r] = "dialing" => to = "dialing" /\ n = attempt'[r]
      /\ pc'[r] \in Deciding /\ attempt'[r] < MaxRouteAttempts
           => to = "routing" /\ n = attempt'[r]
      /\ pc'[r] \in Deciding /\ ~(attempt'[r] < MaxRouteAttempts)
           => to = "idle" /\ n = 0
  BY DEF PhaseOf, PhaseAttempt, Deciding
<1>2. /\ Phases' = [Phases EXCEPT ![r] = to]
      /\ Attempts' = [Attempts EXCEPT ![r] = n]
  BY AbstractStep
<1> HIDE DEF to, n
<1> QED
  BY <1>1, <1>2

(* A reply is CircuitBreaker's Leave. *)
LEMMA GateLeave ==
  ASSUME GateInv, GateInv', NEW r \in Requests, Returns(r)
  PROVE  Gate!Leave(r)
<1>1. Moves(r) /\ pc'[r] = "done"
  BY DEF Returns, Moves, GateInv, BudgetInv
<1>2. /\ Phases' = [Phases EXCEPT ![r] = "idle"]
      /\ Attempts' = [Attempts EXCEPT ![r] = 0]
  BY <1>1, PhaseAfter
<1> QED
  BY <1>2 DEF Gate!Leave, Phases, Attempts

(* The end of an attempt is CircuitBreaker's Conclude. *)
LEMMA GateConclude ==
  ASSUME GateInv, GateInv', NEW r \in Requests, pc[r] = "dialing",
         Returns(r) \/ Decides(r), probing' = probing \ {r}
  PROVE  Gate!Conclude(r)
<1>1. /\ Phases[r] = "dialing"
      /\ Attempts[r] = attempt[r]
  BY PhaseValue
<1>2. CASE Returns(r)
  BY <1>1, <1>2, GateLeave DEF Gate!Conclude, Phases
<1>3. CASE Decides(r)
  <2>1. Moves(r) /\ pc'[r] \in Deciding /\ attempt'[r] = attempt[r]
    BY <1>3 DEF Decides, Moves, GateInv, BudgetInv
  <2>2. CASE attempt[r] < MaxRouteAttempts
    <3>1. /\ Phases' = [Phases EXCEPT ![r] = "routing"]
          /\ Attempts' = [Attempts EXCEPT ![r] = attempt'[r]]
      BY <2>1, <2>2, PhaseAfter
    <3>2. Attempts' = Attempts
      BY <1>1, <2>1, <3>1, PhaseIs
    <3> QED
      BY <1>1, <2>2, <3>1, <3>2 DEF Gate!Conclude, Phases, Attempts
  <2>3. CASE ~(attempt[r] < MaxRouteAttempts)
    <3>1. /\ Phases' = [Phases EXCEPT ![r] = "idle"]
          /\ Attempts' = [Attempts EXCEPT ![r] = 0]
      BY <2>1, <2>3, PhaseAfter
    <3> QED
      BY <1>1, <3>1 DEF Gate!Conclude, Gate!Leave, Phases, Attempts
  <2> QED
    BY <2>2, <2>3
<1> QED
  BY <1>2, <1>3

(* A request that stays at the head of its loop, or gives up with its      *)
(* budget spent, changes nothing there.                                    *)
LEMMA GateStays ==
  ASSUME GateInv, GateInv', NEW r \in Requests, Moves(r),
         attempt'[r] = attempt[r],
         Phases[r] = "routing", Attempts[r] = attempt[r],
         pc'[r] \in {"routing", "choosing", "planned", "sleeping"}
  PROVE  UNCHANGED <<Phases, Attempts>>
<1>1. /\ Phases' = [Phases EXCEPT ![r] = "routing"]
      /\ Attempts' = [Attempts EXCEPT ![r] = attempt'[r]]
  BY PhaseAfter
<1> QED
  BY <1>1, PhaseIs

(* The outcomes of an attempt. *)
LEMMA GateOutcome ==
  ASSUME GateInv, GateInv', NEW r \in Requests, Outcome(r)
  PROVE  Gate!Outcome(r)
<1>1. pc[r] = "dialing"
  BY DEF Outcome, Answered, Overloaded, RateLimited, QuotaExhausted, Rejected,
         Forbidden, NotFound, Invalid, Unknown, Ends
<1>2. probing' = probing \ {r}
  BY DEF Outcome, Answered, Overloaded, RateLimited, QuotaExhausted, Rejected,
         Forbidden, NotFound, Invalid, Unknown, Return, Fails
<1>3. Gate!Conclude(r)
  BY <1>1, <1>2, GateConclude, OutcomeEnds
<1>4. CASE Answered(r)
  <2>1. Gate!Leave(r)
    BY <1>4, GateLeave DEF Answered, Return, Returns
  <2>2. Phases[r] = "dialing"
    BY <1>1, PhaseValue
  <2> QED
    BY <1>2, <1>4, <2>1, <2>2, SameBreaker
    DEF Answered, Gate!Answered, Gate!Outcome, Phases
<1>5. CASE Overloaded(r)
  BY <1>3, <1>5, SameBreaker DEF Overloaded, Gate!Overloaded, Gate!Outcome
<1>6. CASE RateLimited(r)
  BY <1>3, <1>6 DEF RateLimited, Gate!NotReported, Gate!Outcome
<1>7. CASE QuotaExhausted(r)
  <2>1. PICK d \in QuotaOpen :
          circuit' = AfterQuota(circuit, d) \/ circuit' = circuit
    BY <1>7 DEF QuotaExhausted
  <2> QED
    BY <1>3, <2>1, SameBreaker
    DEF Gate!QuotaExhausted, Gate!NotReported, Gate!Outcome
<1>8. CASE Rejected(r) \/ Forbidden(r) \/ NotFound(r) \/ Invalid(r)
             \/ Unknown(r)
  BY <1>3, <1>8, SameBreaker
  DEF Rejected, Forbidden, NotFound, Invalid, Unknown, Gate!Neutral,
      Gate!Outcome
<1> QED
  BY <1>4, <1>5, <1>6, <1>7, <1>8 DEF Outcome

(* What the loop decides: another round, or a reply.  A reply given with   *)
(* budget left is CircuitBreaker's NoRoute.                                *)
LEMMA GateDecide ==
  ASSUME GateInv, GateInv', NEW r \in Requests, Decide(r)
  PROVE  Gate!NoRoute(r) \/ UNCHANGED <<circuit, Phases, Attempts, probing>>
<1>1. pc[r] \in Deciding
  BY DEF Decide, FailOver, AwaitRoute, Replay, FailOverElsewhere, GiveUp,
         NothingPlanned, Replan, Deciding
<1>2. UNCHANGED circuit
  BY DEF Decide, FailOver, AwaitRoute, Replay, FailOverElsewhere, GiveUp, Tried
<1>3. r \notin probing
  BY <1>1 DEF GateInv, In, Deciding
<1>4. UNCHANGED probing
  BY <1>3
  DEF Decide, FailOver, AwaitRoute, Replay, FailOverElsewhere, GiveUp, Return,
      Tried
<1>5. CASE Returns(r) /\ BudgetLeft(r)
  <2>1. Gate!Leave(r) /\ Phases[r] = "routing"
    BY <1>1, <1>5, GateLeave, PhaseValue
  <2> QED
    BY <1>2, <1>4, <2>1 DEF Gate!NoRoute, Phases
<1>6. CASE Returns(r) /\ ~BudgetLeft(r)
  <2>1. Moves(r) /\ pc'[r] = "done"
    BY <1>6 DEF Returns, Moves, GateInv, BudgetInv
  <2>2. /\ Phases' = [Phases EXCEPT ![r] = "idle"]
        /\ Attempts' = [Attempts EXCEPT ![r] = 0]
    BY <2>1, PhaseAfter
  <2>3. Phases[r] = "idle" /\ Attempts[r] = 0
    BY <1>1, <1>6, PhaseValue
  <2> QED
    BY <1>2, <1>4, <2>2, <2>3, PhaseIs
<1>7. CASE Loops(r)
  <2>1. /\ Moves(r)
        /\ attempt'[r] = attempt[r]
        /\ pc'[r] \in {"routing", "choosing", "planned", "sleeping"}
    BY <1>7 DEF Loops, Moves, GateInv, BudgetInv
  <2>2. Phases[r] = "routing" /\ Attempts[r] = attempt[r]
    BY <1>7, PhaseValue DEF Loops
  <2> QED
    BY <1>2, <1>4, <2>1, <2>2, GateStays
<1> QED
  BY <1>5, <1>6, <1>7, DecisionEnds

(* The rest of a request's steps. *)
LEMMA GateArrive ==
  ASSUME GateInv, GateInv', NEW r \in Requests, Arrive(r)
  PROVE  Gate!Arrive(r)
<1>1. Moves(r) /\ pc'[r] = "routing" /\ attempt'[r] = 0
  BY PhaseValue DEF Arrive, Goto, Moves, GateInv, BudgetInv
<1>2. Phases[r] = "idle"
  BY PhaseValue DEF Arrive
<1>3. /\ Phases' = [Phases EXCEPT ![r] = "routing"]
      /\ Attempts' = [Attempts EXCEPT ![r] = 0]
  BY <1>1, PhaseAfter
<1> QED
  BY <1>2, <1>3, SameBreaker DEF Arrive, Gate!Arrive, Phases, Attempts

LEMMA GateDial ==
  ASSUME GateInv, GateInv', NEW r \in Requests, Dial(r)
  PROVE  Gate!Dial(r)
<1>1. Moves(r) /\ pc'[r] = "dialing" /\ attempt'[r] = attempt[r] + 1
  BY DEF Dial, Goto, Moves, GateInv, BudgetInv
<1>2. Phases[r] = "routing" /\ Attempts[r] = attempt[r]
  BY PhaseValue DEF Dial
<1>3. Phases' = [Phases EXCEPT ![r] = "dialing"]
  BY <1>1, PhaseAfter
<1>4. Attempts' = [Attempts EXCEPT ![r] = Attempts[r] + 1]
  BY <1>1, <1>2, PhaseAfter
<1> QED
  BY <1>2, <1>3, <1>4, SameBreaker DEF Dial, Gate!Dial, Phases, Attempts

LEMMA GateReturn ==
  ASSUME GateInv, GateInv', NEW r \in Requests,
         Unavailable(r) \/ Refuse(r) \/ Cancel(r)
  PROVE  Gate!NoRoute(r) \/ Gate!Refuse(r) \/ Gate!Cancel(r)
<1>1. Gate!Leave(r)
  BY GateLeave DEF Unavailable, Refuse, Cancel, Return, Returns
<1>2. CASE Unavailable(r)
  <2>1. Phases[r] = "routing"
    BY <1>2, PhaseValue DEF Unavailable
  <2>2. UNCHANGED <<circuit, probing>>
    BY <1>2 DEF Unavailable, Return, GateInv, In
  <2> QED
    BY <1>1, <2>1, <2>2 DEF Gate!NoRoute, Phases
<1>3. CASE Refuse(r)
  <2>1. Phases[r] = "routing"
    BY <1>3, PhaseValue DEF Refuse
  <2>2. UNCHANGED <<circuit, probing>>
    BY <1>3 DEF Refuse, Return, GateInv, In, shared
  <2> QED
    BY <1>1, <1>3, <2>1, <2>2, SameBreaker DEF Refuse, Gate!Refuse, Phases
<1>4. CASE Cancel(r)
  <2>1. Phases[r] = "dialing" \/ Phases[r] = "routing"
    BY <1>4, PhaseValue DEF Cancel
  <2>2. circuit' = circuit /\ probing' = probing \ {r}
    BY <1>4 DEF Cancel, Return
  <2> QED
    BY <1>1, <2>1, <2>2 DEF Gate!Cancel, Phases
<1> QED
  BY <1>2, <1>3, <1>4

(* The breaker does not see a plan, the choice of its key, and a waking; a *)
(* choice that is the handler's last is CircuitBreaker's NoRoute.          *)
LEMMA GatePlan ==
  ASSUME GateInv, GateInv', NEW r \in Requests,
         Route(r) \/ Wake(r) \/ (Choose(r) /\ Chooses(r))
  PROVE  UNCHANGED <<circuit, Phases, Attempts, probing>>
<1>1. /\ Moves(r)
      /\ attempt'[r] = attempt[r]
      /\ pc'[r] \in {"routing", "choosing", "planned", "sleeping"}
  BY DEF Route, Wake, Chooses, Goto, Moves, GateInv, BudgetInv
<1>2. Phases[r] = "routing" /\ Attempts[r] = attempt[r]
  BY PhaseValue DEF Route, Wake, Chooses
<1>3. UNCHANGED <<circuit, probing>>
  BY DEF Route, Wake, Choose, Chooses, shared
<1> QED
  BY <1>1, <1>2, <1>3, GateStays

LEMMA GateChoice ==
  ASSUME GateInv, GateInv', NEW r \in Requests, Choose(r)
  PROVE  Gate!NoRoute(r) \/ UNCHANGED <<circuit, Phases, Attempts, probing>>
<1>1. CASE Chooses(r)
  BY <1>1, GatePlan
<1>2. CASE Returns(r) /\ probing' = probing \ {r}
  <2>1. Gate!Leave(r)
    BY <1>2, GateLeave
  <2>2. Phases[r] = "routing"
    BY PhaseValue DEF Choose
  <2>3. UNCHANGED <<circuit, probing>>
    BY <1>2 DEF Choose, GateInv, In, shared
  <2> QED
    BY <2>1, <2>2, <2>3 DEF Gate!NoRoute, Phases
<1> QED
  BY <1>1, <1>2, ChoiceEnds

LEMMA GateStep ==
  GateInv /\ GateInv' /\ [Next]_vars => [Gate!Next]_(Gate!vars)
<1> SUFFICES ASSUME GateInv, GateInv', [Next]_vars
             PROVE  [Gate!Next]_(Gate!vars)
  OBVIOUS
<1>1. CASE UNCHANGED <<circuit, Phases, Attempts, probing>>
  BY <1>1 DEF Gate!vars, Phases, Attempts
<1>2. ASSUME NEW r \in Requests, Arrive(r) PROVE Gate!Next
  BY <1>2, GateArrive DEF Gate!Next
<1>3. ASSUME NEW r \in Requests, Dial(r) PROVE Gate!Next
  BY <1>3, GateDial DEF Gate!Next
<1>4. ASSUME NEW r \in Requests, Unavailable(r) \/ Refuse(r) \/ Cancel(r)
      PROVE  Gate!Next
  BY <1>4, GateReturn DEF Gate!Next
<1>5. ASSUME NEW r \in Requests, Outcome(r) PROVE Gate!Next
  BY <1>5, GateOutcome DEF Gate!Next
<1>6. ASSUME NEW r \in Requests, Decide(r) PROVE [Gate!Next]_(Gate!vars)
  BY <1>1, <1>6, GateDecide DEF Gate!Next
<1>7. ASSUME NEW r \in Requests, Route(r) \/ Wake(r)
      PROVE  [Gate!Next]_(Gate!vars)
  BY <1>1, <1>7, GatePlan
<1>8. UNCHANGED <<pc, attempt>> => UNCHANGED <<Phases, Attempts>>
  BY DEF Phases, Attempts, Phase, BudgetLeft
<1>9. CASE Tick
  <2>1. UNCHANGED <<Phases, Attempts, probing>>
    BY <1>8, <1>9 DEF Tick
  <2> QED
    BY <1>9, <2>1, SameBreaker
    DEF Tick, Gate!Tick, Gate!Next, Phases, Attempts
<1>10. CASE UNCHANGED vars
  BY <1>1, <1>8, <1>10 DEF vars
<1>11. ASSUME NEW r \in Requests, Choose(r) PROVE [Gate!Next]_(Gate!vars)
  BY <1>1, <1>11, GateChoice DEF Gate!Next
<1> QED
  BY <1>2, <1>3, <1>4, <1>5, <1>6, <1>7, <1>9, <1>10, <1>11 DEF Next

(* The attempt loop, with all its planning, waiting and replaying, does to *)
(* the proxy-wide breaker only what CircuitBreaker lets requests do, for   *)
(* any budget: SlotClaim and WedgedForGood, proved there, hold of it.      *)
THEOREM ImplementsBreaker == Spec => ImplementsGate
<1>1. Spec => []GateInv
  BY GateInvInit, GateInvStep, PTL DEF Spec
<1> QED
  BY <1>1, GateInit, GateStep, PTL DEF Spec, ImplementsGate, Gate!Spec

-----------------------------------------------------------------------------
(* The proofs about CircuitBreaker, of this breaker and these requests.    *)
(* What is used of them does not look at the history of its openings.      *)
Proved == INSTANCE CircuitBreakerProofs WITH
  lately <- circuit.recent,
  late <- {},
  pc <- [r \in Requests |-> Phase(r)],
  attempt <- [r \in Requests |-> IF Phase(r) = "idle" THEN 0 ELSE attempt[r]],
  Unreported <- {"rate_limited", "quota_elsewhere", "cancelled"}

LEMMA SameInit == Gate!Init <=> Proved!Init
BY DEF Gate!Init, Proved!Init, Gate!NewCircuit, Proved!NewCircuit,
    Gate!NoEvidence, Proved!NoEvidence, Gate!Absent, Proved!Absent,
    Gate!Slots, Proved!Slots, Gate!Forgotten, Proved!Forgotten

LEMMA SameNext == [Gate!Next]_(Gate!vars) <=> [Proved!Next]_(Proved!vars)
BY DEF Gate!vars, Proved!vars, Gate!Arrive, Proved!Arrive, Gate!Probe,
    Proved!Probe, Gate!Leave, Proved!Leave, Gate!NoRoute, Proved!NoRoute,
    Gate!Refuse, Proved!Refuse, Gate!Dial, Proved!Dial, Gate!Conclude,
    Proved!Conclude, Gate!Answered, Proved!Answered, Gate!Overloaded,
    Proved!Overloaded, Gate!Neutral, Proved!Neutral, Gate!QuotaExhausted,
    Proved!QuotaExhausted, Gate!NotReported, Proved!NotReported,
    Gate!Cancel, Proved!Cancel, Gate!Tick, Proved!Tick, Gate!Outcome,
    Proved!Outcome, Gate!Next, Proved!Next, Gate!NoEvidence,
    Proved!NoEvidence, Gate!Absent, Proved!Absent, Gate!Slots, Proved!Slots,
    Gate!Forgotten, Proved!Forgotten, Gate!Older, Proved!Older,
    Gate!Decrement, Proved!Decrement, Gate!CircuitAged, Proved!CircuitAged,
    Gate!Admits, Proved!Admits, Gate!AfterAdmit, Proved!AfterAdmit,
    Gate!AfterSuccess, Proved!AfterSuccess, Gate!AfterQuota,
    Proved!AfterQuota, Gate!WindowFull, Proved!WindowFull, Gate!WithFailure,
    Proved!WithFailure, Gate!AfterOverload, Proved!AfterOverload,
    Gate!AfterNeutral, Proved!AfterNeutral, Gate!Observed, Proved!Observed

LEMMA BreakerProved == Spec => Proved!Spec
BY ImplementsBreaker, SameInit, SameNext, PTL
DEF ImplementsGate, Gate!Spec, Proved!Spec

(* The parameters are what the proofs take them to be. *)
LEMMA BreakerAssumptions == Proved!BreakerAssumption /\ Proved!RequestAssumption
BY BreakerAssumption, RequestAssumption
DEF BreakerAssumption, RequestAssumption, Proved!BreakerAssumption,
    Proved!RequestAssumption, Proved!UnreportedKinds

(* A claimed half-open slot of the breaker exists only while it is half    *)
(* open, whichever attempts report late (circuit.rs:77).                   *)
THEOREM SlotClaim ==
  Spec => [](circuit.probe => circuit.state = "HalfOpen")
<1>1. Spec => []Proved!SlotOnlyHalfOpen
  BY BreakerProved, BreakerAssumptions, Proved!SlotClaim
<1> QED
  BY <1>1, PTL DEF Proved!SlotOnlyHalfOpen

(* The half-open slot of the breaker is claimed, and no request dials. *)
BreakerWedged == circuit.probe /\ In({"dialing"}) = {}

(* With everything the loop does around it - plans, retries, other models  *)
(* and accounts, time - nothing brings the proxy back from there: no       *)
(* request dials again (circuit.rs:100-106, upstream.rs:187).              *)
THEOREM WedgeIsFinal ==
  Spec => [](BreakerWedged => [](BreakerWedged /\ ~Admits(circuit)))
<1>1. Spec => [](Proved!Wedged => [](Proved!Wedged /\ ~Proved!Admits(circuit)))
  BY BreakerProved, BreakerAssumptions, Proved!WedgedForGood
<1>2. Proved!Wedged <=> BreakerWedged
  BY DEF Proved!Wedged, Proved!Dialing, BreakerWedged, In, Phase, Deciding
<1>3. Proved!Admits(circuit) <=> Admits(circuit)
  BY DEF Proved!Admits, Admits
<1> QED BY <1>1, <1>2, <1>3, PTL

-----------------------------------------------------------------------------
(* The reservations in the routing table.  A table is sound for n and S if *)
(* it has its type, the key k counts n[k] attempts, and only models of S,  *)
(* each of them half open, have their slot claimed.                        *)
KeyType == [cooling : Nat, unusable : BOOLEAN, inflight : Nat]
RouteType == [cooling : Nat, disabled : Nat]

Counted(ks, n) ==
  /\ ks \in [Keys -> KeyType]
  /\ \A k \in Keys : ks[k].inflight = n[k]

Claimed(ms, S) ==
  /\ ms \in [Models -> ModelType]
  /\ \A m \in Models : ms[m].probe => m \in S /\ ms[m].state = "HalfOpen"

Sound(t, n, S) ==
  /\ t = [keys |-> t.keys, routes |-> t.routes, groups |-> t.groups,
          models |-> t.models]
  /\ Counted(t.keys, n)
  /\ t.routes \in [Routes -> RouteType]
  /\ t.groups \in [Groups -> Nat]
  /\ Claimed(t.models, S)

LEMMA SoundIsTyped ==
  ASSUME NEW t, NEW n, NEW S, Sound(t, n, S)
  PROVE  t \in TableType
BY DEF Sound, Counted, Claimed, TableType, KeyType, RouteType

(* One part of a table in place of another. *)
LEMMA PutKeys ==
  ASSUME NEW t, NEW n, NEW S, Sound(t, n, S), NEW ks, NEW o, Counted(ks, o)
  PROVE  Sound([t EXCEPT !.keys = ks], o, S)
BY DEF Sound

LEMMA PutRoutes ==
  ASSUME NEW t, NEW n, NEW S, Sound(t, n, S), NEW cs \in [Routes -> RouteType]
  PROVE  Sound([t EXCEPT !.routes = cs], n, S)
BY DEF Sound

LEMMA PutGroups ==
  ASSUME NEW t, NEW n, NEW S, Sound(t, n, S), NEW gs \in [Groups -> Nat]
  PROVE  Sound([t EXCEPT !.groups = gs], n, S)
BY DEF Sound

LEMMA PutModels ==
  ASSUME NEW t, NEW n, NEW S, Sound(t, n, S), NEW ms, NEW R, Claimed(ms, R)
  PROVE  Sound([t EXCEPT !.models = ms], n, R)
BY DEF Sound

(* An entry of a model in place of another. *)
LEMMA OneModel ==
  ASSUME NEW ms, NEW S, Claimed(ms, S), NEW i, NEW m, NEW R,
         i \in Models => m \in ModelType,
         i \in Models /\ m.probe => i \in R /\ m.state = "HalfOpen",
         S \subseteq R \cup {i}
  PROVE  Claimed([ms EXCEPT ![i] = m], R)
BY DEF Claimed

(* A mark on a model gives no slot away. *)
LEMMA MarkedModel ==
  ASSUME NEW ms, NEW S, Claimed(ms, S), NEW i, NEW m,
         \/ m = Served(ms[i])
         \/ \E g : m \in {AfterRouteFailure(ms[i], g), AfterMissing(ms[i], g)}
  PROVE  Claimed([ms EXCEPT ![i] = m], S)
<1> DEFINE e == ms[i]
<1>1. ASSUME i \in Models
      PROVE  m \in ModelType /\ (m.probe => i \in S /\ m.state = "HalfOpen")
  <2>1. e \in ModelType /\ (e.probe => i \in S /\ e.state = "HalfOpen")
    BY <1>1 DEF Claimed
  <2>2. m = Served(e) \/ \E g : m \in {AfterRouteFailure(e, g), AfterMissing(e, g)}
    OBVIOUS
  <2> HIDE DEF e
  <2>3. m \in ModelType
    BY <2>1, <2>2, EntryTyped
  <2>4. m.probe => e.probe /\ m.state = "HalfOpen"
    BY <2>1, <2>2, SlotKept
  <2> QED BY <2>1, <2>3, <2>4
<1> QED BY <1>1, OneModel

LEMMA LookedModels ==
  ASSUME NEW ms, NEW S, Claimed(ms, S), NEW viewed
  PROVE  Claimed([m \in Models |-> IF m \in viewed THEN Viewed(ms[m])
                                   ELSE ms[m]], S)
<1>1. ASSUME NEW m \in Models
      PROVE  /\ Viewed(ms[m]) \in ModelType
             /\ Viewed(ms[m]).probe => m \in S /\ Viewed(ms[m]).state = "HalfOpen"
  BY EntryTyped, ViewMoves DEF Claimed
<1> QED BY <1>1 DEF Claimed

LEMMA LookedSound ==
  ASSUME NEW t, NEW n, NEW S, Sound(t, n, S)
  PROVE  /\ Sound(AllLooked(t), n, S)
         /\ \A rot, skip : Sound(Looked(t, rot, skip), n, S)
<1>1. Claimed(t.models, S)
  BY DEF Sound
<1>2. Sound(AllLooked(t), n, S)
  <2> DEFINE ms == [m \in Models |-> Viewed(t.models[m])]
  <2>1. ASSUME NEW m \in Models
        PROVE  /\ Viewed(t.models[m]) \in ModelType
               /\ Viewed(t.models[m]).probe
                    => m \in S /\ Viewed(t.models[m]).state = "HalfOpen"
    BY <1>1, EntryTyped, ViewMoves DEF Claimed
  <2>2. Claimed(ms, S)
    BY <2>1 DEF Claimed
  <2> HIDE DEF ms
  <2>3. Sound([t EXCEPT !.models = ms], n, S)
    BY <2>2, PutModels
  <2> QED BY <2>3, Zenon DEF AllLooked, ms
<1>3. ASSUME NEW rot, NEW skip PROVE Sound(Looked(t, rot, skip), n, S)
  <2>1. PICK viewed : Looked(t, rot, skip) =
               [t EXCEPT !.models = [m \in Models |-> IF m \in viewed
                                                      THEN Viewed(t.models[m])
                                                      ELSE t.models[m]]]
    BY Zenon DEF Looked
  <2> DEFINE ms == [m \in Models |-> IF m \in viewed THEN Viewed(t.models[m])
                                     ELSE t.models[m]]
  <2>2. Claimed(ms, S)
    BY <1>1, LookedModels, Zenon
  <2> HIDE DEF ms
  <2>3. Sound([t EXCEPT !.models = ms], n, S)
    BY <2>2, PutModels
  <2> QED BY <2>1, <2>3, Zenon DEF ms
<1> QED BY <1>2, <1>3

LEMMA AgedSound ==
  ASSUME NEW t, NEW n, NEW S, Sound(t, n, S)
  PROVE  Sound(TableAged(t), n, S)
<1> DEFINE u == TableAged(t)
<1>1. \A i \in Nat : Decrement(i) \in Nat
  BY DEF Decrement
<1>2. Counted(u.keys, n)
  <2>1. u.keys = [k \in Keys |-> [t.keys[k] EXCEPT !.cooling = Decrement(@)]]
    BY DEF TableAged
  <2>2. Counted(t.keys, n)
    BY DEF Sound
  <2>3. ASSUME NEW k \in Keys
        PROVE  /\ [t.keys[k] EXCEPT !.cooling = Decrement(@)] \in KeyType
               /\ [t.keys[k] EXCEPT !.cooling = Decrement(@)].inflight = n[k]
    <3>1. t.keys[k] \in KeyType /\ t.keys[k].inflight = n[k]
      BY <2>2 DEF Counted
    <3> QED BY <1>1, <3>1 DEF KeyType
  <2> HIDE DEF u
  <2> QED BY <2>1, <2>3 DEF Counted
<1>3. u.routes \in [Routes -> RouteType]
  <2>1. \A c \in RouteType :
          [c EXCEPT !.cooling = Decrement(@), !.disabled = Decrement(@)]
            \in RouteType
    BY <1>1 DEF RouteType
  <2> QED BY <2>1 DEF TableAged, Sound
<1>4. u.groups \in [Groups -> Nat]
  BY <1>1 DEF TableAged, Sound
<1>5. Claimed(u.models, S)
  <2>1. \A m \in ModelType : /\ ModelAged(m) \in ModelType
                             /\ ModelAged(m).probe = m.probe
                             /\ ModelAged(m).state = m.state
    BY EntryTyped, EntryMoves
  <2> QED BY <2>1 DEF TableAged, Sound, Claimed
<1>6. u = [keys |-> u.keys, routes |-> u.routes, groups |-> u.groups,
           models |-> u.models]
  BY DEF TableAged
<1> QED BY <1>2, <1>3, <1>4, <1>5, <1>6 DEF Sound

(* begin_attempt counts one attempt more and may claim the model's slot.   *)
LEMMA BeginSound ==
  ASSUME NEW t, NEW n, NEW S, Sound(t, n, S), NEW x, NEW o, NEW R,
         \A k \in Keys : o[k] = IF k = x.key THEN n[k] + 1 ELSE n[k],
         S \subseteq R,
         TakesProbe(t.models[x.model]) => x.model \in R
  PROVE  Sound(BeginAttempt(t, x), o, R)
<1> DEFINE e == AfterBegin(t.models[x.model])
           ms == [t.models EXCEPT ![x.model] = e]
           a == [t EXCEPT !.models = ms]
           ks == [k \in Keys |-> IF k = x.key
                                 THEN [a.keys[k] EXCEPT !.inflight = @ + 1]
                                 ELSE a.keys[k]]
<1>1. BeginAttempt(t, x) = [a EXCEPT !.keys = ks]
  BY Zenon DEF BeginAttempt, WithKey
<1>2. Claimed(ms, R)
  <2>1. Claimed(t.models, S)
    BY DEF Sound
  <2>2. ASSUME x.model \in Models
        PROVE  e \in ModelType /\ (e.probe => x.model \in R /\ e.state = "HalfOpen")
    <3> DEFINE m == t.models[x.model]
    <3>1. m \in ModelType /\ (m.probe => x.model \in R /\ m.state = "HalfOpen")
      BY <2>1, <2>2 DEF Claimed
    <3>2. TakesProbe(m) => x.model \in R
      OBVIOUS
    <3> HIDE DEF m
    <3>3. TakesProbe(m) => m.state = "HalfOpen"
      BY DEF TakesProbe
    <3>4. /\ AfterBegin(m) \in ModelType /\ AfterBegin(m).state = m.state
          /\ AfterBegin(m).probe => m.probe \/ TakesProbe(m)
      BY <3>1, EntryTyped, EntryMoves
    <3> QED BY <3>1, <3>2, <3>3, <3>4 DEF m
  <2> HIDE DEF e
  <2> QED BY <2>1, <2>2, OneModel
<1> HIDE DEF ms
<1>3. Sound(a, n, R)
  BY <1>2, PutModels
<1> HIDE DEF a
<1>4. Counted(ks, o)
  <2>1. Counted(a.keys, n)
    BY <1>3 DEF Sound
  <2> QED BY <2>1 DEF Counted, KeyType
<1> HIDE DEF ks
<1>5. Sound([a EXCEPT !.keys = ks], o, R)
  BY <1>3, <1>4, PutKeys
<1> QED BY <1>1, <1>5, Zenon

(* The guard takes one attempt off its key, and the slot if it holds it.   *)
LEMMA DropSound ==
  ASSUME NEW t, NEW n, NEW S, Sound(t, n, S), NEW x, NEW held \in BOOLEAN,
         NEW o, NEW R,
         x.key \in Keys => n[x.key] \in Nat \ {0},
         \A k \in Keys : o[k] = IF k = x.key THEN n[k] - 1 ELSE n[k],
         S \subseteq IF held THEN R \cup {x.model} ELSE R
  PROVE  Sound(GuardDropped(t, x, held), o, R)
<1> DEFINE ms == [t.models EXCEPT ![x.model] = IF held THEN Dropped(@) ELSE @]
           a == [t EXCEPT !.models = ms]
           ks == [k \in Keys |->
                    IF k = x.key
                    THEN [a.keys[k] EXCEPT
                            !.inflight = IF @ = 0 THEN 0 ELSE @ - 1]
                    ELSE a.keys[k]]
<1>1. GuardDropped(t, x, held) = [a EXCEPT !.keys = ks]
  BY Zenon DEF GuardDropped, WithoutProbe, WithKey
<1>2. Claimed(ms, R)
  <2>1. Claimed(t.models, S)
    BY DEF Sound
  <2>2. CASE held
    <3> DEFINE e == Dropped(t.models[x.model])
    <3>1. x.model \in Models => e \in ModelType /\ ~e.probe
      BY <2>1, EntryTyped, EntryMoves DEF Claimed
    <3>2. ms = [t.models EXCEPT ![x.model] = e]
      BY <2>2
    <3>3. S \subseteq R \cup {x.model}
      BY <2>2
    <3> DEFINE i == x.model
               old == t.models
    <3>4. /\ i \in Models => e \in ModelType
          /\ i \in Models /\ e.probe => i \in R /\ e.state = "HalfOpen"
          /\ S \subseteq R \cup {i}
      BY <3>1, <3>3
    <3>5. Claimed(old, S)
      BY <2>1
    <3> HIDE DEF e, ms, i, old
    <3>6. Claimed([old EXCEPT ![i] = e], R)
      BY <3>4, <3>5, OneModel
    <3> QED BY <3>2, <3>6 DEF i, old
  <2>3. CASE ~held
    <3>1. ms = t.models
      BY <2>1, <2>3 DEF Claimed
    <3> QED BY <2>1, <2>3, <3>1 DEF Claimed
  <2> QED BY <2>2, <2>3
<1> HIDE DEF ms
<1>3. Sound(a, n, R)
  BY <1>2, PutModels
<1> HIDE DEF a
<1>4. Counted(ks, o)
  <2>1. Counted(a.keys, n)
    BY <1>3 DEF Sound
  <2> QED BY <2>1 DEF Counted, KeyType
<1> HIDE DEF ks
<1>5. Sound([a EXCEPT !.keys = ks], o, R)
  BY <1>3, <1>4, PutKeys
<1> QED BY <1>1, <1>5, Zenon

(* The marks count no attempt and claim no slot. *)
LEMMA SuccessSound ==
  ASSUME NEW t, NEW n, NEW S, Sound(t, n, S), NEW x
  PROVE  Sound(NoteSuccess(t, x), n, S)
<1> DEFINE cs == [t.routes EXCEPT ![RouteOf(x)] = [cooling |-> 0, disabled |-> 0]]
           gs == [t.groups EXCEPT ![x.group] = 0]
           ms == [t.models EXCEPT ![x.model] = Served(t.models[x.model])]
           a == [t EXCEPT !.routes = cs]
           b == [a EXCEPT !.groups = gs]
           c == [b EXCEPT !.models = ms]
           ks == [k \in Keys |-> IF k = x.key
                                 THEN [c.keys[k] EXCEPT !.cooling = 0]
                                 ELSE c.keys[k]]
<1>1. NoteSuccess(t, x) = [c EXCEPT !.keys = ks]
  BY Zenon DEF NoteSuccess, WithKey
<1>2. cs \in [Routes -> RouteType]
  <2>1. [cooling |-> 0, disabled |-> 0] \in RouteType
    BY DEF RouteType
  <2> QED BY <2>1 DEF Sound
<1>3. gs \in [Groups -> Nat]
  BY DEF Sound
<1>4. Claimed(ms, S)
  BY MarkedModel DEF Sound
<1> HIDE DEF cs, gs, ms
<1>5. Sound(a, n, S)
  BY <1>2, PutRoutes
<1> HIDE DEF a
<1>6. Sound(b, n, S)
  BY <1>3, <1>5, PutGroups
<1> HIDE DEF b
<1>7. Sound(c, n, S)
  BY <1>4, <1>6, PutModels
<1> HIDE DEF c
<1>8. Counted(ks, n)
  <2>1. Counted(c.keys, n)
    BY <1>7 DEF Sound
  <2> QED BY <2>1 DEF Counted, KeyType
<1> HIDE DEF ks
<1>9. Sound([c EXCEPT !.keys = ks], n, S)
  BY <1>7, <1>8, PutKeys
<1> QED BY <1>1, <1>9, Zenon

LEMMA RejectedSound ==
  ASSUME NEW t, NEW n, NEW S, Sound(t, n, S), NEW x
  PROVE  Sound(NoteRejected(t, x), n, S)
<1> DEFINE ks == [k \in Keys |-> IF k = x.key
                                 THEN [t.keys[k] EXCEPT !.unusable = TRUE,
                                                        !.cooling = 0]
                                 ELSE t.keys[k]]
<1>1. NoteRejected(t, x) = [t EXCEPT !.keys = ks]
  BY Zenon DEF NoteRejected, WithKey
<1>2. Counted(ks, n)
  <2>1. Counted(t.keys, n)
    BY DEF Sound
  <2> QED BY <2>1 DEF Counted, KeyType
<1> HIDE DEF ks
<1>3. Sound([t EXCEPT !.keys = ks], n, S)
  BY <1>2, PutKeys
<1> QED BY <1>1, <1>3, Zenon

LEMMA LimitedSound ==
  ASSUME NEW t, NEW n, NEW S, Sound(t, n, S), NEW x, NEW d \in Nat
  PROVE  Sound(NoteRateLimited(t, x, d), n, S)
<1> DEFINE cs == [t.routes EXCEPT ![RouteOf(x)].cooling = d]
           ms == [t.models EXCEPT ![x.model] =
                    AfterRouteFailure(t.models[x.model], x.group)]
           a == [t EXCEPT !.routes = cs]
<1>1. NoteRateLimited(t, x, d) = [a EXCEPT !.models = ms]
  BY Zenon DEF NoteRateLimited
<1>2. cs \in [Routes -> RouteType]
  <2>1. \A c \in RouteType : [c EXCEPT !.cooling = d] \in RouteType
    BY DEF RouteType
  <2> QED BY <2>1 DEF Sound
<1>3. Claimed(ms, S)
  BY MarkedModel DEF Sound
<1> HIDE DEF cs, ms
<1>4. Sound(a, n, S)
  BY <1>2, PutRoutes
<1> HIDE DEF a
<1>5. Sound([a EXCEPT !.models = ms], n, S)
  BY <1>3, <1>4, PutModels
<1> QED BY <1>1, <1>5, Zenon

LEMMA MissingSound ==
  ASSUME NEW t, NEW n, NEW S, Sound(t, n, S), NEW x
  PROVE  Sound(NoteMissing(t, x), n, S)
<1> DEFINE cs == [t.routes EXCEPT ![RouteOf(x)].disabled = MissingCooldown]
           ms == [t.models EXCEPT ![x.model] =
                    AfterMissing(t.models[x.model], x.group)]
           a == [t EXCEPT !.routes = cs]
<1>1. NoteMissing(t, x) = [a EXCEPT !.models = ms]
  BY Zenon DEF NoteMissing
<1>2. cs \in [Routes -> RouteType]
  <2>1. \A c \in RouteType :
          [c EXCEPT !.disabled = MissingCooldown] \in RouteType
    BY ModelAssumption DEF ModelAssumption, RouteType
  <2> QED BY <2>1 DEF Sound
<1>3. Claimed(ms, S)
  BY MarkedModel DEF Sound
<1> HIDE DEF cs, ms
<1>4. Sound(a, n, S)
  BY <1>2, PutRoutes
<1> HIDE DEF a
<1>5. Sound([a EXCEPT !.models = ms], n, S)
  BY <1>3, <1>4, PutModels
<1> QED BY <1>1, <1>5, Zenon

LEMMA ExhaustedSound ==
  ASSUME NEW t, NEW n, NEW S, Sound(t, n, S), NEW x, NEW d \in Nat
  PROVE  Sound(NoteQuotaExhausted(t, x, d), n, S)
<1> DEFINE ks == [k \in Keys |-> IF Pool[Entries[k]].group = x.group
                                 THEN [t.keys[k] EXCEPT !.cooling = d]
                                 ELSE t.keys[k]]
           gs == [t.groups EXCEPT ![x.group] = d]
           a == [t EXCEPT !.groups = gs]
<1>1. NoteQuotaExhausted(t, x, d) = [a EXCEPT !.keys = ks]
  BY Zenon DEF NoteQuotaExhausted
<1>2. gs \in [Groups -> Nat]
  BY DEF Sound
<1>3. Counted(ks, n)
  <2>1. Counted(t.keys, n)
    BY DEF Sound
  <2> QED BY <2>1 DEF Counted, KeyType
<1> HIDE DEF gs, ks
<1>4. Sound(a, n, S)
  BY <1>2, PutGroups
<1> HIDE DEF a
<1>5. Sound([a EXCEPT !.keys = ks], n, S)
  BY <1>3, <1>4, PutKeys
<1> QED BY <1>1, <1>5, Zenon

LEMMA QuotaSound ==
  ASSUME NEW t, NEW n, NEW S, Sound(t, n, S), NEW x, NEW d \in Nat
  PROVE  Sound(AllLooked(NoteQuotaExhausted(t, x, d)), n, S)
BY ExhaustedSound, LookedSound

LEMMA TransientSound ==
  ASSUME NEW t, NEW n, NEW S, Sound(t, n, S), NEW x, NEW d,
         TransientCooldown(x, d) \in Nat
  PROVE  Sound(NoteTransient(t, x, d), n, S)
<1> DEFINE ms == [t.models EXCEPT ![x.model] =
                    AfterRouteFailure(t.models[x.model], x.group)]
           a == [t EXCEPT !.models = ms]
           ks == [k \in Keys |->
                    IF k = x.key
                    THEN [a.keys[k] EXCEPT !.cooling = IF HasAlternatives(x)
                                                       THEN TransientCooldown(x, d)
                                                       ELSE @]
                    ELSE a.keys[k]]
<1>1. NoteTransient(t, x, d) = [a EXCEPT !.keys = ks]
  BY Zenon DEF NoteTransient, WithKey
<1>2. Claimed(ms, S)
  BY MarkedModel DEF Sound
<1> HIDE DEF ms
<1>3. Sound(a, n, S)
  BY <1>2, PutModels
<1> HIDE DEF a
<1>4. Counted(ks, n)
  <2>1. Counted(a.keys, n)
    BY <1>3 DEF Sound
  <2> QED BY <2>1 DEF Counted, KeyType
<1> HIDE DEF ks
<1>5. Sound([a EXCEPT !.keys = ks], n, S)
  BY <1>3, <1>4, PutKeys
<1> QED BY <1>1, <1>5, Zenon

(* A cooldown asked for on a failure is one the table can keep. *)
LEMMA TransientWithin ==
  ASSUME NEW x, NEW d \in Nat
  PROVE  TransientCooldown(x, d) \in 0 .. d
<1>1. KeyStep \in Nat
  BY TableAssumption DEF TableAssumption
<1>2. Min({d, KeyStep}) \in {d, KeyStep} /\ Min({d, KeyStep}) <= d
  BY <1>1 DEF Min
<1> QED BY <1>1, <1>2 DEF TransientCooldown

LEMMA CooldownsNatural ==
  ASSUME NEW d \in RouteCooldowns \cup QuotaOpen
  PROVE  d \in Nat /\ \A x : TransientCooldown(x, d) \in Nat
BY TransientWithin, TableAssumption, BreakerAssumption
DEF TableAssumption, BreakerAssumption

-----------------------------------------------------------------------------
(* What the end of an attempt at x, or its dialing, leaves alone: routes   *)
(* other than its own, other accounts, keys other than its own and not of  *)
(* its account, what the other models show.  No credential is forgiven,    *)
(* and only its model is charged, with its account.                        *)
SameHealth(ks, js, k) ==
  js[k].cooling = ks[k].cooling /\ js[k].unusable = ks[k].unusable

KeysNear(ks, js, x) ==
  \A k \in Keys :
    /\ ks[k].unusable => js[k].unusable
    /\ k # x.key /\ Pool[Entries[k]].group # x.group => SameHealth(ks, js, k)

RoutesNear(cs, ds, x) ==
  \A c \in Routes : c # RouteOf(x) => ds[c] = cs[c]

GroupsNear(gs, hs, x) ==
  \A g \in Groups : g # x.group => hs[g] = gs[g]

Accused(ms, ns, x) ==
  \A m \in Models :
    Charged(ms[m], ns[m], IF m = x.model THEN {x.group} ELSE {})

Unaccused(ms, ns) == \A m \in Models : Charged(ms[m], ns[m], {})

ModelsNear(ms, ns, x) ==
  /\ \A m \in Models : m # x.model => Viewed(ns[m]) = Viewed(ms[m])
  /\ Accused(ms, ns, x)

Near(t, u, x) ==
  /\ KeysNear(t.keys, u.keys, x)
  /\ RoutesNear(t.routes, u.routes, x)
  /\ GroupsNear(t.groups, u.groups, x)
  /\ ModelsNear(t.models, u.models, x)

(* What looking at models, and beginning an attempt, leaves alone. *)
Calm(t, u) ==
  /\ \A k \in Keys : SameHealth(t.keys, u.keys, k)
  /\ u.routes = t.routes
  /\ u.groups = t.groups
  /\ Unaccused(t.models, u.models)

LEMMA NobodyAccused ==
  ASSUME NEW ms, NEW ns, Unaccused(ms, ns), NEW x
  PROVE  Accused(ms, ns, x)
BY ChargedMore DEF Unaccused, Accused

LEMMA Unchanged ==
  ASSUME NEW ms, NEW S, Claimed(ms, S)
  PROVE  /\ Unaccused(ms, ms)
         /\ \A x : ModelsNear(ms, ms, x)
<1>1. Unaccused(ms, ms)
  BY ChargedSelf DEF Claimed, Unaccused
<1> QED BY <1>1, NobodyAccused DEF ModelsNear

LEMMA NearItself ==
  ASSUME NEW t, NEW n, NEW S, Sound(t, n, S), NEW x
  PROVE  Near(t, t, x)
BY Unchanged DEF Sound, Near, KeysNear, RoutesNear, GroupsNear, SameHealth

LEMMA AccusedThen ==
  ASSUME NEW ms, NEW ns, NEW os, NEW x, Accused(ms, ns, x), Accused(ns, os, x)
  PROVE  Accused(ms, os, x)
<1> SUFFICES ASSUME NEW m \in Models
             PROVE  Charged(ms[m], os[m], IF m = x.model THEN {x.group} ELSE {})
  BY DEF Accused
<1> DEFINE G == IF m = x.model THEN {x.group} ELSE {}
<1>1. \A g, h \in G : g = h
  OBVIOUS
<1>2. Charged(ms[m], ns[m], G) /\ Charged(ns[m], os[m], G)
  BY DEF Accused
<1> HIDE DEF G
<1>3. Charged(ms[m], os[m], G)
  BY <1>1, <1>2, ChargedThen
<1> QED BY <1>3 DEF G

LEMMA NearThenNear ==
  ASSUME NEW t, NEW u, NEW v, NEW x, Near(t, u, x), Near(u, v, x)
  PROVE  Near(t, v, x)
<1>1. KeysNear(t.keys, v.keys, x)
  BY DEF Near, KeysNear, SameHealth
<1>2. RoutesNear(t.routes, v.routes, x) /\ GroupsNear(t.groups, v.groups, x)
  BY DEF Near, RoutesNear, GroupsNear
<1>3. ModelsNear(t.models, v.models, x)
  BY AccusedThen DEF Near, ModelsNear
<1> QED BY <1>1, <1>2, <1>3 DEF Near

LEMMA MarkedNear ==
  ASSUME NEW ms, NEW S, Claimed(ms, S), NEW x, NEW e,
         x.model \in Models => Charged(ms[x.model], e, {x.group})
  PROVE  ModelsNear(ms, [ms EXCEPT ![x.model] = e], x)
<1> DEFINE ns == [ms EXCEPT ![x.model] = e]
<1>1. /\ \A m \in Models : m # x.model => ns[m] = ms[m]
      /\ x.model \in Models => ns[x.model] = e
  BY DEF Claimed
<1> HIDE DEF ns
<1>2. \A m \in Models : Charged(ms[m], ms[m], {})
  BY ChargedSelf DEF Claimed
<1>3. Accused(ms, ns, x)
  BY <1>1, <1>2 DEF Accused
<1>4. ModelsNear(ms, ns, x)
  BY <1>1, <1>3 DEF ModelsNear
<1> QED BY <1>4 DEF ns

(* The marks on a model charge it with the account of the attempt. *)
LEMMA MarksNear ==
  ASSUME NEW ms, NEW S, Claimed(ms, S), NEW x
  PROVE  /\ ModelsNear(ms, [ms EXCEPT ![x.model] = Served(ms[x.model])], x)
         /\ ModelsNear(ms, [ms EXCEPT ![x.model] =
                              AfterRouteFailure(ms[x.model], x.group)], x)
         /\ ModelsNear(ms, [ms EXCEPT ![x.model] =
                              AfterMissing(ms[x.model], x.group)], x)
<1> DEFINE e == ms[x.model]
           g == x.group
<1>1. x.model \in Models => e \in ModelType
  BY DEF Claimed
<1> HIDE DEF e, g
<1>2. x.model \in Models => /\ Charged(e, Served(e), {g})
                            /\ Charged(e, AfterRouteFailure(e, g), {g})
                            /\ Charged(e, AfterMissing(e, g), {g})
  BY <1>1, EntryCharged, ChargedMore
<1> USE DEF e, g
<1>3. ModelsNear(ms, [ms EXCEPT ![x.model] = Served(e)], x)
  BY <1>2, MarkedNear
<1>4. ModelsNear(ms, [ms EXCEPT ![x.model] = AfterRouteFailure(e, g)], x)
  BY <1>2, MarkedNear
<1>5. ModelsNear(ms, [ms EXCEPT ![x.model] = AfterMissing(e, g)], x)
  BY <1>2, MarkedNear
<1> QED BY <1>3, <1>4, <1>5

LEMMA HealedNear ==
  ASSUME NEW ks, NEW n, Counted(ks, n), NEW x, NEW js,
         \A k \in Keys :
           IF k = x.key
           THEN ks[k].unusable => js[k].unusable
           ELSE js[k] = ks[k]
  PROVE  KeysNear(ks, js, x)
BY DEF KeysNear, SameHealth

LEMMA SuccessNear ==
  ASSUME NEW t, NEW n, NEW S, Sound(t, n, S), NEW x
  PROVE  Near(t, NoteSuccess(t, x), x)
<1> DEFINE cs == [t.routes EXCEPT ![RouteOf(x)] = [cooling |-> 0, disabled |-> 0]]
           gs == [t.groups EXCEPT ![x.group] = 0]
           ms == [t.models EXCEPT ![x.model] = Served(t.models[x.model])]
           a == [t EXCEPT !.routes = cs]
           b == [a EXCEPT !.groups = gs]
           c == [b EXCEPT !.models = ms]
           ks == [k \in Keys |-> IF k = x.key
                                 THEN [c.keys[k] EXCEPT !.cooling = 0]
                                 ELSE c.keys[k]]
           u == [c EXCEPT !.keys = ks]
<1>1. NoteSuccess(t, x) = u
  BY Zenon DEF NoteSuccess, WithKey
<1>2. RoutesNear(t.routes, cs, x)
  BY DEF Sound, RoutesNear
<1>3. GroupsNear(t.groups, gs, x)
  BY DEF Sound, GroupsNear
<1>4. ModelsNear(t.models, ms, x)
  BY MarksNear DEF Sound
<1> HIDE DEF cs, gs, ms
<1>5. a = [keys |-> t.keys, routes |-> cs, groups |-> t.groups,
           models |-> t.models]
  BY DEF Sound
<1> HIDE DEF a
<1>6. b = [keys |-> t.keys, routes |-> cs, groups |-> gs, models |-> t.models]
  BY <1>5
<1> HIDE DEF b
<1>7. c = [keys |-> t.keys, routes |-> cs, groups |-> gs, models |-> ms]
  BY <1>6
<1> HIDE DEF c
<1>8. KeysNear(t.keys, ks, x)
  BY <1>7, HealedNear DEF Sound, Counted, KeyType
<1> HIDE DEF ks
<1>9. u = [keys |-> ks, routes |-> cs, groups |-> gs, models |-> ms]
  BY <1>7
<1> HIDE DEF u
<1>10. Near(t, u, x)
  BY <1>2, <1>3, <1>4, <1>8, <1>9 DEF Near
<1> QED BY <1>1, <1>10, Zenon
LEMMA RejectedNear ==
  ASSUME NEW t, NEW n, NEW S, Sound(t, n, S), NEW x
  PROVE  Near(t, NoteRejected(t, x), x)
<1> DEFINE ks == [k \in Keys |-> IF k = x.key
                                 THEN [t.keys[k] EXCEPT !.unusable = TRUE,
                                                        !.cooling = 0]
                                 ELSE t.keys[k]]
           u == [t EXCEPT !.keys = ks]
<1>1. NoteRejected(t, x) = u
  BY Zenon DEF NoteRejected, WithKey
<1>2. KeysNear(t.keys, ks, x)
  BY HealedNear DEF Sound, Counted, KeyType
<1> HIDE DEF ks
<1>3. u = [keys |-> ks, routes |-> t.routes, groups |-> t.groups,
           models |-> t.models]
  BY DEF Sound
<1> HIDE DEF u
<1>4. ModelsNear(t.models, t.models, x)
  BY Unchanged DEF Sound
<1>5. Near(t, u, x)
  BY <1>2, <1>3, <1>4 DEF Near, RoutesNear, GroupsNear
<1> QED BY <1>1, <1>5, Zenon

LEMMA LimitedNear ==
  ASSUME NEW t, NEW n, NEW S, Sound(t, n, S), NEW x, NEW d
  PROVE  Near(t, NoteRateLimited(t, x, d), x)
<1> DEFINE cs == [t.routes EXCEPT ![RouteOf(x)].cooling = d]
           ms == [t.models EXCEPT ![x.model] =
                    AfterRouteFailure(t.models[x.model], x.group)]
           a == [t EXCEPT !.routes = cs]
           u == [a EXCEPT !.models = ms]
<1>1. NoteRateLimited(t, x, d) = u
  BY Zenon DEF NoteRateLimited
<1>2. RoutesNear(t.routes, cs, x)
  BY DEF Sound, RoutesNear
<1>3. ModelsNear(t.models, ms, x)
  BY MarksNear DEF Sound
<1> HIDE DEF cs, ms
<1>4. a = [keys |-> t.keys, routes |-> cs, groups |-> t.groups,
           models |-> t.models]
  BY DEF Sound
<1> HIDE DEF a
<1>5. u = [keys |-> t.keys, routes |-> cs, groups |-> t.groups, models |-> ms]
  BY <1>4
<1> HIDE DEF u
<1>6. Near(t, u, x)
  BY <1>2, <1>3, <1>5 DEF Near, KeysNear, GroupsNear, SameHealth
<1> QED BY <1>1, <1>6, Zenon

LEMMA MissingNear ==
  ASSUME NEW t, NEW n, NEW S, Sound(t, n, S), NEW x
  PROVE  Near(t, NoteMissing(t, x), x)
<1> DEFINE cs == [t.routes EXCEPT ![RouteOf(x)].disabled = MissingCooldown]
           ms == [t.models EXCEPT ![x.model] =
                    AfterMissing(t.models[x.model], x.group)]
           a == [t EXCEPT !.routes = cs]
           u == [a EXCEPT !.models = ms]
<1>1. NoteMissing(t, x) = u
  BY Zenon DEF NoteMissing
<1>2. RoutesNear(t.routes, cs, x)
  BY DEF Sound, RoutesNear
<1>3. ModelsNear(t.models, ms, x)
  BY MarksNear DEF Sound
<1> HIDE DEF cs, ms
<1>4. a = [keys |-> t.keys, routes |-> cs, groups |-> t.groups,
           models |-> t.models]
  BY DEF Sound
<1> HIDE DEF a
<1>5. u = [keys |-> t.keys, routes |-> cs, groups |-> t.groups, models |-> ms]
  BY <1>4
<1> HIDE DEF u
<1>6. Near(t, u, x)
  BY <1>2, <1>3, <1>5 DEF Near, KeysNear, GroupsNear, SameHealth
<1> QED BY <1>1, <1>6, Zenon

LEMMA TransientNear ==
  ASSUME NEW t, NEW n, NEW S, Sound(t, n, S), NEW x, NEW d
  PROVE  Near(t, NoteTransient(t, x, d), x)
<1> DEFINE ms == [t.models EXCEPT ![x.model] =
                    AfterRouteFailure(t.models[x.model], x.group)]
           a == [t EXCEPT !.models = ms]
           ks == [k \in Keys |->
                    IF k = x.key
                    THEN [a.keys[k] EXCEPT !.cooling = IF HasAlternatives(x)
                                                       THEN TransientCooldown(x, d)
                                                       ELSE @]
                    ELSE a.keys[k]]
           u == [a EXCEPT !.keys = ks]
<1>1. NoteTransient(t, x, d) = u
  BY Zenon DEF NoteTransient, WithKey
<1>2. ModelsNear(t.models, ms, x)
  BY MarksNear DEF Sound
<1> HIDE DEF ms
<1>3. a = [keys |-> t.keys, routes |-> t.routes, groups |-> t.groups,
           models |-> ms]
  BY DEF Sound
<1> HIDE DEF a
<1>4. KeysNear(t.keys, ks, x)
  BY <1>3, HealedNear DEF Sound, Counted, KeyType
<1> HIDE DEF ks
<1>5. u = [keys |-> ks, routes |-> t.routes, groups |-> t.groups, models |-> ms]
  BY <1>3
<1> HIDE DEF u
<1>6. Near(t, u, x)
  BY <1>2, <1>4, <1>5 DEF Near, RoutesNear, GroupsNear
<1> QED BY <1>1, <1>6, Zenon

LEMMA QuotaNear ==
  ASSUME NEW t, NEW n, NEW S, Sound(t, n, S), NEW x, NEW d
  PROVE  Near(t, NoteQuotaExhausted(t, x, d), x)
<1> DEFINE ks == [k \in Keys |-> IF Pool[Entries[k]].group = x.group
                                 THEN [t.keys[k] EXCEPT !.cooling = d]
                                 ELSE t.keys[k]]
           gs == [t.groups EXCEPT ![x.group] = d]
           a == [t EXCEPT !.groups = gs]
           u == [a EXCEPT !.keys = ks]
<1>1. NoteQuotaExhausted(t, x, d) = u
  BY Zenon DEF NoteQuotaExhausted
<1>2. GroupsNear(t.groups, gs, x)
  BY DEF Sound, GroupsNear
<1>3. KeysNear(t.keys, ks, x)
  BY DEF Sound, Counted, KeyType, KeysNear, SameHealth
<1> HIDE DEF gs, ks
<1>4. a = [keys |-> t.keys, routes |-> t.routes, groups |-> gs,
           models |-> t.models]
  BY DEF Sound
<1> HIDE DEF a
<1>5. u = [keys |-> ks, routes |-> t.routes, groups |-> gs, models |-> t.models]
  BY <1>4
<1> HIDE DEF u
<1>6. ModelsNear(t.models, t.models, x)
  BY Unchanged DEF Sound
<1>7. Near(t, u, x)
  BY <1>2, <1>3, <1>5, <1>6 DEF Near, RoutesNear
<1> QED BY <1>1, <1>7, Zenon

LEMMA ViewedTwice ==
  ASSUME NEW m \in ModelType
  PROVE  Viewed(Viewed(m)) = Viewed(m)
<1> DEFINE h == HalfOpened(m)
<1>1. /\ h \in ModelType
      /\ ~(h.state = "Open" /\ h.timer = 0)
  BY DEF HalfOpened, ModelType
<1>2. Viewed(m) = Recovered(h)
  BY DEF Viewed
<1> HIDE DEF h
<1>3. /\ Recovered(h).state = h.state /\ Recovered(h).timer = h.timer
      /\ ~(Recovered(h).disabled /\ Recovered(h).back = 0)
  BY <1>1 DEF Recovered, ModelType
<1>4. HalfOpened(Recovered(h)) = Recovered(h)
  BY <1>1, <1>3 DEF HalfOpened
<1>5. Recovered(Recovered(h)) = Recovered(h)
  BY <1>3 DEF Recovered
<1> QED BY <1>2, <1>4, <1>5 DEF Viewed

LEMMA LookedNear ==
  ASSUME NEW t, NEW n, NEW S, Sound(t, n, S), NEW x, NEW viewed
  PROVE  LET u == [t EXCEPT !.models =
                     [m \in Models |-> IF m \in viewed THEN Viewed(t.models[m])
                                       ELSE t.models[m]]]
         IN  Calm(t, u) /\ Near(t, u, x)
<1> DEFINE ms == [m \in Models |-> IF m \in viewed THEN Viewed(t.models[m])
                                   ELSE t.models[m]]
           u == [t EXCEPT !.models = ms]
<1>1. Unaccused(t.models, ms)
  BY EntryCharged, ChargedSelf DEF Sound, Claimed, Unaccused
<1>3. \A m \in Models : Viewed(ms[m]) = Viewed(t.models[m])
  BY ViewedTwice DEF Sound, Claimed
<1> HIDE DEF ms
<1>4. ModelsNear(t.models, ms, x)
  BY <1>1, <1>3, NobodyAccused DEF ModelsNear
<1>2. u = [keys |-> t.keys, routes |-> t.routes, groups |-> t.groups,
           models |-> ms]
  BY DEF Sound
<1> HIDE DEF u
<1>5. Calm(t, u) /\ Near(t, u, x)
  BY <1>1, <1>2, <1>4
  DEF Calm, Near, KeysNear, RoutesNear, GroupsNear, SameHealth
<1> QED BY <1>5, Zenon DEF u, ms

LEMMA LooksAreNear ==
  ASSUME NEW t, NEW n, NEW S, Sound(t, n, S), NEW x
  PROVE  /\ Near(t, AllLooked(t), x)
         /\ \A rot, skip : Calm(t, Looked(t, rot, skip))
<1>1. Near(t, AllLooked(t), x)
  <2> DEFINE u == [t EXCEPT !.models =
                     [m \in Models |-> IF m \in Models THEN Viewed(t.models[m])
                                       ELSE t.models[m]]]
  <2>1. Near(t, u, x)
    BY LookedNear, Zenon
  <2>2. [m \in Models |-> IF m \in Models THEN Viewed(t.models[m])
                          ELSE t.models[m]]
          = [m \in Models |-> Viewed(t.models[m])]
    OBVIOUS
  <2>3. AllLooked(t) = u
    BY <2>2, Zenon DEF AllLooked
  <2> HIDE DEF u
  <2> QED BY <2>1, <2>3, Zenon
<1>2. ASSUME NEW rot, NEW skip PROVE Calm(t, Looked(t, rot, skip))
  <2>1. PICK viewed : Looked(t, rot, skip) =
               [t EXCEPT !.models = [m \in Models |-> IF m \in viewed
                                                      THEN Viewed(t.models[m])
                                                      ELSE t.models[m]]]
    BY Zenon DEF Looked
  <2> DEFINE u == [t EXCEPT !.models = [m \in Models |-> IF m \in viewed
                                                         THEN Viewed(t.models[m])
                                                         ELSE t.models[m]]]
  <2>2. Calm(t, u)
    BY LookedNear, Zenon
  <2> HIDE DEF u
  <2>3. Looked(t, rot, skip) = u
    BY <2>1, Zenon DEF u
  <2> QED BY <2>2, <2>3, Zenon
<1> QED BY <1>1, <1>2

LEMMA QuotaLookedNear ==
  ASSUME NEW t, NEW n, NEW S, Sound(t, n, S), NEW x, NEW d \in Nat
  PROVE  Near(t, AllLooked(NoteQuotaExhausted(t, x, d)), x)
<1>1. Sound(NoteQuotaExhausted(t, x, d), n, S)
  BY ExhaustedSound
<1>2. Near(NoteQuotaExhausted(t, x, d), AllLooked(NoteQuotaExhausted(t, x, d)), x)
  BY <1>1, LooksAreNear
<1> QED BY <1>2, QuotaNear, NearThenNear

(* The guard gives back what the attempt held, and no more. *)
LEMMA DropNear ==
  ASSUME NEW t, NEW n, NEW S, Sound(t, n, S), NEW x, NEW held \in BOOLEAN
  PROVE  Near(t, GuardDropped(t, x, held), x)
<1> DEFINE ms == [t.models EXCEPT ![x.model] = IF held THEN Dropped(@) ELSE @]
           a == [t EXCEPT !.models = ms]
           ks == [k \in Keys |->
                    IF k = x.key
                    THEN [a.keys[k] EXCEPT
                            !.inflight = IF @ = 0 THEN 0 ELSE @ - 1]
                    ELSE a.keys[k]]
           u == [a EXCEPT !.keys = ks]
<1>1. GuardDropped(t, x, held) = u
  BY Zenon DEF GuardDropped, WithoutProbe, WithKey
<1>2. ModelsNear(t.models, ms, x)
  <2> DEFINE e == t.models[x.model]
             d == IF held THEN Dropped(e) ELSE e
  <2>1. x.model \in Models => e \in ModelType
    BY DEF Sound, Claimed
  <2> HIDE DEF e
  <2>2. x.model \in Models => Charged(e, d, {x.group})
    BY <2>1, EntryCharged, ChargedSelf, ChargedMore
  <2> USE DEF e
  <2>3. ModelsNear(t.models, [t.models EXCEPT ![x.model] = d], x)
    BY <2>2, MarkedNear DEF Sound
  <2> QED BY <2>3
<1> HIDE DEF ms
<1>3. a = [keys |-> t.keys, routes |-> t.routes, groups |-> t.groups,
           models |-> ms]
  BY DEF Sound
<1> HIDE DEF a
<1>4. KeysNear(t.keys, ks, x)
  BY <1>3, HealedNear DEF Sound, Counted, KeyType
<1> HIDE DEF ks
<1>5. u = [keys |-> ks, routes |-> t.routes, groups |-> t.groups, models |-> ms]
  BY <1>3
<1> HIDE DEF u
<1>6. Near(t, u, x)
  BY <1>2, <1>4, <1>5 DEF Near, RoutesNear, GroupsNear
<1> QED BY <1>1, <1>6, Zenon

(* An attempt that begins is counted; no health changes. *)
LEMMA BeginCalm ==
  ASSUME NEW t, NEW n, NEW S, Sound(t, n, S), NEW x
  PROVE  Calm(t, BeginAttempt(t, x))
<1> DEFINE ms == [t.models EXCEPT ![x.model] = AfterBegin(t.models[x.model])]
           a == [t EXCEPT !.models = ms]
           ks == [k \in Keys |-> IF k = x.key
                                 THEN [a.keys[k] EXCEPT !.inflight = @ + 1]
                                 ELSE a.keys[k]]
           u == [a EXCEPT !.keys = ks]
<1>1. BeginAttempt(t, x) = u
  BY Zenon DEF BeginAttempt, WithKey
<1>6. Unaccused(t.models, ms)
  <2>1. \A m \in Models : t.models[m] \in ModelType
    BY DEF Sound, Claimed
  <2>2. \A m \in Models :
          ms[m] \in {t.models[m], AfterBegin(t.models[m])}
    BY DEF Sound, Claimed
  <2> QED BY <2>1, <2>2, EntryCharged, ChargedSelf DEF Unaccused
<1> HIDE DEF ms
<1>2. a = [keys |-> t.keys, routes |-> t.routes, groups |-> t.groups,
           models |-> ms]
  BY DEF Sound
<1> HIDE DEF a
<1>3. \A k \in Keys : SameHealth(t.keys, ks, k)
  BY <1>2 DEF Sound, Counted, KeyType, SameHealth
<1> HIDE DEF ks
<1>4. u = [keys |-> ks, routes |-> t.routes, groups |-> t.groups, models |-> ms]
  BY <1>2
<1> HIDE DEF u
<1>5. Calm(t, u)
  BY <1>3, <1>4, <1>6 DEF Calm
<1> QED BY <1>1, <1>5, Zenon

-----------------------------------------------------------------------------
(* The attempts in flight on a key, and the models whose slot they hold.   *)
On(k) == {r \in In({"dialing"}) : target[r].key = k}
Counts == [k \in Keys |-> Cardinality(On(k))]
Claims == {target[r].model : r \in holds}

ReservationInv ==
  /\ BudgetInv
  /\ target = [r \in Requests |-> target[r]]
  /\ candidate = [r \in Requests |-> candidate[r]]
  /\ IsFiniteSet(In({"dialing"}))
  /\ holds \subseteq In({"dialing"})
  /\ Sound(table, Counts, Claims)

Retargeted(r) ==
  /\ target' = target \/ \E x : target' = [target EXCEPT ![r] = x]
  /\ candidate' = candidate \/ \E x : candidate' = [candidate EXCEPT ![r] = x]

LEMMA CountsNatural ==
  ASSUME ReservationInv, NEW k
  PROVE  IsFiniteSet(On(k)) /\ Cardinality(On(k)) \in Nat
<1>1. On(k) \subseteq In({"dialing"})
  BY DEF On
<1> QED BY <1>1, FS_Subset, FS_CardinalityType DEF ReservationInv

LEMMA ReservationInit == Init => ReservationInv
<1> SUFFICES ASSUME Init PROVE ReservationInv
  OBVIOUS
<1>1. In({"dialing"}) = {}
  BY DEF Init, In
<1>2. IsFiniteSet({}) /\ Cardinality({}) = 0
  BY FS_EmptySet
<1>3. \A k \in Keys : Counts[k] = 0
  BY <1>1, <1>2 DEF Counts, On
<1>4. Counted(table.keys, Counts)
  BY <1>3 DEF Init, NewTable, Counted, KeyType
<1>5. Claimed(table.models, Claims)
  <2>1. NewModel \in ModelType /\ ~NewModel.probe
    BY NewModelTyped DEF NewModel
  <2> QED BY <2>1 DEF Init, NewTable, Claimed
<1>6. Sound(table, Counts, Claims)
  BY <1>4, <1>5 DEF Init, NewTable, Sound, RouteType
<1>7. /\ target = [r \in Requests |-> target[r]]
      /\ candidate = [r \in Requests |-> candidate[r]]
  BY DEF Init
<1> QED BY <1>1, <1>2, <1>6, <1>7, BudgetInvInit DEF Init, ReservationInv

(* A request that is not, and will not be, in an attempt.                  *)
LEMMA QuietStep ==
  ASSUME ReservationInv, NEW r \in Requests, pc[r] # "dialing",
         NEW s, s # "dialing", pc' = [pc EXCEPT ![r] = s],
         Retargeted(r), holds' \in {holds, holds \ {r}},
         Sound(table', Counts, Claims)
  PROVE  /\ target' = [q \in Requests |-> target'[q]]
         /\ candidate' = [q \in Requests |-> candidate'[q]]
         /\ IsFiniteSet(In({"dialing"})')
         /\ holds' \subseteq In({"dialing"})'
         /\ Sound(table', Counts', Claims')
<1> USE DEF ReservationInv
<1>1. /\ target' = [q \in Requests |-> target'[q]]
      /\ candidate' = [q \in Requests |-> candidate'[q]]
  BY DEF Retargeted
<1>2. In({"dialing"})' = In({"dialing"})
  BY DEF In, BudgetInv
<1>3. holds' = holds
  BY DEF In
<1>4. \A q \in In({"dialing"}) : target'[q] = target[q]
  BY DEF Retargeted, In
<1>5. \A k : On(k)' = On(k)
  BY <1>2, <1>4 DEF On
<1>6. Counts' = Counts
  BY <1>5 DEF Counts
<1>7. Claims' = Claims
  BY <1>3, <1>4 DEF Claims
<1> QED BY <1>1, <1>2, <1>3, <1>6, <1>7

LEMMA DialStep ==
  ASSUME ReservationInv, NEW r \in Requests, Dial(r)
  PROVE  /\ target' = [q \in Requests |-> target'[q]]
         /\ candidate' = [q \in Requests |-> candidate'[q]]
         /\ IsFiniteSet(In({"dialing"})')
         /\ holds' \subseteq In({"dialing"})'
         /\ Sound(table', Counts', Claims')
<1> USE DEF ReservationInv
<1> DEFINE x == target[r]
<1>1. /\ pc[r] = "planned" /\ pc' = [pc EXCEPT ![r] = "dialing"]
      /\ target' = target /\ candidate' = candidate
  BY DEF Dial, Goto
<1>2. /\ In({"dialing"})' = In({"dialing"}) \cup {r}
      /\ r \notin In({"dialing"})
  BY <1>1 DEF In, BudgetInv
<1>3. IsFiniteSet(In({"dialing"})')
  BY <1>2, FS_AddElement
<1>4. holds' \subseteq In({"dialing"})'
  BY <1>2 DEF Dial
<1>5. \A k \in Keys : Counts'[k] = IF k = x.key THEN Counts[k] + 1 ELSE Counts[k]
  <2>1. ASSUME NEW k \in Keys, k = x.key
        PROVE  Cardinality(On(k)') = Cardinality(On(k)) + 1
    <3>1. On(k)' = On(k) \cup {r} /\ r \notin On(k)
      BY <1>1, <1>2, <2>1 DEF On
    <3> QED BY <3>1, CountsNatural, FS_AddElement
  <2>2. ASSUME NEW k \in Keys, k # x.key
        PROVE  On(k)' = On(k)
    BY <1>1, <1>2, <2>2 DEF On
  <2> QED BY <2>1, <2>2 DEF Counts
<1>6. Claims \subseteq Claims'
  BY <1>1 DEF Claims, Dial
<1>7. TakesProbe(table.models[x.model]) => x.model \in Claims'
  BY <1>1 DEF Claims, Dial
<1>8. table' = BeginAttempt(table, x)
  BY DEF Dial
<1> HIDE DEF x
<1>9. Sound(table', Counts', Claims')
  BY <1>5, <1>6, <1>7, <1>8, BeginSound
<1> QED BY <1>1, <1>3, <1>4, <1>9

(* The end of an attempt, with whatever it marks. *)
LEMMA EndStep ==
  ASSUME ReservationInv, NEW r \in Requests, pc[r] = "dialing",
         NEW s, s # "dialing", pc' = [pc EXCEPT ![r] = s],
         Retargeted(r), holds' = holds \ {r},
         NEW marked, Sound(marked, Counts, Claims),
         table' = Unguarded(r, marked)
  PROVE  /\ target' = [q \in Requests |-> target'[q]]
         /\ candidate' = [q \in Requests |-> candidate'[q]]
         /\ IsFiniteSet(In({"dialing"})')
         /\ holds' \subseteq In({"dialing"})'
         /\ Sound(table', Counts', Claims')
<1> USE DEF ReservationInv
<1> DEFINE x == target[r]
<1>1. /\ target' = [q \in Requests |-> target'[q]]
      /\ candidate' = [q \in Requests |-> candidate'[q]]
  BY DEF Retargeted
<1>2. In({"dialing"})' = In({"dialing"}) \ {r} /\ r \in In({"dialing"})
  BY DEF In, BudgetInv
<1>3. IsFiniteSet(In({"dialing"})')
  BY <1>2, FS_RemoveElement
<1>4. holds' \subseteq In({"dialing"})'
  BY <1>2
<1>5. \A q \in In({"dialing"})' : target'[q] = target[q]
  BY <1>2 DEF Retargeted, In
<1>6. /\ \A k \in Keys : Counts'[k] = IF k = x.key THEN Counts[k] - 1 ELSE Counts[k]
      /\ x.key \in Keys => Counts[x.key] \in Nat \ {0}
  <2>1. ASSUME NEW k \in Keys, k = x.key
        PROVE  /\ Cardinality(On(k)') = Cardinality(On(k)) - 1
               /\ Cardinality(On(k)) \in Nat \ {0}
    <3>1. On(k)' = On(k) \ {r} /\ r \in On(k)
      BY <1>2, <1>5, <2>1 DEF On
    <3>2. Cardinality(On(k)') = Cardinality(On(k)) - 1
      BY <3>1, CountsNatural, FS_RemoveElement
    <3>3. Cardinality(On(k)') \in Nat
      <4>1. IsFiniteSet(On(k)')
        BY <3>1, CountsNatural, FS_Subset
      <4> QED BY <4>1, FS_CardinalityType
    <3> QED BY <3>2, <3>3, CountsNatural
  <2>2. ASSUME NEW k \in Keys, k # x.key
        PROVE  On(k)' = On(k)
    BY <1>2, <1>5, <2>2 DEF On
  <2> QED BY <2>1, <2>2 DEF Counts
<1>7. Claims \subseteq IF r \in holds THEN Claims' \cup {x.model} ELSE Claims'
  BY <1>2, <1>4, <1>5 DEF Claims
<1>8. table' = GuardDropped(marked, x, r \in holds)
  BY DEF Unguarded
<1> DEFINE held == r \in holds
<1>10. held \in BOOLEAN /\ Claims \subseteq IF held THEN Claims' \cup {x.model} ELSE Claims'
  BY <1>7
<1>11. table' = GuardDropped(marked, x, held)
  BY <1>8
<1>12. Sound(marked, Counts, Claims)
  OBVIOUS
<1> HIDE DEF x, held
<1>13. Sound(GuardDropped(marked, x, held), Counts', Claims')
  BY <1>6, <1>10, <1>12, DropSound
<1>9. Sound(table', Counts', Claims')
  BY <1>11, <1>13
<1> QED BY <1>1, <1>3, <1>4, <1>9

LEMMA ReturnsTo ==
  ASSUME NEW r, NEW answer, Return(r, answer)
  PROVE  /\ pc' = [pc EXCEPT ![r] = "done"] /\ Retargeted(r)
         /\ holds' = holds \ {r}
BY DEF Return, Retargeted

LEMMA SleepsTo ==
  ASSUME NEW r, NEW d, Sleep(r, d), UNCHANGED candidate
  PROVE  /\ \E s : s # "dialing" /\ pc' = [pc EXCEPT ![r] = s]
         /\ Retargeted(r)
<1>1. Retargeted(r)
  BY DEF Sleep, Retargeted
<1>2. pc' = [pc EXCEPT ![r] = IF d > 0 THEN "sleeping" ELSE "routing"]
  BY DEF Sleep, Goto
<1>3. (IF d > 0 THEN "sleeping" ELSE "routing") # "dialing"
  OBVIOUS
<1> QED BY <1>1, <1>2, <1>3

(* Each outcome marks the table soundly and takes the request out of its   *)
(* attempt.                                                                *)
LEMMA OutcomeMarks ==
  ASSUME ReservationInv, NEW r \in Requests, Outcome(r)
  PROVE  /\ pc[r] = "dialing" /\ Retargeted(r) /\ holds' = holds \ {r}
         /\ \E s : s # "dialing" /\ pc' = [pc EXCEPT ![r] = s]
         /\ \E marked : /\ Sound(marked, Counts, Claims)
                        /\ Near(table, marked, target[r])
                        /\ table' = Unguarded(r, marked)
<1> DEFINE Left == /\ pc[r] = "dialing" /\ Retargeted(r) /\ holds' = holds \ {r}
                   /\ \E s : s # "dialing" /\ pc' = [pc EXCEPT ![r] = s]
           Marked == \E marked : /\ Sound(marked, Counts, Claims)
                                 /\ Near(table, marked, target[r])
                                 /\ table' = Unguarded(r, marked)
<1>0. Sound(table, Counts, Claims)
  BY DEF ReservationInv
<1>1. ASSUME NEW decision \in Deciding, NEW d, NEW marked, NEW outcome,
             Ends(r, outcome), Fails(r, decision, d, marked)
      PROVE  Left /\ table' = Unguarded(r, marked)
  BY <1>1 DEF Fails, Ends, Goto, Deciding, Retargeted
<1>2. ASSUME NEW outcome, NEW answer, Ends(r, outcome), Return(r, answer)
      PROVE  Left
  BY <1>2, ReturnsTo DEF Ends
<1> HIDE DEF Left
<1>3. CASE Answered(r)
  <2>1. Left
    BY <1>2, <1>3 DEF Answered
  <2>2. table' = Unguarded(r, NoteSuccess(table, target[r]))
    BY <1>3 DEF Answered
  <2> QED BY <1>0, <2>1, <2>2, SuccessSound, SuccessNear DEF Left
<1>4. CASE Overloaded(r)
  <2>1. PICK d \in RouteCooldowns :
          Fails(r, "next_attempt", TransientCooldown(target[r], d),
                NoteTransient(table, target[r], d))
    BY <1>4 DEF Overloaded
  <2>2. Left /\ table' = Unguarded(r, NoteTransient(table, target[r], d))
    BY <1>1, <1>4, <2>1 DEF Overloaded, Deciding
  <2>3. /\ Sound(NoteTransient(table, target[r], d), Counts, Claims)
        /\ Near(table, NoteTransient(table, target[r], d), target[r])
    BY <1>0, TransientSound, TransientNear, CooldownsNatural
  <2> QED BY <2>2, <2>3 DEF Left
<1>5. CASE RateLimited(r)
  <2>1. PICK d \in RouteCooldowns :
          Fails(r, "next_attempt", d, NoteRateLimited(table, target[r], d))
    BY <1>5 DEF RateLimited
  <2>2. Left /\ table' = Unguarded(r, NoteRateLimited(table, target[r], d))
    BY <1>1, <1>5, <2>1 DEF RateLimited, Deciding
  <2>3. /\ Sound(NoteRateLimited(table, target[r], d), Counts, Claims)
        /\ Near(table, NoteRateLimited(table, target[r], d), target[r])
    BY <1>0, LimitedSound, LimitedNear, CooldownsNatural
  <2> QED BY <2>2, <2>3 DEF Left
<1>6. CASE QuotaExhausted(r)
  <2>1. PICK d \in QuotaOpen :
          Fails(r, "next_attempt_group", d,
                AllLooked(NoteQuotaExhausted(table, target[r], d)))
    BY <1>6 DEF QuotaExhausted
  <2>2. /\ Left
        /\ table' = Unguarded(r, AllLooked(NoteQuotaExhausted(table, target[r], d)))
    BY <1>1, <1>6, <2>1 DEF QuotaExhausted, Deciding
  <2>3. /\ Sound(AllLooked(NoteQuotaExhausted(table, target[r], d)), Counts, Claims)
        /\ Near(table, AllLooked(NoteQuotaExhausted(table, target[r], d)), target[r])
    BY <1>0, QuotaSound, QuotaLookedNear, CooldownsNatural
  <2> QED BY <2>2, <2>3 DEF Left
<1>7. CASE Rejected(r)
  <2>1. Left /\ table' = Unguarded(r, NoteRejected(table, target[r]))
    BY <1>1, <1>7 DEF Rejected, Deciding
  <2> QED BY <1>0, <2>1, RejectedSound, RejectedNear DEF Left
<1>8. CASE Forbidden(r)
  <2>1. Left /\ table' = Unguarded(r, table)
    BY <1>1, <1>8 DEF Forbidden, Deciding
  <2> QED BY <1>0, <2>1, NearItself DEF Left
<1>9. CASE NotFound(r)
  <2>1. Left /\ table' = Unguarded(r, NoteMissing(table, target[r]))
    BY <1>1, <1>9 DEF NotFound, Deciding
  <2> QED BY <1>0, <2>1, MissingSound, MissingNear DEF Left
<1>10. CASE Invalid(r)
  <2>1. CASE \E d \in RouteCooldowns :
               Fails(r, "next_attempt", TransientCooldown(target[r], d),
                     NoteTransient(table, target[r], d))
    <3>1. PICK d \in RouteCooldowns :
            Fails(r, "next_attempt", TransientCooldown(target[r], d),
                  NoteTransient(table, target[r], d))
      BY <2>1
    <3>2. Left /\ table' = Unguarded(r, NoteTransient(table, target[r], d))
      BY <1>1, <1>10, <3>1 DEF Invalid, Deciding
    <3>3. /\ Sound(NoteTransient(table, target[r], d), Counts, Claims)
          /\ Near(table, NoteTransient(table, target[r], d), target[r])
      BY <1>0, TransientSound, TransientNear, CooldownsNatural
    <3> QED BY <3>2, <3>3 DEF Left
  <2>2. CASE table' = Unguarded(r, table) /\ Return(r, "failure")
    <3>1. Left
      BY <1>2, <1>10, <2>2 DEF Invalid
    <3> QED BY <1>0, <2>2, <3>1, NearItself DEF Left
  <2> QED BY <1>10, <2>1, <2>2 DEF Invalid
<1>11. CASE Unknown(r)
  <2>1. Left /\ table' = Unguarded(r, table)
    BY <1>2, <1>11 DEF Unknown
  <2> QED BY <1>0, <2>1, NearItself DEF Left
<1> QED
  BY <1>3, <1>4, <1>5, <1>6, <1>7, <1>8, <1>9, <1>10, <1>11 DEF Outcome

(* Between attempts the table is looked at, no more. *)
LEMMA QuietMoves ==
  ASSUME ReservationInv, NEW r \in Requests,
         \/ Arrive(r) \/ Route(r) \/ Choose(r) \/ Unavailable(r) \/ Refuse(r)
         \/ Decide(r) \/ Wake(r) \/ (Cancel(r) /\ pc[r] = "sleeping")
  PROVE  /\ pc[r] # "dialing" /\ Retargeted(r)
         /\ \E s : s # "dialing" /\ pc' = [pc EXCEPT ![r] = s]
         /\ holds' \in {holds, holds \ {r}}
         /\ Sound(table', Counts, Claims)
         /\ Calm(table, table')
<1> DEFINE Moved == /\ pc[r] # "dialing" /\ Retargeted(r)
                    /\ \E s : s # "dialing" /\ pc' = [pc EXCEPT ![r] = s]
                    /\ holds' \in {holds, holds \ {r}}
<1>0. Sound(table, Counts, Claims) /\ Calm(table, table)
  BY Unchanged DEF ReservationInv, Sound, Calm, SameHealth
<1>1. ASSUME NEW skip, Scan(skip)
      PROVE  Sound(table', Counts, Claims) /\ Calm(table, table')
  BY <1>0, <1>1, LookedSound, LooksAreNear DEF Scan
<1>2. CASE Arrive(r)
  BY <1>0, <1>2 DEF Arrive, Goto, Retargeted
<1>3. CASE Route(r)
  BY <1>1, <1>3 DEF Route, Goto, Retargeted
<1>4. CASE Unavailable(r)
  <2>1. Moved
    BY <1>4, ReturnsTo DEF Unavailable
  <2> QED BY <1>1, <1>4, <2>1 DEF Unavailable
<1>5. CASE Refuse(r)
  <2>1. Moved
    BY <1>5, ReturnsTo DEF Refuse
  <2> QED BY <1>0, <1>5, <2>1 DEF Refuse, shared
<1>6. CASE Wake(r)
  BY <1>0, <1>6 DEF Wake, Goto, shared, Retargeted
<1>10. CASE Choose(r)
  <2>1. Moved
    <3>1. CASE Return(r, "gone")
      BY <1>10, <3>1, ReturnsTo DEF Choose
    <3>2. CASE /\ Goto(r, "planned") /\ UNCHANGED holds
               /\ target' = [target EXCEPT ![r] = TargetOf(table, candidate[r])]
               /\ candidate' = [candidate EXCEPT ![r] = NoCandidate]
      BY <1>10, <3>2 DEF Choose, Goto, Retargeted
    <3> QED BY <1>10, <3>1, <3>2 DEF Choose
  <2> QED BY <1>0, <1>10, <2>1 DEF Choose, shared
<1>7. CASE Cancel(r) /\ pc[r] = "sleeping"
  <2>1. Moved
    BY <1>7, ReturnsTo DEF Cancel
  <2>2. table' = table
    BY <1>7 DEF Cancel
  <2> QED BY <1>0, <2>1, <2>2
<1>8. CASE FailOver(r) \/ AwaitRoute(r) \/ Replay(r) \/ FailOverElsewhere(r)
  <2>1. /\ pc[r] # "dialing" /\ Scan(skipped[r])
        /\ holds' = holds /\ candidate' = candidate
    BY <1>8
    DEF FailOver, AwaitRoute, Replay, FailOverElsewhere, NothingPlanned,
        Replan, Tried
  <2>2. \E d : Sleep(r, d)
    BY <1>8 DEF FailOver, AwaitRoute, Replay, FailOverElsewhere
  <2>3. Moved
    BY <2>1, <2>2, SleepsTo
  <2> QED BY <1>1, <2>1, <2>3
<1>9. CASE GiveUp(r)
  <2>1. pc[r] # "dialing" /\ Return(r, "failure")
    BY <1>9 DEF GiveUp, NothingPlanned, Replan, Deciding
  <2>2. Moved
    BY <2>1, ReturnsTo
  <2>3. table' = table \/ Scan(skipped[r])
    BY <1>9 DEF GiveUp, NothingPlanned, Replan
  <2> QED BY <1>0, <1>1, <2>2, <2>3
<1> QED
  BY <1>2, <1>3, <1>4, <1>5, <1>6, <1>7, <1>8, <1>9, <1>10 DEF Decide

LEMMA ReservationStep == ReservationInv /\ [Next]_vars => ReservationInv'
<1> SUFFICES ASSUME ReservationInv, [Next]_vars PROVE ReservationInv'
  OBVIOUS
<1>1. BudgetInv'
  BY BudgetInvStep DEF ReservationInv
<1> DEFINE Rest == /\ target' = [q \in Requests |-> target'[q]]
                   /\ candidate' = [q \in Requests |-> candidate'[q]]
                   /\ IsFiniteSet(In({"dialing"})')
                   /\ holds' \subseteq In({"dialing"})'
                   /\ Sound(table', Counts', Claims')
<1>2. ASSUME NEW r \in Requests, Outcome(r) PROVE Rest
  <2>1. PICK s : s # "dialing" /\ pc' = [pc EXCEPT ![r] = s]
    BY <1>2, OutcomeMarks
  <2>2. PICK marked : /\ Sound(marked, Counts, Claims)
                      /\ table' = Unguarded(r, marked)
    BY <1>2, OutcomeMarks
  <2>3. pc[r] = "dialing" /\ Retargeted(r) /\ holds' = holds \ {r}
    BY <1>2, OutcomeMarks
  <2> QED BY <2>1, <2>2, <2>3, EndStep
<1>3. ASSUME NEW r \in Requests, Dial(r) PROVE Rest
  BY <1>3, DialStep
<1>4. ASSUME NEW r \in Requests, Cancel(r), pc[r] = "dialing" PROVE Rest
  <2>1. /\ pc' = [pc EXCEPT ![r] = "done"] /\ Retargeted(r)
        /\ holds' = holds \ {r}
    BY <1>4, ReturnsTo DEF Cancel
  <2>2. table' = Unguarded(r, table) /\ Sound(table, Counts, Claims)
    BY <1>4 DEF Cancel, ReservationInv
  <2> QED BY <1>4, <2>1, <2>2, EndStep
<1>5. ASSUME NEW r \in Requests,
             \/ Arrive(r) \/ Route(r) \/ Choose(r) \/ Unavailable(r) \/ Refuse(r)
             \/ Decide(r) \/ Wake(r) \/ (Cancel(r) /\ pc[r] = "sleeping")
      PROVE  Rest
  <2>1. PICK s : s # "dialing" /\ pc' = [pc EXCEPT ![r] = s]
    BY <1>5, QuietMoves
  <2>2. /\ pc[r] # "dialing" /\ Retargeted(r)
        /\ holds' \in {holds, holds \ {r}}
        /\ Sound(table', Counts, Claims)
    BY <1>5, QuietMoves
  <2> QED BY <2>1, <2>2, QuietStep
<1>6. ASSUME UNCHANGED <<pc, target, candidate, holds>>,
             Sound(table', Counts, Claims)
      PROVE  Rest
  <2>1. /\ In({"dialing"})' = In({"dialing"})
        /\ Counts' = Counts /\ Claims' = Claims
    BY <1>6 DEF In, Counts, On, Claims
  <2>2. Sound(table', Counts', Claims')
    BY <1>6, <2>1
  <2>3. /\ target' = [q \in Requests |-> target'[q]]
        /\ candidate' = [q \in Requests |-> candidate'[q]]
    BY <1>6 DEF ReservationInv
  <2>4. holds' \subseteq In({"dialing"})' /\ IsFiniteSet(In({"dialing"})')
    BY <1>6, <2>1 DEF ReservationInv
  <2> QED BY <2>2, <2>3, <2>4
<1>7. ASSUME Tick PROVE Rest
  <2>1. Sound(table', Counts, Claims)
    BY <1>7, AgedSound DEF Tick, ReservationInv
  <2> QED BY <1>6, <1>7, <2>1 DEF Tick
<1>8. ASSUME UNCHANGED vars PROVE Rest
  BY <1>6, <1>8 DEF vars, ReservationInv
<1>9. \A r \in Requests : Cancel(r) => pc[r] \in {"dialing", "sleeping"}
  BY DEF Cancel
<1> HIDE DEF Rest
<1>10. Rest
  BY <1>2, <1>3, <1>4, <1>5, <1>7, <1>8, <1>9 DEF Next
<1> QED BY <1>1, <1>10 DEF ReservationInv, Rest

(* Every reservation made by begin_attempt is given back on every path out *)
(* of the attempt, an answer, a failure of any kind or the client's leave: *)
(* a key's count and a model's half-open slot belong to attempts in flight *)
(* (router.rs:1453 and 1643), for any number of requests and accounts.     *)
THEOREM NothingLeaks == Spec => []ReservationsHeld
<1>1. ReservationInv => ReservationsHeld
  BY DEF ReservationInv, ReservationsHeld, Sound, Counted, Claimed, Counts, On,
         Claims
<1> QED BY <1>1, ReservationInit, ReservationStep, PTL DEF Spec

(* The health records keep their type, whatever marks overlap. *)
THEOREM TableTypeCorrect == Spec => [](table \in TableType)
<1>1. ReservationInv => table \in TableType
  BY SoundIsTyped DEF ReservationInv
<1> QED BY <1>1, ReservationInit, ReservationStep, PTL DEF Spec

-----------------------------------------------------------------------------
(* What a generic 429 leaves alone.                                        *)
Unmoved(t, u, c) ==
  /\ u.routes[c] = t.routes[c]
  /\ u.groups = t.groups
  /\ \A k \in Keys : /\ u.keys[k].cooling = t.keys[k].cooling
                     /\ u.keys[k].unusable = t.keys[k].unusable

LEMMA LimitedMoves ==
  ASSUME NEW t, NEW n, NEW S, Sound(t, n, S), NEW x, NEW d \in Nat,
         NEW c \in Routes, c # RouteOf(x)
  PROVE  /\ Unmoved(t, NoteRateLimited(t, x, d), c)
         /\ NoteRateLimited(t, x, d).models =
              [t.models EXCEPT ![x.model] = AfterRouteFailure(@, x.group)]
<1> DEFINE cs == [t.routes EXCEPT ![RouteOf(x)].cooling = d]
           ms == [t.models EXCEPT ![x.model] =
                    AfterRouteFailure(t.models[x.model], x.group)]
           a == [t EXCEPT !.routes = cs]
           u == [a EXCEPT !.models = ms]
<1>1. NoteRateLimited(t, x, d) = u
  BY Zenon DEF NoteRateLimited
<1>2. cs[c] = t.routes[c]
  BY DEF Sound
<1> HIDE DEF cs, ms
<1>5. a = [keys |-> t.keys, routes |-> cs, groups |-> t.groups,
           models |-> t.models]
  BY DEF Sound
<1> HIDE DEF a
<1>3. u = [keys |-> t.keys, routes |-> cs, groups |-> t.groups, models |-> ms]
  BY <1>5
<1> HIDE DEF u
<1>4. Unmoved(t, u, c) /\ u.models = ms
  BY <1>2, <1>3 DEF Unmoved
<1> USE DEF ms
<1> QED BY <1>1, <1>4, Zenon

LEMMA DropMoves ==
  ASSUME NEW t, NEW n, NEW S, Sound(t, n, S), NEW x, NEW held \in BOOLEAN,
         NEW c \in Routes
  PROVE  /\ Unmoved(t, GuardDropped(t, x, held), c)
         /\ GuardDropped(t, x, held).models =
              [t.models EXCEPT ![x.model] = IF held THEN Dropped(@) ELSE @]
<1> DEFINE ms == [t.models EXCEPT ![x.model] = IF held THEN Dropped(@) ELSE @]
           a == [t EXCEPT !.models = ms]
           ks == [k \in Keys |->
                    IF k = x.key
                    THEN [a.keys[k] EXCEPT
                            !.inflight = IF @ = 0 THEN 0 ELSE @ - 1]
                    ELSE a.keys[k]]
           u == [a EXCEPT !.keys = ks]
<1>1. GuardDropped(t, x, held) = u
  BY Zenon DEF GuardDropped, WithoutProbe, WithKey
<1> HIDE DEF ms
<1>2. a = [keys |-> t.keys, routes |-> t.routes, groups |-> t.groups,
           models |-> ms]
  BY DEF Sound
<1> HIDE DEF a
<1>3. \A k \in Keys : /\ ks[k].cooling = t.keys[k].cooling
                      /\ ks[k].unusable = t.keys[k].unusable
  BY <1>2 DEF Sound, Counted, KeyType
<1> HIDE DEF ks
<1>4. u = [keys |-> ks, routes |-> t.routes, groups |-> t.groups,
           models |-> ms]
  BY <1>2
<1> HIDE DEF u
<1>5. Unmoved(t, u, c) /\ u.models = ms
  BY <1>3, <1>4 DEF Unmoved
<1> USE DEF ms
<1> QED BY <1>1, <1>5, Zenon

(* A candidate stays ready if nothing it is asked has moved, and its model *)
(* shows itself as before, the slot free if it was.                        *)
LEMMA ReadyIff ==
  ASSUME NEW t, NEW c, NEW rot
  PROVE  IsReady(t, c, rot) <=>
           LET m == Viewed(t.models[c[1]])
               any == \E k \in Range(KeyChoices(c[2], rot)) : KeyReady(t, k)
           IN  /\ ~m.disabled
               /\ ~(m.state = "Open")
               /\ ~(t.routes[c].disabled > 0)
               /\ ~(t.groups[c[2]] > 0)
               /\ ~(t.routes[c].cooling > 0 /\ ~(m.state = "HalfOpen" /\ any))
               /\ Selectable(m)
               /\ any
BY DEF IsReady, Dialability, Ready, Waiting, HardBlocked

LEMMA ReadyKept ==
  ASSUME NEW t, NEW u, NEW c, NEW rot, Unmoved(t, u, c), IsReady(t, c, rot),
         Viewed(u.models[c[1]]).state = Viewed(t.models[c[1]]).state,
         Viewed(u.models[c[1]]).disabled = Viewed(t.models[c[1]]).disabled,
         Viewed(u.models[c[1]]).probe => Viewed(t.models[c[1]]).probe
  PROVE  IsReady(u, c, rot)
<1>1. \A k : KeyReady(t, k) => KeyReady(u, k)
  BY DEF Unmoved, KeyReady, InTable
<1>2. Selectable(Viewed(t.models[c[1]])) => Selectable(Viewed(u.models[c[1]]))
  BY DEF Selectable
<1> QED BY <1>1, <1>2, ReadyIff DEF Unmoved

(* A failure on a model that stays closed shows nothing but the failure.   *)
LEMMA LimitedEntry ==
  ASSUME NEW m \in ModelType, m.state = "Closed", ~m.probe, NEW g,
         AfterRouteFailure(m, g).state # "Open"
  PROVE  LET f == AfterRouteFailure(m, g)
         IN  \A e \in {f, Dropped(f)} :
               /\ Viewed(e).state = Viewed(m).state
               /\ Viewed(e).disabled = Viewed(m).disabled
               /\ ~Viewed(e).probe
<1> DEFINE f == WithFailing(m, g)
<1>1. AfterRouteFailure(m, g) = f
  <2>1. \A n \in ModelType : Opened(n).state = "Open"
    BY DEF ModelType, Opened
  <2>2. f \in ModelType
    BY ModelAssumption DEF ModelAssumption, ModelType, WithFailing, Forgotten
  <2> QED BY <2>1, <2>2 DEF AfterRouteFailure
<1>2. /\ f \in ModelType /\ f.state = "Closed" /\ ~f.probe
      /\ f.disabled = m.disabled /\ f.back = m.back
  BY ModelAssumption DEF ModelAssumption, ModelType, WithFailing, Forgotten
<1> HIDE DEF f
<1>3. /\ Dropped(f) \in ModelType /\ Dropped(f).state = "Closed"
      /\ ~Dropped(f).probe
      /\ Dropped(f).disabled = m.disabled /\ Dropped(f).back = m.back
  BY <1>2 DEF Dropped, ModelType
<1>4. ASSUME NEW e \in ModelType, e.state = "Closed", ~e.probe,
             e.disabled = m.disabled, e.back = m.back
      PROVE  /\ Viewed(e).state = Viewed(m).state
             /\ Viewed(e).disabled = Viewed(m).disabled
             /\ ~Viewed(e).probe
  BY <1>4 DEF Viewed, HalfOpened, Recovered, ModelType
<1> QED BY <1>1, <1>2, <1>3, <1>4

LEMMA LimitedStep ==
  ASSUME ReservationInv, NEW r \in Requests, RateLimited(r),
         NEW c \in Routes \ {RouteOf(target[r])}
  PROVE  \/ StaysReady(c)
         \/ c[1] = target[r].model /\ table'.models[c[1]].state = "Open"
<1> DEFINE x == target[r]
           held == r \in holds
<1>1. PICK d \in RouteCooldowns :
        table' = GuardDropped(NoteRateLimited(table, x, d), x, held)
  BY DEF RateLimited, Fails, Unguarded
<1>2. d \in Nat
  BY TableAssumption DEF TableAssumption
<1> DEFINE u == NoteRateLimited(table, x, d)
<1>3. Sound(table, Counts, Claims) /\ held \in BOOLEAN
  BY DEF ReservationInv
<1>4. c \in Routes /\ c # RouteOf(x)
  OBVIOUS
<1> HIDE DEF x, held
<1>5. Sound(u, Counts, Claims)
  BY <1>2, <1>3, LimitedSound
<1>6. /\ Unmoved(table, u, c)
      /\ u.models =
           [table.models EXCEPT ![x.model] = AfterRouteFailure(@, x.group)]
  <2>1. c \in Routes /\ c # RouteOf(x) /\ Sound(table, Counts, Claims)
    BY <1>3, <1>4
  <2> QED BY <1>2, <2>1, LimitedMoves
<1> HIDE DEF u
<1>7. /\ Unmoved(u, table', c)
      /\ table'.models =
           [u.models EXCEPT ![x.model] = IF held THEN Dropped(@) ELSE @]
  <2>1. table' = GuardDropped(u, x, held)
    BY <1>1 DEF u
  <2>2. /\ Unmoved(u, GuardDropped(u, x, held), c)
        /\ GuardDropped(u, x, held).models =
             [u.models EXCEPT ![x.model] = IF held THEN Dropped(@) ELSE @]
    BY <1>3, <1>4, <1>5, DropMoves
  <2> QED BY <2>1, <2>2, Zenon
<1>8. Unmoved(table, table', c)
  BY <1>6, <1>7 DEF Unmoved
<1> DEFINE m == table.models[c[1]]
           f == AfterRouteFailure(m, x.group)
<1>9. /\ table.models \in [Models -> ModelType] /\ m \in ModelType
      /\ c[1] \in Models
      /\ \A n \in Models : table.models[n].probe
                             => table.models[n].state = "HalfOpen"
  BY <1>3, <1>4 DEF Sound, Claimed, Routes
<1>10. CASE c[1] # x.model
  <2>1. table'.models[c[1]] = m
    BY <1>6, <1>7, <1>9, <1>10
  <2> QED BY <1>8, <2>1, ReadyKept DEF StaysReady
<1>11. CASE c[1] = x.model
  <2>1. table'.models[c[1]] = IF held THEN Dropped(f) ELSE f
    BY <1>6, <1>7, <1>9, <1>11
  <2>2. f \in ModelType
    BY <1>9, EntryTyped
  <2>3. CASE f.state = "Open"
    <3>1. Dropped(f).state = "Open"
      BY <2>2, <2>3, EntryMoves
    <3> QED BY <1>11, <2>1, <2>3, <3>1 DEF x
  <2>4. CASE f.state # "Open"
    <3>1. m.state = "Closed"
      <4>1. m.state # "HalfOpen"
        <5>1. m.state = "HalfOpen" => Opened(m).state = "Open"
          BY <1>9 DEF Opened, ModelType
        <5> QED BY <2>4, <5>1 DEF AfterRouteFailure
      <4>2. m.state # "Open"
        BY <1>9, <2>4, FailureMoves
      <4> QED BY <1>9, <4>1, <4>2 DEF ModelType
    <3>2. ~m.probe
      BY <1>9, <3>1
    <3> HIDE DEF m
    <3>3. \A e \in {f, Dropped(f)} :
            /\ Viewed(e).state = Viewed(m).state
            /\ Viewed(e).disabled = Viewed(m).disabled
            /\ ~Viewed(e).probe
      BY <1>9, <2>4, <3>1, <3>2, LimitedEntry
    <3> HIDE DEF f
    <3>4. table'.models[c[1]] \in {f, Dropped(f)}
      BY <2>1
    <3> USE DEF m
    <3>5. /\ Viewed(table'.models[c[1]]).state = Viewed(table.models[c[1]]).state
          /\ Viewed(table'.models[c[1]]).disabled
               = Viewed(table.models[c[1]]).disabled
          /\ ~Viewed(table'.models[c[1]]).probe
      BY <3>3, <3>4
    <3> QED BY <1>8, <3>5, ReadyKept DEF StaysReady
  <2> QED BY <2>3, <2>4
<1> QED BY <1>10, <1>11

(* A generic 429 takes out its own route; another route of the same model  *)
(* goes with it only as the model's circuit opens, and no other model of   *)
(* the account goes at all, for any topology and whatever else is in       *)
(* flight (docs/routing.md:89, README.md:272).                             *)
THEOREM LimitsOneRoute == Spec => OneRouteCools
<1>1. ReservationInv /\ [Next]_vars
        => [\A r \in Requests :
              RateLimited(r)
                => \A c \in Routes \ {RouteOf(target[r])} :
                     \/ StaysReady(c)
                     \/ c[1] = target[r].model
                          /\ table'.models[c[1]].state = "Open"]_vars
  BY LimitedStep
<1> QED
  BY <1>1, ReservationInit, ReservationStep, PTL DEF Spec, OneRouteCools

-----------------------------------------------------------------------------
(* The keys of the configuration, by position and by account.              *)

LEMMA PoolKeys ==
  /\ Indexes = 1 .. Len(Pool) /\ Len(Pool) \in Nat
  /\ IsFiniteSet(Indexes) /\ Indexes \in SUBSET Nat
  /\ \A i \in Indexes : Pool[i] \in [group : Groups, enabled : BOOLEAN]
<1> DEFINE R == [group : Groups, enabled : BOOLEAN]
<1>1. Pool \in Seq(R)
  BY TableAssumption DEF TableAssumption
<1> HIDE DEF R
<1>2. /\ Indexes = 1 .. Len(Pool) /\ Len(Pool) \in Nat
      /\ IsFiniteSet(Indexes) /\ Indexes \in SUBSET Nat
      /\ \A i \in Indexes : Pool[i] \in R
  BY <1>1, FiniteList DEF Indexes
<1> QED BY <1>2 DEF R

LEMMA EntriesOrdered ==
  LET E == {i \in Indexes : Pool[i].enabled}
  IN  /\ E \in SUBSET Nat
      /\ Entries \in Seq(E) /\ Keys = 1 .. Len(Entries)
      /\ \A k \in Keys : /\ Entries[k] \in E
                         /\ Cardinality({j \in E : j < Entries[k]}) = k - 1
      /\ \A i \in E : \E k \in Keys : Entries[k] = i
<1> DEFINE E == {i \in Indexes : Pool[i].enabled}
<1>1. E \in SUBSET Nat /\ IsFiniteSet(E)
  BY PoolKeys, FS_Subset
<1>2. Entries = InOrder(E)
  BY DEF Entries
<1> HIDE DEF E
<1>3. /\ InOrder(E) \in Seq(E)
      /\ Len(InOrder(E)) = Cardinality(E)
      /\ Cardinality(E) \in Nat
      /\ \A n \in 1 .. Cardinality(E) :
           /\ InOrder(E)[n] \in E
           /\ Cardinality({j \in E : j < InOrder(E)[n]}) = n - 1
      /\ \A i \in E : \E n \in 1 .. Cardinality(E) : InOrder(E)[n] = i
  BY <1>1, InOrderOf
<1>4. Keys = 1 .. Cardinality(E)
  BY <1>2, <1>3 DEF Keys
<1>5. /\ E \in SUBSET Nat
      /\ Entries \in Seq(E) /\ Keys = 1 .. Len(Entries)
      /\ \A k \in Keys : /\ Entries[k] \in E
                         /\ Cardinality({j \in E : j < Entries[k]}) = k - 1
      /\ \A i \in E : \E k \in Keys : Entries[k] = i
  BY <1>1, <1>2, <1>3, <1>4
<1> QED BY <1>5 DEF E

LEMMA AccountKeys ==
  ASSUME NEW g \in Groups
  PROVE  /\ KeysOf[g] \in Seq(Indexes)
         /\ Len(KeysOf[g]) \in Nat \ {0}
         /\ \A i \in Range(KeysOf[g]) : /\ i \in Indexes
                                        /\ Pool[i].group = g /\ Pool[i].enabled
<1> DEFINE S == {i \in Range(Entries) : Pool[i].group = g}
<1>1. \A i \in Range(Entries) : i \in Indexes /\ Pool[i].enabled
  BY EntriesOrdered DEF Range, Keys
<1>2. S \in SUBSET Indexes /\ S \in SUBSET Nat
  BY <1>1, PoolKeys
<1>3. IsFiniteSet(S)
  BY <1>2, PoolKeys, FS_Subset
<1>4. KeysOf[g] = InOrder(S)
  BY DEF KeysOf
<1>5. \A i \in S : i \in Indexes /\ Pool[i].group = g /\ Pool[i].enabled
  BY <1>1, <1>2
<1> HIDE DEF S
<1>6. /\ InOrder(S) \in Seq(S)
      /\ Len(InOrder(S)) = Cardinality(S) /\ Cardinality(S) \in Nat
  BY <1>2, <1>3, InOrderOf
<1>7. KeysOf[g] \in Seq(S)
  BY <1>4, <1>6
<1>8. \A i \in Range(KeysOf[g]) : i \in S
  BY <1>7 DEF Range
<1>9. Len(KeysOf[g]) \in Nat /\ Len(KeysOf[g]) > 0
  <2>1. \A h \in Groups : Len(KeysOf[h]) > 0
    BY TableAssumption DEF TableAssumption
  <2>2. Len(KeysOf[g]) \in Nat
    BY <1>4, <1>6
  <2> QED BY <2>1, <2>2
<1>10. KeysOf[g] \in Seq(Indexes)
  <2>1. /\ KeysOf[g] \in [1 .. Len(KeysOf[g]) -> S]
        /\ Len(KeysOf[g]) \in Nat
    BY <1>7
  <2>2. KeysOf[g] \in [1 .. Len(KeysOf[g]) -> Indexes]
    BY <1>2, <2>1
  <2> QED BY <2>1, <2>2
<1>11. \A i \in Range(KeysOf[g]) : /\ i \in Indexes
                                    /\ Pool[i].group = g /\ Pool[i].enabled
  BY <1>5, <1>8
<1> QED BY <1>9, <1>10, <1>11

LEMMA ChoicesOf ==
  ASSUME NEW g \in Groups, NEW rot \in Nat
  PROVE  LET cs == KeyChoices(g, rot)
         IN  /\ DOMAIN cs \in {{1}, {1, 2}}
             /\ \A i \in DOMAIN cs : cs[i] \in Range(KeysOf[g])
             /\ Range(cs) \subseteq Range(KeysOf[g])
<1> DEFINE ks == KeysOf[g]
           n == Len(ks)
           At(i) == ks[(i % n) + 1]
<1>1. ks \in Seq(Indexes) /\ n \in Nat \ {0}
  BY AccountKeys
<1>2. \A i \in Nat : (i % n) + 1 \in 1 .. n
  <2> HIDE DEF n
  <2> QED BY <1>1
<1>3. \A i \in Nat : At(i) \in Range(ks)
  BY <1>1, <1>2 DEF Range
<1>4. At(rot) \in Range(ks) /\ At(rot + 1) \in Range(ks)
  <2>1. rot + 1 \in Nat
    OBVIOUS
  <2> HIDE DEF At
  <2> QED BY <1>3, <2>1
<1>5. KeyChoices(g, rot) = IF n = 1 THEN <<At(rot)>> ELSE <<At(rot), At(rot + 1)>>
  BY DEF KeyChoices
<1> HIDE DEF At, n, ks
<1>6. CASE n = 1
  BY <1>4, <1>5, <1>6 DEF Range, ks
<1>7. CASE n # 1
  BY <1>4, <1>5, <1>7 DEF Range, ks
<1> QED BY <1>6, <1>7

(* The enabled keys come first in the list of keys. *)
DisabledLast ==
  \A i, j \in Indexes : i < j /\ Pool[j].enabled => Pool[i].enabled

LEMMA Positions ==
  ASSUME DisabledLast, NEW k \in Keys
  PROVE  Entries[k] = k
<1> DEFINE E == {i \in Indexes : Pool[i].enabled}
           e == Entries[k]
<1>1. /\ e \in E /\ Cardinality({j \in E : j < e}) = k - 1
      /\ k \in Nat
  BY EntriesOrdered
<1>2. {j \in E : j < e} = 1 .. (e - 1)
  <2>1. e \in Indexes /\ Pool[e].enabled
    BY <1>1
  <2> HIDE DEF e
  <2> QED BY <2>1, PoolKeys DEF DisabledLast
<1>3. e \in Nat \ {0}
  BY <1>1, PoolKeys
<1>4. Cardinality(1 .. (e - 1)) = e - 1
  <2> HIDE DEF e
  <2>1. 1 \in Int /\ e - 1 \in Int
    BY <1>3
  <2>2. Cardinality(1 .. (e - 1)) = IF 1 > e - 1 THEN 0 ELSE (e - 1) - 1 + 1
    BY <2>1, FS_Interval
  <2> QED BY <1>3, <2>2
<1>5. Cardinality(1 .. (e - 1)) = k - 1
  BY <1>1, <1>2, Zenon
<1> HIDE DEF E, e
<1>6. e = k
  <2>1. e - 1 = k - 1
    BY <1>4, <1>5
  <2> QED BY <1>1, <1>3, <2>1
<1> QED BY <1>6 DEF e

-----------------------------------------------------------------------------
(* Only the head of the loop scans. *)
LEMMA OnlyRoutePlans ==
  ASSUME ReservationInv, Next, NEW r \in Requests,
         pc[r] = "routing", pc'[r] = "choosing"
  PROVE  Route(r)
<1>1. pc \in [Requests -> States]
  BY DEF ReservationInv, BudgetInv
<1>2. ASSUME NEW q \in Requests, pc[q] # "routing", NEW s,
             pc' = [pc EXCEPT ![q] = s]
      PROVE  FALSE
  BY <1>1, <1>2
<1>3. ASSUME NEW q \in Requests, Outcome(q) PROVE FALSE
  BY <1>2, <1>3, OutcomeMarks
<1>4. ASSUME NEW q \in Requests,
             \/ Arrive(q) \/ Choose(q) \/ Refuse(q) \/ Dial(q) \/ Wake(q)
             \/ Cancel(q)
      PROVE  FALSE
  BY <1>2, <1>4 DEF Arrive, Choose, Refuse, Dial, Wake, Cancel, Return, Goto
<1>5. ASSUME NEW q \in Requests, Decide(q) PROVE FALSE
  <2>1. pc[q] # "routing"
    BY <1>5 DEF Decide, FailOver, AwaitRoute, Replay, NothingPlanned,
                FailOverElsewhere, Replan, GiveUp, Deciding
  <2>2. \E s : pc' = [pc EXCEPT ![q] = s]
    BY <1>5, QuietMoves
  <2> QED BY <1>2, <2>1, <2>2
<1>6. ASSUME NEW q \in Requests, Unavailable(q) PROVE FALSE
  BY <1>1, <1>6 DEF Unavailable, Return
<1>7. ASSUME NEW q \in Requests, Route(q) PROVE q = r
  BY <1>1, <1>7 DEF Route, Goto
<1>8. ~Tick
  BY DEF Tick
<1> QED
  BY <1>3, <1>4, <1>5, <1>6, <1>7, <1>8 DEF Next

(* The candidate of a plan was ready, and its model looked at.             *)
LEMMA PlanIsReady ==
  ASSUME ReservationInv, NEW r \in Requests, Route(r)
  PROVE  \E c \in Routes :
           /\ candidate' = [candidate EXCEPT ![r] = Candidate(c, rotation)]
           /\ candidate'[r] = Candidate(c, rotation)
           /\ IsReady(table, c, rotation)
           /\ table'.models[c[1]] = Viewed(table.models[c[1]])
<1>1. PICK p \in Plans(table, rotation, skipped[r]) :
        candidate' = [candidate EXCEPT ![r] = p.candidate]
  BY DEF Route
<1>2. PICK i \in Scanned(table, rotation, skipped[r]) :
        \E c \in ReadyIn(table, i, rotation, skipped[r]) :
          p.candidate = Candidate(c, rotation)
  BY <1>1 DEF Plans
<1>3. PICK c \in ReadyIn(table, i, rotation, skipped[r]) :
        p.candidate = Candidate(c, rotation)
  BY <1>2
<1>4. /\ c \in Offered(i, rotation, skipped[r])
      /\ IsReady(table, c, rotation)
  BY <1>3 DEF ReadyIn
<1>5. c \in Routes
  <2>1. i \in DOMAIN Tiers
    BY <1>2 DEF Scanned
  <2>2. Tiers[i] \in Seq(Models)
    BY <2>1, TableAssumption DEF TableAssumption
  <2>3. Range(Tiers[i]) \subseteq Models
    BY <2>2 DEF Range
  <2> QED BY <1>4, <2>3 DEF Offered, Routes
<1>6. candidate'[r] = Candidate(c, rotation)
  BY <1>1, <1>3 DEF ReservationInv
<1>7. table'.models[c[1]] = Viewed(table.models[c[1]])
  <2> DEFINE seen_models ==
               UNION {{e[1] : e \in Offered(j, rotation, skipped[r])} :
                        j \in Scanned(table, rotation, skipped[r])}
  <2>1. c[1] \in seen_models
    BY <1>2, <1>4
  <2>2. table' = [table EXCEPT !.models =
                    [m \in Models |-> IF m \in seen_models
                                      THEN Viewed(table.models[m])
                                      ELSE table.models[m]]]
    BY DEF Route, Scan, Looked
  <2> HIDE DEF seen_models
  <2>3. table'.models = [m \in Models |-> IF m \in seen_models
                                          THEN Viewed(table.models[m])
                                          ELSE table.models[m]]
    BY <2>2 DEF ReservationInv, Sound
  <2>4. c[1] \in Models
    BY <1>5 DEF Routes
  <2> QED BY <2>1, <2>3, <2>4
<1> QED BY <1>1, <1>3, <1>4, <1>5, <1>6, <1>7

(* A candidate carries keys of its account's list; a target has a key that *)
(* is kept by its account and enabled, found where that list says.         *)
Carries(x) ==
  /\ x \in CandidateType
  /\ x.keys # <<>>
  /\ Range(x.keys) \subseteq Range(KeysOf[x.route[2]])

Listed(x) == \E k \in Keys \cap Range(KeysOf[x.group]) : x.key = Entries[k]

LEMMA CandidateCarries ==
  ASSUME NEW c \in Routes, NEW rot \in Nat
  PROVE  Carries(Candidate(c, rot))
<1> DEFINE cs == KeyChoices(c[2], rot)
<1>1. c[2] \in Groups
  BY DEF Routes
<1>2. /\ DOMAIN cs \in {{1}, {1, 2}}
      /\ \A i \in DOMAIN cs : cs[i] \in Range(KeysOf[c[2]])
      /\ Range(cs) \subseteq Range(KeysOf[c[2]])
  BY <1>1, ChoicesOf
<1>3. cs \in Seq(Indexes) /\ cs # <<>>
  <2> DEFINE ks == KeysOf[c[2]]
             At(i) == ks[(i % Len(ks)) + 1]
  <2>1. \A i \in Range(ks) : i \in Indexes
    BY <1>1, AccountKeys
  <2>2. cs = IF Len(ks) = 1 THEN <<At(rot)>> ELSE <<At(rot), At(rot + 1)>>
    BY DEF KeyChoices
  <2> HIDE DEF At, ks, cs
  <2>3. CASE cs = <<At(rot)>>
    <3>1. cs[1] \in Indexes
      BY <1>2, <2>1, <2>3 DEF ks
    <3> QED BY <2>3, <3>1
  <2>4. CASE cs = <<At(rot), At(rot + 1)>>
    <3>1. cs[1] \in Indexes /\ cs[2] \in Indexes
      BY <1>2, <2>1, <2>4 DEF ks
    <3> QED BY <2>4, <3>1
  <2> QED BY <2>2, <2>3, <2>4
<1>4. /\ Candidate(c, rot).route = c
      /\ Candidate(c, rot).keys = cs
      /\ Candidate(c, rot) = [route |-> c, keys |-> cs]
  BY DEF Candidate
<1> HIDE DEF cs
<1> QED BY <1>2, <1>3, <1>4 DEF Carries, CandidateType

(* The key that target() finds is one the candidate carries, and one that  *)
(* is ready if there is such a one.                                        *)
LEMMA FoundKey ==
  ASSUME NEW t, NEW x, Carries(x)
  PROVE  /\ KeyFound(t, x) \in Range(x.keys)
         /\ ReadyKeys(t, x) # {} => KeyReady(t, KeyFound(t, x))
<1> DEFINE ks == x.keys
           ready == {i \in DOMAIN ks : KeyReady(t, ks[i])}
<1>1. ks \in Seq(Indexes) /\ ks # <<>>
  BY DEF Carries, CandidateType
<1>2. 1 \in DOMAIN ks /\ DOMAIN ks \subseteq Nat
  <2> HIDE DEF ks
  <2> QED BY <1>1
<1>3. /\ ReadyKeys(t, x) = ready
      /\ KeyFound(t, x) = ks[IF ready = {} THEN 1 ELSE Min(ready)]
  BY DEF ReadyKeys, KeyFound
<1> HIDE DEF ks
<1>4. ready # {} => Min(ready) \in ready
  <2>1. ready \in SUBSET Nat
    BY <1>2
  <2> HIDE DEF ready
  <2> QED BY <2>1, MinIn
<1>5. CASE ready = {}
  <2>1. KeyFound(t, x) = ks[1]
    BY <1>3, <1>5
  <2> QED BY <1>2, <1>3, <1>5, <2>1 DEF Range, ks
<1>6. CASE ready # {}
  <2>1. KeyFound(t, x) = ks[Min(ready)]
    BY <1>3, <1>6
  <2>2. Min(ready) \in DOMAIN ks /\ KeyReady(t, ks[Min(ready)])
    BY <1>4, <1>6
  <2> HIDE DEF ready
  <2>3. ks[Min(ready)] \in Range(ks)
    BY <2>2 DEF Range
  <2> QED BY <2>1, <2>2, <2>3 DEF ks
<1> QED BY <1>5, <1>6

LEMMA TargetMade ==
  ASSUME NEW t, NEW x, Carries(x), InTable(KeyFound(t, x))
  PROVE  /\ TargetOf(t, x) \in Targets
         /\ Listed(TargetOf(t, x))
         /\ TargetOf(t, x).group = x.route[2]
         /\ TargetOf(t, x).key = Entries[KeyFound(t, x)]
<1> DEFINE k == KeyFound(t, x)
           y == TargetOf(t, x)
<1>1. k \in Keys /\ k \in Range(KeysOf[x.route[2]])
  BY FoundKey DEF InTable, Carries
<1>2. y = [model |-> x.route[1], group |-> x.route[2], key |-> Entries[k]]
  BY Zenon DEF TargetOf, TargetAt
<1>3. x.route \in Models \X Groups
  BY DEF Carries, CandidateType, Routes
<1>4. Entries[k] \in Indexes
  BY <1>1, EntriesOrdered
<1> HIDE DEF k, y
<1>5. y.group = x.route[2] /\ y.key = Entries[k] /\ y \in Targets
  BY <1>2, <1>3, <1>4 DEF Targets
<1>6. Listed(y)
  BY <1>1, <1>5 DEF Listed
<1> QED BY <1>5, <1>6 DEF k, y

(* The candidates and targets of the requests, and what they have tried.   *)
PlanInv ==
  /\ ReservationInv
  /\ rotation \in 0 .. Period - 1
  /\ candidate \in [Requests -> CandidateType]
  /\ target \in [Requests -> Targets]
  /\ skipped \in [Requests -> SUBSET Targets]
  /\ \A r \in Requests :
       /\ pc[r] = "choosing" => Carries(candidate[r])
       /\ pc[r] \in {"planned", "dialing"} => Listed(target[r])

(* A step that leaves a request with no plan.                              *)
Unplans(r) ==
  /\ \E s \in States \ {"choosing", "planned", "dialing"} :
       pc' = [pc EXCEPT ![r] = s]
  /\ candidate' = candidate \/ candidate' = [candidate EXCEPT ![r] = NoCandidate]
  /\ target' = target \/ target' = [target EXCEPT ![r] = NoTarget]
  /\ skipped' = skipped \/ skipped' = [skipped EXCEPT ![r] = {}]
  /\ rotation' = rotation \/ NextRotation

LEMMA NoTargetTyped == NoTarget \in Targets
<1>1. Models # {} /\ Pool # <<>>
  BY TableAssumption DEF TableAssumption
<1>2. 1 \in Indexes
  <2>1. Pool \in Seq([group : Groups, enabled : BOOLEAN])
    BY TableAssumption DEF TableAssumption
  <2>2. Len(Pool) # 0
    BY <1>1, <2>1
  <2> QED BY <2>2, PoolKeys
<1>3. Pool[1].group \in Groups
  BY <1>2, PoolKeys
<1>4. PICK m \in Models : TRUE
  BY <1>1
<1>5. [model |-> m, group |-> Pool[1].group, key |-> 1] \in Targets
  BY <1>2, <1>3, <1>4 DEF Targets
<1> QED BY <1>5 DEF NoTarget

LEMMA NoCandidateTyped == NoCandidate \in CandidateType
BY NoTargetTyped DEF NoCandidate, CandidateType, Targets, RouteOf, Routes

LEMMA RotationTyped ==
  ASSUME rotation \in 0 .. Period - 1, rotation' = rotation \/ NextRotation
  PROVE  rotation' \in 0 .. Period - 1
<1>1. Period \in Nat \ {0}
  BY TableAssumption DEF TableAssumption
<1>2. \A n \in Nat : n % Period \in 0 .. Period - 1
  BY <1>1
<1>3. rotation + 1 \in Nat
  BY <1>1
<1> QED BY <1>2, <1>3 DEF NextRotation

LEMMA UnplansStep ==
  ASSUME PlanInv, ReservationInv', NEW r \in Requests, Unplans(r)
  PROVE  PlanInv'
<1> USE DEF PlanInv, Unplans
<1>1. /\ candidate' \in [Requests -> CandidateType]
      /\ target' \in [Requests -> Targets]
      /\ skipped' \in [Requests -> SUBSET Targets]
  BY NoTargetTyped, NoCandidateTyped
<1>2. pc \in [Requests -> States]
  BY DEF ReservationInv, BudgetInv
<1>3. rotation' \in 0 .. Period - 1
  BY RotationTyped
<1>4. ASSUME NEW q \in Requests
      PROVE  /\ pc'[q] = "choosing" => Carries(candidate'[q])
             /\ pc'[q] \in {"planned", "dialing"} => Listed(target'[q])
  <2>1. CASE q = r
    BY <1>2, <2>1
  <2>2. CASE q # r
    BY <1>2, <2>2
  <2> QED BY <2>1, <2>2
<1> QED BY <1>1, <1>3, <1>4

LEMMA ReturnUnplans ==
  ASSUME NEW r, NEW answer, Return(r, answer), rotation' = rotation \/ NextRotation
  PROVE  Unplans(r)
BY DEF Return, Unplans, States

LEMMA OutcomeUnplans ==
  ASSUME NEW r \in Requests, Outcome(r)
  PROVE  Unplans(r)
<1>1. ASSUME NEW decision \in Deciding, NEW d, NEW marked,
             Fails(r, decision, d, marked)
      PROVE  Unplans(r)
  BY <1>1 DEF Fails, Goto, Deciding, Unplans, States
<1>2. CASE Overloaded(r) \/ RateLimited(r) \/ QuotaExhausted(r)
  <2>1. \E decision \in Deciding : \E d, marked : Fails(r, decision, d, marked)
    BY <1>2 DEF Overloaded, RateLimited, QuotaExhausted, Deciding
  <2> QED BY <1>1, <2>1
<1>3. CASE Rejected(r) \/ Forbidden(r) \/ NotFound(r)
  BY <1>1, <1>3 DEF Rejected, Forbidden, NotFound, Deciding
<1>4. CASE Answered(r) \/ Unknown(r)
  BY <1>4, ReturnUnplans DEF Answered, Unknown
<1>5. CASE Invalid(r)
  BY <1>1, <1>5, ReturnUnplans DEF Invalid, Deciding
<1> QED BY <1>2, <1>3, <1>4, <1>5 DEF Outcome

LEMMA DecideUnplans ==
  ASSUME NEW r \in Requests, Decide(r)
  PROVE  Unplans(r)
<1>1. ASSUME NEW d, Sleep(r, d), skipped' = skipped, candidate' = candidate,
             rotation' = rotation \/ NextRotation
      PROVE  Unplans(r)
  <2>1. (IF d > 0 THEN "sleeping" ELSE "routing")
          \in States \ {"choosing", "planned", "dialing"}
    BY DEF States
  <2>2. pc' = [pc EXCEPT ![r] = IF d > 0 THEN "sleeping" ELSE "routing"]
    BY <1>1 DEF Sleep, Goto
  <2>3. target' = [target EXCEPT ![r] = NoTarget]
    BY <1>1 DEF Sleep
  <2> QED BY <1>1, <2>1, <2>2, <2>3 DEF Unplans
<1>2. CASE FailOver(r) \/ AwaitRoute(r) \/ Replay(r) \/ FailOverElsewhere(r)
  <2>1. /\ \E d : Sleep(r, d)
        /\ skipped' = skipped /\ candidate' = candidate
        /\ rotation' = rotation \/ NextRotation
    BY <1>2 DEF FailOver, AwaitRoute, Replay, FailOverElsewhere, Tried
  <2> QED BY <1>1, <2>1
<1>3. CASE GiveUp(r)
  BY <1>3, ReturnUnplans DEF GiveUp
<1> QED BY <1>2, <1>3 DEF Decide

LEMMA PlanInvInit == Init => PlanInv
<1> SUFFICES ASSUME Init PROVE PlanInv
  OBVIOUS
<1>1. rotation \in 0 .. Period - 1
  BY TableAssumption DEF TableAssumption, Init
<1>2. /\ candidate \in [Requests -> CandidateType]
      /\ target \in [Requests -> Targets]
      /\ skipped \in [Requests -> SUBSET Targets]
  BY NoTargetTyped, NoCandidateTyped DEF Init
<1>3. \A r \in Requests : pc[r] \notin {"choosing", "planned", "dialing"}
  BY DEF Init
<1> QED BY <1>1, <1>2, <1>3, ReservationInit DEF PlanInv

LEMMA PlanInvStep == PlanInv /\ [Next]_vars => PlanInv'
<1> SUFFICES ASSUME PlanInv, [Next]_vars PROVE PlanInv'
  OBVIOUS
<1>1. ReservationInv'
  BY ReservationStep DEF PlanInv
<1>2. pc \in [Requests -> States]
  BY DEF PlanInv, ReservationInv, BudgetInv
<1>3. ASSUME NEW r \in Requests,
             \/ Arrive(r) \/ Unavailable(r) \/ Refuse(r) \/ Cancel(r) \/ Wake(r)
      PROVE  Unplans(r)
  <2>1. CASE Arrive(r) \/ Wake(r)
    BY <2>1 DEF Arrive, Wake, Goto, shared, Unplans, States
  <2>2. CASE Unavailable(r) \/ Refuse(r) \/ Cancel(r)
    BY <2>2, ReturnUnplans DEF Unavailable, Refuse, Cancel, shared
  <2> QED BY <1>3, <2>1, <2>2
<1>4. ASSUME NEW r \in Requests, Unplans(r) PROVE PlanInv'
  BY <1>1, <1>4, UnplansStep
<1>5. ASSUME NEW r \in Requests, Route(r) PROVE PlanInv'
  <2>1. rotation \in Nat
    BY TableAssumption DEF TableAssumption, PlanInv
  <2>2. PICK c \in Routes :
          candidate' = [candidate EXCEPT ![r] = Candidate(c, rotation)]
    BY <1>5, PlanIsReady DEF PlanInv
  <2> DEFINE x == Candidate(c, rotation)
  <2>3. Carries(x) /\ x \in CandidateType
    BY <2>1, CandidateCarries DEF Carries
  <2>4. candidate' = [candidate EXCEPT ![r] = x]
    BY <2>2
  <2> HIDE DEF x
  <2>5. /\ pc' = [pc EXCEPT ![r] = "choosing"]
        /\ target' = target /\ skipped' = skipped
    BY <1>5 DEF Route, Goto
  <2>6. rotation' \in 0 .. Period - 1
    BY <1>5, RotationTyped DEF Route, PlanInv
  <2>7. candidate' \in [Requests -> CandidateType]
    BY <2>3, <2>4 DEF PlanInv
  <2>8. ASSUME NEW q \in Requests
        PROVE  /\ pc'[q] = "choosing" => Carries(candidate'[q])
               /\ pc'[q] \in {"planned", "dialing"} => Listed(target'[q])
    <3>1. CASE q = r
      BY <1>2, <2>3, <2>4, <2>5, <3>1 DEF PlanInv
    <3>2. CASE q # r
      BY <1>2, <2>4, <2>5, <3>2 DEF PlanInv
    <3> QED BY <3>1, <3>2
  <2> QED BY <1>1, <2>5, <2>6, <2>7, <2>8 DEF PlanInv
<1>8. ASSUME NEW r \in Requests, Choose(r) PROVE PlanInv'
  <2>1. CASE Return(r, "gone")
    BY <1>4, <1>8, <2>1, ReturnUnplans DEF Choose, shared
  <2>2. CASE /\ InTable(KeyFound(table, candidate[r]))
             /\ Goto(r, "planned")
             /\ target' = [target EXCEPT ![r] = TargetOf(table, candidate[r])]
             /\ candidate' = [candidate EXCEPT ![r] = NoCandidate]
             /\ skipped' = skipped
    <3> DEFINE y == TargetOf(table, candidate[r])
    <3>1. Carries(candidate[r])
      BY <1>8 DEF PlanInv, Choose
    <3>2. y \in Targets /\ Listed(y)
      BY <2>2, <3>1, TargetMade
    <3>3. target' = [target EXCEPT ![r] = y]
      BY <2>2
    <3> HIDE DEF y
    <3>4. /\ candidate' \in [Requests -> CandidateType]
          /\ target' \in [Requests -> Targets]
      BY <2>2, <3>2, <3>3, NoCandidateTyped DEF PlanInv
    <3>5. /\ pc' = [pc EXCEPT ![r] = "planned"]
          /\ rotation' = rotation
      BY <1>8, <2>2 DEF Goto, Choose, shared
    <3>6. ASSUME NEW q \in Requests
          PROVE  /\ pc'[q] = "choosing" => Carries(candidate'[q])
                 /\ pc'[q] \in {"planned", "dialing"} => Listed(target'[q])
      <4>1. CASE q = r
        BY <1>2, <3>2, <3>3, <3>5, <4>1 DEF PlanInv
      <4>2. CASE q # r
        BY <1>2, <2>2, <3>3, <3>5, <4>2 DEF PlanInv
      <4> QED BY <4>1, <4>2
    <3> QED BY <1>1, <2>2, <3>4, <3>5, <3>6 DEF PlanInv
  <2> QED BY <1>8, <2>1, <2>2 DEF Choose
<1>6. ASSUME NEW r \in Requests, Dial(r) PROVE PlanInv'
  <2>1. /\ pc[r] = "planned" /\ pc' = [pc EXCEPT ![r] = "dialing"]
        /\ UNCHANGED <<candidate, target, rotation>>
        /\ skipped' = [skipped EXCEPT ![r] = @ \cup {target[r]}]
    BY <1>6 DEF Dial, Goto
  <2>2. skipped' \in [Requests -> SUBSET Targets]
    BY <2>1 DEF PlanInv
  <2>3. ASSUME NEW q \in Requests
        PROVE  /\ pc'[q] = "choosing" => Carries(candidate'[q])
               /\ pc'[q] \in {"planned", "dialing"} => Listed(target'[q])
    BY <1>2, <2>1 DEF PlanInv
  <2> QED BY <1>1, <2>1, <2>2, <2>3 DEF PlanInv
<1>7. CASE UNCHANGED <<pc, candidate, target, skipped, rotation>>
  BY <1>1, <1>7 DEF PlanInv
<1> QED
  BY <1>3, <1>4, <1>5, <1>6, <1>7, <1>8, OutcomeUnplans, DecideUnplans
  DEF Next, Tick, vars

(* Waits are numbers of ticks. *)
LEMMA WaitTyped ==
  ASSUME ReservationInv, NEW c \in Routes, NEW rot
  PROVE  Dialability(table, c, rot).wait \in Nat
<1> DEFINE m == Viewed(table.models[c[1]])
           choices == Range(KeyChoices(c[2], rot))
           waits == {table.keys[k].cooling : k \in choices \cap Keys} \ {0}
           any == \E k \in choices : KeyReady(table, k)
<1>1. m.timer \in Nat
  <2>1. table.models[c[1]] \in ModelType
    BY DEF ReservationInv, Sound, Claimed, Routes
  <2> QED BY <2>1, EntryTyped DEF ModelType
<1>2. table.routes[c].cooling \in Nat /\ table.groups[c[2]] \in Nat
  BY DEF ReservationInv, Sound, RouteType, Routes
<1>3. waits # {} => Min(waits) \in Nat
  <2>1. waits \in SUBSET Nat
    BY DEF ReservationInv, Sound, Counted, KeyType
  <2> HIDE DEF waits
  <2> QED BY <2>1, MinIn
<1>4. Dialability(table, c, rot) \in
        {HardBlocked, Ready, Waiting(m.timer), Waiting(table.groups[c[2]]),
         Waiting(table.routes[c].cooling)}
          \cup (IF waits # {} THEN {Waiting(Min(waits))} ELSE {})
  BY Zenon DEF Dialability
<1> HIDE DEF m, waits
<1> QED BY <1>1, <1>2, <1>3, <1>4 DEF HardBlocked, Ready, Waiting

LEMMA WaitsTyped ==
  ASSUME ReservationInv, NEW rot, NEW skip
  PROVE  /\ \A i \in DOMAIN Tiers : WaitsIn(table, i, rot, skip) \subseteq Nat
         /\ ErrorWaits(table, rot, skip) \subseteq Nat
         /\ \A p \in Plans(table, rot, skip) : p.wait \in Nat
<1>1. ASSUME NEW i \in DOMAIN Tiers
      PROVE  WaitsIn(table, i, rot, skip) \subseteq Nat
  <2>1. Range(Tiers[i]) \subseteq Models
    <3>1. Tiers[i] \in Seq(Models)
      BY TableAssumption DEF TableAssumption
    <3> QED BY <3>1 DEF Range
  <2>2. Offered(i, rot, skip) \subseteq Routes
    BY <2>1 DEF Offered, Routes
  <2> QED BY <2>2, WaitTyped DEF WaitsIn
<1>2. Scanned(table, rot, skip) \subseteq DOMAIN Tiers
  BY DEF Scanned
<1>3. ErrorWaits(table, rot, skip) \subseteq Nat
  BY <1>1, <1>2 DEF ErrorWaits
<1>4. ASSUME NEW p \in Plans(table, rot, skip) PROVE p.wait \in Nat
  <2>1. PICK i \in Scanned(table, rot, skip) :
          LET waits == WaitsIn(table, i, rot, skip)
          IN  p.wait = IF waits = {} THEN 0 ELSE Min(waits)
    BY DEF Plans
  <2>2. WaitsIn(table, i, rot, skip) \in SUBSET Nat
    BY <1>1, <1>2, <2>1
  <2> QED BY <2>1, <2>2, MinIn
<1> QED BY <1>1, <1>3, <1>4

(* The rest of a request's locals. *)
LocalsTyped ==
  /\ cooldown \in [Requests -> Nat]
  /\ replays \in [Requests -> 0 .. SameRouteRetries]
  /\ sleep \in [Requests -> Nat]
  /\ reply \in [Requests -> Replies]

Local(r) ==
  /\ cooldown' = cooldown
       \/ \E d \in Nat : cooldown' = [cooldown EXCEPT ![r] = d]
  /\ replays' = replays
       \/ \E n \in 0 .. SameRouteRetries : replays' = [replays EXCEPT ![r] = n]
  /\ sleep' = sleep
       \/ \E d \in Nat : sleep' = [sleep EXCEPT ![r] = d]
  /\ reply' = reply
       \/ \E a \in Replies : reply' = [reply EXCEPT ![r] = a]

LEMMA LocalStep ==
  ASSUME LocalsTyped, NEW r \in Requests, Local(r)
  PROVE  LocalsTyped'
BY DEF LocalsTyped, Local

LEMMA ReturnLocal ==
  ASSUME NEW r, NEW answer \in Replies, Return(r, answer)
  PROVE  Local(r)
<1>1. 0 \in Nat /\ 0 \in 0 .. SameRouteRetries
  BY RequestAssumption DEF RequestAssumption
<1> QED BY <1>1 DEF Return, Local

LEMMA OutcomeLocal ==
  ASSUME NEW r \in Requests, Outcome(r)
  PROVE  Local(r)
<1>1. ASSUME NEW decision, NEW d \in Nat, NEW marked,
             Fails(r, decision, d, marked)
      PROVE  Local(r)
  BY <1>1 DEF Fails, Local
<1>2. CASE Overloaded(r)
  <2>1. PICK d \in RouteCooldowns :
          Fails(r, "next_attempt", TransientCooldown(target[r], d),
                NoteTransient(table, target[r], d))
    BY <1>2 DEF Overloaded
  <2>2. TransientCooldown(target[r], d) \in Nat
    BY CooldownsNatural
  <2> QED BY <1>1, <2>1, <2>2
<1>3. CASE RateLimited(r)
  BY <1>1, <1>3, CooldownsNatural DEF RateLimited
<1>4. CASE QuotaExhausted(r)
  <2>1. PICK d \in QuotaOpen :
          Fails(r, "next_attempt_group", d,
                AllLooked(NoteQuotaExhausted(table, target[r], d)))
    BY <1>4 DEF QuotaExhausted
  <2> QED BY <1>1, <2>1, CooldownsNatural
<1>5. CASE Rejected(r) \/ Forbidden(r) \/ NotFound(r)
  BY <1>1, <1>5 DEF Rejected, Forbidden, NotFound
<1>6. CASE Answered(r) \/ Unknown(r)
  BY <1>6, ReturnLocal DEF Answered, Unknown, Replies
<1>7. CASE Invalid(r)
  <2>1. CASE Return(r, "failure")
    BY <2>1, ReturnLocal DEF Replies
  <2>2. CASE \E d \in RouteCooldowns :
               Fails(r, "next_attempt", TransientCooldown(target[r], d),
                     NoteTransient(table, target[r], d))
    <3>1. PICK d \in RouteCooldowns :
            Fails(r, "next_attempt", TransientCooldown(target[r], d),
                  NoteTransient(table, target[r], d))
      BY <2>2
    <3>2. TransientCooldown(target[r], d) \in Nat
      BY CooldownsNatural
    <3> QED BY <1>1, <3>1, <3>2
  <2> QED BY <1>7, <2>1, <2>2 DEF Invalid
<1> QED BY <1>2, <1>3, <1>4, <1>5, <1>6, <1>7 DEF Outcome

LEMMA DecideLocal ==
  ASSUME ReservationInv, LocalsTyped, NEW r \in Requests, Decide(r)
  PROVE  Local(r)
<1>1. ASSUME NEW d \in Nat, Sleep(r, d),
             \/ replays' = replays
             \/ \E n \in 0 .. SameRouteRetries : replays' = [replays EXCEPT ![r] = n],
             reply' = reply
      PROVE  Local(r)
  BY <1>1 DEF Sleep, Local
<1>2. CASE FailOver(r)
  <2>1. PICK p \in Plans(table, rotation, skipped[r]) : Sleep(r, p.wait)
    BY <1>2 DEF FailOver
  <2>2. p.wait \in Nat
    BY WaitsTyped
  <2> QED BY <1>1, <1>2, <2>1, <2>2 DEF FailOver, Tried
<1>3. CASE AwaitRoute(r)
  <2>1. ErrorWait(r) \in SUBSET Nat
    BY WaitsTyped DEF ErrorWait
  <2>2. Sleep(r, Min(ErrorWait(r))) /\ ErrorWait(r) # {}
    BY <1>3 DEF AwaitRoute, Waitable
  <2>3. Min(ErrorWait(r)) \in Nat
    BY <2>1, <2>2, MinIn
  <2> QED BY <1>1, <1>3, <2>2, <2>3 DEF AwaitRoute, Tried
<1>4. CASE Replay(r)
  <2>1. cooldown[r] \in Nat /\ replays[r] \in 0 .. SameRouteRetries
    BY DEF LocalsTyped
  <2>2. replays[r] + 1 \in 0 .. SameRouteRetries
    BY <1>4, <2>1, RequestAssumption DEF Replay, MayReplay, RequestAssumption
  <2> QED BY <1>1, <1>4, <2>1, <2>2 DEF Replay, Tried
<1>5. CASE FailOverElsewhere(r)
  BY <1>1, <1>5 DEF FailOverElsewhere, Tried
<1>6. CASE GiveUp(r)
  BY <1>6, ReturnLocal DEF GiveUp, Replies
<1> QED BY <1>2, <1>3, <1>4, <1>5, <1>6 DEF Decide

TypeInv == PlanInv /\ LocalsTyped

LEMMA TypeInvInit == Init => TypeInv
<1>1. 0 \in Nat /\ 0 \in 0 .. SameRouteRetries /\ "none" \in Replies
  BY RequestAssumption DEF RequestAssumption, Replies
<1> QED BY <1>1, PlanInvInit DEF TypeInv, LocalsTyped, Init

LEMMA TypeInvStep == TypeInv /\ [Next]_vars => TypeInv'
<1> SUFFICES ASSUME TypeInv, [Next]_vars PROVE LocalsTyped'
  BY PlanInvStep DEF TypeInv
<1>1. LocalsTyped /\ ReservationInv
  BY DEF TypeInv, PlanInv
<1>2. ASSUME NEW r \in Requests,
             Arrive(r) \/ Route(r) \/ Choose(r) \/ Dial(r) \/ Wake(r)
      PROVE  Local(r)
  BY <1>2, ReturnLocal DEF Arrive, Route, Choose, Dial, Wake, Local, Replies
<1>3. ASSUME NEW r \in Requests, Unavailable(r) \/ Refuse(r) \/ Cancel(r)
      PROVE  Local(r)
  BY <1>3, ReturnLocal DEF Unavailable, Refuse, Cancel, Replies
<1>4. ASSUME NEW r \in Requests, Local(r) PROVE LocalsTyped'
  BY <1>1, <1>4, LocalStep
<1>5. CASE Tick
  <2>1. \A n \in Nat : Decrement(n) \in Nat
    BY DEF Decrement
  <2> QED BY <1>1, <1>5, <2>1 DEF Tick, LocalsTyped
<1>6. CASE UNCHANGED vars
  BY <1>1, <1>6 DEF vars, LocalsTyped
<1> QED
  BY <1>1, <1>2, <1>3, <1>4, <1>5, <1>6, OutcomeLocal, DecideLocal DEF Next

(* Whatever the requests meet, in whatever order: what the routing table,  *)
(* the breaker and the locals of every handler hold stays within its type, *)
(* for any list of keys.  In particular a plan names a key of the          *)
(* configuration, though it finds the key by its position among those      *)
(* enabled (router.rs:1157).                                               *)
THEOREM TypeCorrect == Spec => []TypeOK
<1>1. Spec => []TypeInv
  BY TypeInvInit, TypeInvStep, PTL DEF Spec
<1>2. Spec => []GateInv
  BY GateInvInit, GateInvStep, PTL DEF Spec
<1>3. Spec => []Proved!TypeOK
  BY BreakerProved, BreakerAssumptions, Proved!TypeCorrect
<1>4. TypeInv /\ GateInv /\ Proved!TypeOK => TypeOK
  <2> SUFFICES ASSUME TypeInv, GateInv, Proved!TypeOK PROVE TypeOK
    OBVIOUS
  <2>1. table \in TableType
    BY SoundIsTyped DEF TypeInv, PlanInv, ReservationInv
  <2>2. circuit \in CircuitType
    BY DEF Proved!TypeOK, Proved!CircuitType, CircuitType, Proved!Slots, Slots,
           Proved!Absent, Absent, Proved!OpenReasons, OpenReasons,
           Proved!Forgotten, Forgotten
  <2> QED
    BY <2>1, <2>2
    DEF TypeInv, PlanInv, ReservationInv, BudgetInv, LocalsTyped, GateInv,
        TypeOK
<1> QED
  BY <1>1, <1>2, <1>3, <1>4, PTL

-----------------------------------------------------------------------------
(* A step ends one attempt, near its target; or passes time; or changes no *)
(* health.                                                                 *)
Ending(r) ==
  /\ pc[r] = "dialing" /\ pc'[r] # "dialing"
  /\ \A q \in Requests \ {r} : pc'[q] = pc[q]
  /\ Near(table, table', target[r])

LEMMA AttemptEnds ==
  ASSUME ReservationInv, NEW r \in Requests,
         Outcome(r) \/ (Cancel(r) /\ pc[r] = "dialing")
  PROVE  Ending(r)
<1>1. pc \in [Requests -> States]
  BY DEF ReservationInv, BudgetInv
<1>2. PICK s : s # "dialing" /\ pc' = [pc EXCEPT ![r] = s]
  <2>1. CASE Outcome(r)
    BY <2>1, OutcomeMarks
  <2>2. CASE Cancel(r)
    BY <2>2 DEF Cancel, Return
  <2> QED BY <2>1, <2>2
<1>3. pc[r] = "dialing"
  BY OutcomeMarks
<1>4. \E marked : /\ Sound(marked, Counts, Claims)
                  /\ Near(table, marked, target[r])
                  /\ table' = Unguarded(r, marked)
  <2>1. CASE Outcome(r)
    BY <2>1, OutcomeMarks
  <2>2. CASE Cancel(r) /\ pc[r] = "dialing"
    <3>1. table' = Unguarded(r, table)
      BY <2>2 DEF Cancel
    <3> QED BY <3>1, NearItself DEF ReservationInv
  <2> QED BY <2>1, <2>2
<1>5. Near(table, table', target[r])
  <2>1. PICK marked : /\ Sound(marked, Counts, Claims)
                      /\ Near(table, marked, target[r])
                      /\ table' = Unguarded(r, marked)
    BY <1>4
  <2> DEFINE held == r \in holds
  <2>2. held \in BOOLEAN /\ table' = GuardDropped(marked, target[r], held)
    BY <2>1 DEF Unguarded
  <2> HIDE DEF held
  <2>3. Near(marked, GuardDropped(marked, target[r], held), target[r])
    BY <2>1, <2>2, DropNear
  <2>4. Near(marked, table', target[r])
    BY <2>2, <2>3
  <2> QED BY <2>1, <2>4, NearThenNear
<1> QED BY <1>1, <1>2, <1>3, <1>5 DEF Ending

LEMMA HealthStep ==
  ASSUME ReservationInv, [Next]_vars
  PROVE  \/ \E r \in Requests : Ending(r)
         \/ /\ Calm(table, table') \/ table' = TableAged(table)
            /\ \A r \in Requests : pc[r] = "dialing" => pc'[r] = "dialing"
<1>1. pc \in [Requests -> States]
  BY DEF ReservationInv, BudgetInv
<1>2. ASSUME NEW r \in Requests,
             \/ Arrive(r) \/ Route(r) \/ Choose(r) \/ Unavailable(r) \/ Refuse(r)
             \/ Decide(r) \/ Wake(r) \/ (Cancel(r) /\ pc[r] = "sleeping")
      PROVE  /\ Calm(table, table')
             /\ \A q \in Requests : pc[q] = "dialing" => pc'[q] = "dialing"
  <2>1. pc[r] # "dialing" /\ \E s : pc' = [pc EXCEPT ![r] = s]
    BY <1>2, QuietMoves
  <2>2. Calm(table, table')
    BY <1>2, QuietMoves
  <2> QED BY <1>1, <2>1, <2>2
<1>3. ASSUME NEW r \in Requests, Dial(r)
      PROVE  /\ Calm(table, table')
             /\ \A q \in Requests : pc[q] = "dialing" => pc'[q] = "dialing"
  <2>1. table' = BeginAttempt(table, target[r]) /\ Sound(table, Counts, Claims)
    BY <1>3 DEF Dial, ReservationInv
  <2>2. Calm(table, table')
    BY <2>1, BeginCalm
  <2> QED BY <1>1, <1>3, <2>2 DEF Dial, Goto
<1>4. ASSUME Tick PROVE table' = TableAged(table) /\ pc' = pc
  BY <1>4 DEF Tick
<1>5. ASSUME UNCHANGED vars PROVE Calm(table, table') /\ pc' = pc
  BY <1>5, Unchanged DEF vars, ReservationInv, Sound, Calm, SameHealth
<1>6. \A r \in Requests : Cancel(r) => pc[r] \in {"dialing", "sleeping"}
  BY DEF Cancel
<1>7. \A r \in Requests :
        Outcome(r) \/ (Cancel(r) /\ pc[r] = "dialing") => Ending(r)
  BY AttemptEnds
<1> QED
  BY <1>2, <1>3, <1>4, <1>5, <1>6, <1>7 DEF Next

LEMMA EndIsNear ==
  ASSUME ReservationInv, [Next]_vars, NEW r \in Requests,
         pc[r] = "dialing", pc'[r] # "dialing"
  PROVE  Near(table, table', target[r])
BY HealthStep DEF Ending

(* Time passes alike for every record.                                     *)
LEMMA AgedHealth ==
  ASSUME ReservationInv, table' = TableAged(table)
  PROVE  /\ \A c \in Routes :
              table'.routes[c].cooling = Decrement(table.routes[c].cooling)
         /\ \A g \in Groups : table'.groups[g] = Decrement(table.groups[g])
         /\ \A k \in Keys :
              /\ table'.keys[k].cooling = Decrement(table.keys[k].cooling)
              /\ table'.keys[k].unusable = table.keys[k].unusable
<1>1. Sound(table, Counts, Claims)
  BY DEF ReservationInv
<1>2. \A c \in Routes :
        table'.routes[c].cooling = Decrement(table.routes[c].cooling)
  BY <1>1 DEF TableAged, Sound, RouteType
<1>3. \A g \in Groups : table'.groups[g] = Decrement(table.groups[g])
  BY DEF TableAged
<1>4. \A k \in Keys :
        /\ table'.keys[k].cooling = Decrement(table.keys[k].cooling)
        /\ table'.keys[k].unusable = table.keys[k].unusable
  BY <1>1 DEF TableAged, Sound, Counted, KeyType
<1> QED BY <1>2, <1>3, <1>4

LEMMA Decreases ==
  ASSUME NEW n \in Nat
  PROVE  Decrement(n) \in Nat /\ Decrement(n) <= n
BY DEF Decrement

LEMMA ServedStep ==
  ASSUME PlanInv, [Next]_vars
  PROVE  /\ \A c \in Routes :
              table'.routes[c].cooling < Decrement(table.routes[c].cooling)
                => \E x \in Targets : Ended(x) /\ RouteOf(x) = c
         /\ \A g \in Groups :
              table'.groups[g] < Decrement(table.groups[g])
                => \E x \in Targets : Ended(x) /\ x.group = g
         /\ \A k \in Keys :
              table'.keys[k].cooling < Decrement(table.keys[k].cooling)
                => \E x \in Targets :
                     Ended(x) /\ (x.key = k \/ x.group = Pool[Entries[k]].group)
<1>1. ReservationInv /\ Sound(table, Counts, Claims)
  BY DEF PlanInv, ReservationInv
<1>2. /\ \A c \in Routes : table.routes[c].cooling \in Nat
      /\ \A g \in Groups : table.groups[g] \in Nat
      /\ \A k \in Keys : table.keys[k].cooling \in Nat
  BY <1>1 DEF Sound, Counted, KeyType, RouteType
<1>3. CASE table' = TableAged(table)
  BY <1>1, <1>2, <1>3, AgedHealth, Decreases
<1>4. CASE Calm(table, table')
  BY <1>2, <1>4, Decreases DEF Calm, SameHealth
<1>5. ASSUME NEW r \in Requests, Ending(r)
      PROVE  /\ \A c \in Routes :
                  table'.routes[c].cooling < Decrement(table.routes[c].cooling)
                    => \E x \in Targets : Ended(x) /\ RouteOf(x) = c
             /\ \A g \in Groups :
                  table'.groups[g] < Decrement(table.groups[g])
                    => \E x \in Targets : Ended(x) /\ x.group = g
             /\ \A k \in Keys :
                  table'.keys[k].cooling < Decrement(table.keys[k].cooling)
                    => \E x \in Targets :
                         /\ Ended(x)
                         /\ x.key = k \/ x.group = Pool[Entries[k]].group
  <2> DEFINE x == target[r]
  <2>1. x \in Targets /\ Ended(x) /\ Near(table, table', x)
    BY <1>5 DEF Ended, Ending, PlanInv
  <2> HIDE DEF x
  <2>2. \A c \in Routes : c # RouteOf(x) => table'.routes[c] = table.routes[c]
    BY <2>1 DEF Near, RoutesNear
  <2>3. \A g \in Groups : g # x.group => table'.groups[g] = table.groups[g]
    BY <2>1 DEF Near, GroupsNear
  <2>4. \A k \in Keys :
          k # x.key /\ Pool[Entries[k]].group # x.group
            => table'.keys[k].cooling = table.keys[k].cooling
    BY <2>1 DEF Near, KeysNear, SameHealth
  <2>5. \A c \in Routes :
          table'.routes[c].cooling < Decrement(table.routes[c].cooling)
            => RouteOf(x) = c
    BY <1>2, <2>2, Decreases
  <2>6. \A g \in Groups :
          table'.groups[g] < Decrement(table.groups[g]) => x.group = g
    BY <1>2, <2>3, Decreases
  <2>7. \A k \in Keys :
          table'.keys[k].cooling < Decrement(table.keys[k].cooling)
            => x.key = k \/ x.group = Pool[Entries[k]].group
    BY <1>2, <2>4, Decreases
  <2> QED BY <2>1, <2>5, <2>6, <2>7
<1> QED BY <1>1, <1>3, <1>4, <1>5, HealthStep

(* A cooldown is served, for any configuration: it is cut short only by    *)
(* the clock, or by the end of an attempt that met the same route, account *)
(* or key (router.rs:1475 clears what an answer proves healthy, no more).  *)
THEOREM ServesCooldowns == Spec => CooldownsServed
<1>1. PlanInv /\ [Next]_vars
        => [/\ \A c \in Routes :
                 table'.routes[c].cooling < Decrement(table.routes[c].cooling)
                   => \E x \in Targets : Ended(x) /\ RouteOf(x) = c
            /\ \A g \in Groups :
                 table'.groups[g] < Decrement(table.groups[g])
                   => \E x \in Targets : Ended(x) /\ x.group = g
            /\ \A k \in Keys :
                 table'.keys[k].cooling < Decrement(table.keys[k].cooling)
                   => \E x \in Targets :
                        Ended(x)
                          /\ (x.key = k \/ x.group = Pool[Entries[k]].group)]_vars
  BY ServedStep
<1> QED
  BY <1>1, PlanInvInit, PlanInvStep, PTL DEF Spec, CooldownsServed

(* Being charged with accounts on which attempts ended is blame for cause. *)
LEMMA ChargedForCause ==
  ASSUME NEW m, NEW old, NEW new, NEW G, G \subseteq Groups,
         \A g \in G : EndedOn(m, g), Charged(old, new, G)
  PROVE  Blamed(m, old, new)
<1>1. TripWindow \in Nat /\ MissingWindow \in Nat
  BY ModelAssumption DEF ModelAssumption
<1>2. \A g \in Groups : /\ old.failing[g] \in Nat /\ new.failing[g] \in Nat
                        /\ old.missing[g] \in Nat /\ new.missing[g] \in Nat
  BY <1>1 DEF Charged, ModelType, Forgotten
<1>3. \A g \in Groups :
        new.failing[g] < old.failing[g] \/ new.missing[g] < old.missing[g]
          => EndedOn(m, g)
  BY <1>2 DEF Charged
<1>4. old.state = "Closed" /\ new.state # "Closed" =>
        \E g \in Groups :
          EndedOn(m, g) /\ Cardinality(Suspects(old) \cup {g}) >= TripGroups
  BY DEF Charged
<1>5. ~old.disabled /\ new.disabled =>
        \E g \in Groups :
          EndedOn(m, g) /\ Cardinality(Absentees(old) \cup {g}) >= MissingGroups
  BY DEF Charged
<1> QED BY <1>3, <1>4, <1>5 DEF Blamed

LEMMA BlamedStep ==
  ASSUME PlanInv, [Next]_vars, NEW m \in Models
  PROVE  Blamed(m, table.models[m], table'.models[m])
<1>1. ReservationInv /\ Sound(table, Counts, Claims)
  BY DEF PlanInv, ReservationInv
<1>2. CASE table' = TableAged(table)
  <2>1. table.models[m] \in ModelType
    BY <1>1 DEF Sound, Claimed
  <2>2. TableAged(table).models[m] = ModelAged(table.models[m])
    BY DEF TableAged
  <2>3. Charged(table.models[m], table'.models[m], {})
    BY <1>2, <2>1, <2>2, EntryCharged
  <2> QED BY <2>3, ChargedForCause
<1>3. CASE Calm(table, table')
  <2>1. Charged(table.models[m], table'.models[m], {})
    BY <1>3 DEF Calm, Unaccused
  <2> QED BY <2>1, ChargedForCause
<1>4. ASSUME NEW r \in Requests, Ending(r)
      PROVE  Blamed(m, table.models[m], table'.models[m])
  <2> DEFINE x == target[r]
  <2>1. x \in Targets /\ Ended(x) /\ Near(table, table', x)
    BY <1>4 DEF Ended, Ending, PlanInv
  <2> HIDE DEF x
  <2> DEFINE G == IF m = x.model THEN {x.group} ELSE {}
  <2>2. Charged(table.models[m], table'.models[m], G)
    BY <2>1 DEF Near, ModelsNear, Accused
  <2>3. G \subseteq Groups
    BY <2>1 DEF Targets
  <2>4. \A g \in G : EndedOn(m, g)
    BY <2>1 DEF EndedOn, RouteOf
  <2> HIDE DEF G
  <2> QED BY <2>2, <2>3, <2>4, ChargedForCause
<1> QED BY <1>1, <1>2, <1>3, <1>4, HealthStep

(* A model is blamed only for what happened on it, for any number of       *)
(* accounts, requests and models and any thresholds: one failing account   *)
(* never opens a model's circuit that needs more (router.rs:1231, 1364;    *)
(* README.md:280).                                                         *)
THEOREM BlamesForCause == Spec => BlamedForCause
<1>1. PlanInv /\ [Next]_vars
        => [\A m \in Models :
              Blamed(m, table.models[m], table'.models[m])]_vars
  BY BlamedStep
<1> QED
  BY <1>1, PlanInvInit, PlanInvStep, PTL DEF Spec, BlamedForCause

-----------------------------------------------------------------------------
(* Where the enabled keys come first in the list, the position of a key    *)
(* among them is its index, and what the table says of a key is said of    *)
(* the key that is dialed.                                                 *)
LEMMA PlannedKey ==
  ASSUME DisabledLast, NEW x, Listed(x)
  PROVE  x.key \in Keys \cap Range(KeysOf[x.group])
BY Positions DEF Listed

LEMMA OwnAccount ==
  ASSUME DisabledLast, NEW x, x.group \in Groups, Listed(x)
  PROVE  Pool[x.key] = [group |-> x.group, enabled |-> TRUE]
<1>1. x.key \in Range(KeysOf[x.group])
  BY PlannedKey
<1>2. x.key \in Indexes /\ Pool[x.key].group = x.group /\ Pool[x.key].enabled
  BY <1>1, AccountKeys
<1>3. Pool[x.key] \in [group : Groups, enabled : BOOLEAN]
  BY <1>2, PoolKeys
<1> QED BY <1>2, <1>3

(* The keys of another account keep their health. *)
LEMMA OthersKeep ==
  ASSUME DisabledLast, NEW x, x.group \in Groups, Listed(x),
         NEW g \in Groups, g # x.group, NEW rot \in Nat,
         NEW ks, NEW js, KeysNear(ks, js, x)
  PROVE  \A k \in Range(KeyChoices(g, rot)) : k \in Keys => SameHealth(ks, js, k)
<1> SUFFICES ASSUME NEW k \in Range(KeyChoices(g, rot)), k \in Keys
             PROVE  SameHealth(ks, js, k)
  OBVIOUS
<1>1. k \in Range(KeysOf[g])
  BY ChoicesOf
<1>2. Pool[k].group = g
  BY <1>1, AccountKeys
<1>3. Pool[x.key].group = x.group
  <2>1. Pool[x.key] = [group |-> x.group, enabled |-> TRUE]
    BY OwnAccount
  <2> QED BY <2>1
<1>4. Entries[k] = k
  BY Positions
<1> QED BY <1>2, <1>3, <1>4 DEF KeysNear

LEMMA DomainStep ==
  ASSUME DisabledLast, PlanInv, [Next]_vars, NEW r \in Requests,
         pc[r] = "dialing", pc'[r] # "dialing", NEW c \in Routes,
         c[1] # target[r].model, c[2] # target[r].group,
         IsReady(table, c, rotation)
  PROVE  IsReady(table', c, rotation)
<1> DEFINE x == target[r]
<1>1. ReservationInv /\ Listed(x) /\ x \in Targets
  BY DEF PlanInv
<1>2. x.group \in Groups
  BY <1>1 DEF Targets
<1>3. Near(table, table', x)
  BY <1>1, EndIsNear
<1> HIDE DEF x
<1>4. c[1] \in Models /\ c[2] \in Groups /\ c # RouteOf(x)
      /\ c[1] # x.model /\ c[2] # x.group
  BY DEF Routes, RouteOf, x
<1>5. /\ table'.routes[c] = table.routes[c]
      /\ table'.groups[c[2]] = table.groups[c[2]]
      /\ Viewed(table'.models[c[1]]) = Viewed(table.models[c[1]])
  BY <1>3, <1>4 DEF Near, RoutesNear, GroupsNear, ModelsNear
<1>6. rotation \in Nat
  <2>1. Period \in Nat \ {0} /\ rotation \in 0 .. Period - 1
    BY TableAssumption DEF TableAssumption, PlanInv
  <2> QED BY <2>1
<1>7. \A k \in Range(KeyChoices(c[2], rotation)) :
        k \in Keys => SameHealth(table.keys, table'.keys, k)
  BY <1>1, <1>2, <1>3, <1>4, <1>6, OthersKeep DEF Near
<1>8. \A k \in Range(KeyChoices(c[2], rotation)) :
        KeyReady(table', k) <=> KeyReady(table, k)
  BY <1>7 DEF KeyReady, InTable, SameHealth
<1> QED BY <1>5, <1>8, ReadyIff

(* No outcome of an attempt, whatever it marks, takes a route of another   *)
(* model on another account out of service, for any topology whose enabled *)
(* keys come first (docs/routing.md:411-412, invariants 5 and 6).          *)
THEOREM DomainOfFailure ==
  ASSUME DisabledLast
  PROVE  Spec => FailureDomain
<1>1. PlanInv /\ [Next]_vars
        => [\A r \in Requests :
              pc[r] = "dialing" /\ pc'[r] # "dialing"
                => \A c \in Routes :
                     c[1] # target[r].model /\ c[2] # target[r].group
                       => StaysReady(c)]_vars
  BY DomainStep DEF StaysReady
<1> QED
  BY <1>1, PlanInvInit, PlanInvStep, PTL DEF Spec, FailureDomain

(* No step forgives a credential, whatever the configuration.              *)
LEMMA NeverForgiven ==
  ASSUME ReservationInv, [Next]_vars, NEW k \in Keys, table.keys[k].unusable
  PROVE  table'.keys[k].unusable
<1>1. CASE table' = TableAged(table)
  BY <1>1, AgedHealth
<1>2. CASE Calm(table, table')
  BY <1>2 DEF Calm, SameHealth
<1>3. ASSUME NEW r \in Requests, Ending(r) PROVE table'.keys[k].unusable
  BY <1>3 DEF Ending, Near, KeysNear
<1> QED BY <1>1, <1>2, <1>3, HealthStep

(* Health taken from a key of an account by a step was taken by the end of *)
(* an attempt on that account.                                             *)
LEMMA HealthLost ==
  ASSUME DisabledLast, PlanInv, [Next]_vars, NEW g \in Groups,
         NEW k \in Keys \cap Range(KeysOf[g])
  PROVE  \/ \E x \in Targets : Ended(x) /\ x.group = g
         \/ /\ KeyReady(table, k) => KeyReady(table', k)
            /\ ~table.keys[k].unusable => ~table'.keys[k].unusable
<1>1. ReservationInv
  BY DEF PlanInv
<1>2. CASE table' = TableAged(table)
  <2>1. /\ table'.keys[k].cooling = Decrement(table.keys[k].cooling)
        /\ table'.keys[k].unusable = table.keys[k].unusable
    BY <1>1, <1>2, AgedHealth
  <2>2. Decrement(0) = 0
    BY DEF Decrement
  <2> QED BY <2>1, <2>2 DEF KeyReady
<1>3. CASE Calm(table, table')
  BY <1>3 DEF Calm, SameHealth, KeyReady
<1>4. ASSUME NEW q \in Requests, Ending(q), target[q].group # g
      PROVE  /\ KeyReady(table, k) => KeyReady(table', k)
             /\ ~table.keys[k].unusable => ~table'.keys[k].unusable
  <2> DEFINE x == target[q]
  <2>1. x \in Targets /\ Listed(x) /\ KeysNear(table.keys, table'.keys, x)
    BY <1>4 DEF Ending, PlanInv, Near
  <2>2. x.group \in Groups /\ x.group # g
    BY <1>4, <2>1 DEF Targets
  <2> HIDE DEF x
  <2>3. Pool[x.key].group = x.group
    <3>1. Pool[x.key] = [group |-> x.group, enabled |-> TRUE]
      BY <2>1, <2>2, OwnAccount
    <3> QED BY <3>1
  <2>4. Pool[k].group = g /\ Entries[k] = k
    BY AccountKeys, Positions
  <2>5. SameHealth(table.keys, table'.keys, k)
    BY <2>1, <2>2, <2>3, <2>4 DEF KeysNear
  <2> QED BY <2>5 DEF SameHealth, KeyReady
<1>5. ASSUME NEW q \in Requests, Ending(q), target[q].group = g
      PROVE  \E x \in Targets : Ended(x) /\ x.group = g
  <2>1. target[q] \in Targets
    BY DEF PlanInv
  <2> QED BY <1>5, <2>1 DEF Ending, Ended
<1> QED BY <1>1, <1>2, <1>3, <1>4, <1>5, HealthStep

(* Between its scan and its dial a request chooses its key or stays put.   *)
LEMMA PlanKept ==
  ASSUME PlanInv, [Next]_vars, NEW r \in Requests,
         pc[r] \in {"choosing", "planned"}, pc'[r] \in {"choosing", "planned"}
  PROVE  \/ UNCHANGED <<pc[r], candidate[r], target[r]>>
         \/ /\ Choose(r) /\ pc'[r] = "planned"
            /\ InTable(KeyFound(table, candidate[r]))
            /\ target'[r] = TargetOf(table, candidate[r])
<1> DEFINE Put == UNCHANGED <<pc[r], candidate[r], target[r]>>
<1>1. /\ pc \in [Requests -> States]
      /\ candidate \in [Requests -> CandidateType]
      /\ target \in [Requests -> Targets]
  BY DEF PlanInv, ReservationInv, BudgetInv
<1>2. ASSUME NEW q \in Requests, Unplans(q) PROVE Put
  BY <1>1, <1>2 DEF Unplans
<1>3. ASSUME NEW q \in Requests, Arrive(q) \/ Wake(q) PROVE Unplans(q)
  BY <1>3 DEF Arrive, Wake, Goto, shared, Unplans, States
<1>4. ASSUME NEW q \in Requests, Unavailable(q) \/ Refuse(q) \/ Cancel(q)
      PROVE  Unplans(q)
  BY <1>4, ReturnUnplans DEF Unavailable, Refuse, Cancel, shared
<1>5. ASSUME NEW q \in Requests, Route(q) \/ Dial(q) PROVE Put
  BY <1>1, <1>5 DEF Route, Dial, Goto
<1>6. ASSUME NEW q \in Requests, q # r, Choose(q) PROVE Put
  BY <1>1, <1>6 DEF Choose, Goto, Return
<1>7. ASSUME Choose(r)
      PROVE  /\ pc'[r] = "planned"
             /\ InTable(KeyFound(table, candidate[r]))
             /\ target'[r] = TargetOf(table, candidate[r])
  BY <1>1, <1>7 DEF Choose, Goto, Return
<1>8. ASSUME Tick \/ UNCHANGED vars PROVE Put
  BY <1>8 DEF Tick, vars
<1> HIDE DEF Put
<1>9. Put \/ Choose(r)
  BY <1>2, <1>3, <1>4, <1>5, <1>6, <1>8, OutcomeUnplans, DecideUnplans DEF Next
<1> QED BY <1>7, <1>9 DEF Put

(* What is planned loses its usable key to such an end alone. *)
LEMMA PromiseLost ==
  ASSUME DisabledLast, PlanInv, [Next]_vars, NEW r \in Requests,
         Promising(r), pc'[r] \in {"choosing", "planned"}
  PROVE  \/ Promising(r)'
         \/ \E x \in Targets : Ended(x) /\ x.group = GroupPlanned(r)
<1>1. pc[r] \in {"choosing", "planned"}
  BY DEF Promising
<1>2. CASE UNCHANGED <<pc[r], candidate[r], target[r]>>
  <2>1. CASE pc[r] = "planned"
    <3>1. target[r] \in Targets /\ Listed(target[r])
      BY <2>1 DEF PlanInv
    <3>2. target[r].group \in Groups
      BY <3>1 DEF Targets
    <3>3. target[r].key \in Keys \cap Range(KeysOf[target[r].group])
      BY <3>1, PlannedKey
    <3>4. ~table.keys[target[r].key].unusable
      BY <2>1 DEF Promising
    <3>5. \/ \E x \in Targets : Ended(x) /\ x.group = target[r].group
          \/ ~table'.keys[target[r].key].unusable
      BY <3>2, <3>3, <3>4, HealthLost
    <3> QED BY <1>2, <2>1, <3>5 DEF Promising, GroupPlanned
  <2>2. CASE pc[r] = "choosing"
    <3> DEFINE x == candidate[r]
    <3>1. Carries(x) /\ x.route[2] \in Groups
      BY <2>2 DEF PlanInv, Carries, CandidateType, Routes
    <3>2. PICK i \in DOMAIN x.keys : KeyReady(table, x.keys[i])
      BY <2>2 DEF Promising, ReadyKeys
    <3> HIDE DEF x
    <3>3. x.keys[i] \in Keys \cap Range(KeysOf[x.route[2]])
      BY <3>1, <3>2 DEF Carries, KeyReady, InTable, Range
    <3>4. \/ \E y \in Targets : Ended(y) /\ y.group = x.route[2]
          \/ KeyReady(table', x.keys[i])
      BY <3>1, <3>2, <3>3, HealthLost
    <3>5. KeyReady(table', x.keys[i]) => ReadyKeys(table', x) # {}
      BY <3>2 DEF ReadyKeys
    <3> QED BY <1>2, <2>2, <3>4, <3>5 DEF Promising, GroupPlanned, x
  <2> QED BY <1>1, <2>1, <2>2
<1>3. CASE /\ Choose(r) /\ pc'[r] = "planned"
           /\ InTable(KeyFound(table, candidate[r]))
           /\ target'[r] = TargetOf(table, candidate[r])
  <2> DEFINE k == KeyFound(table, candidate[r])
  <2>1. pc[r] = "choosing" /\ table' = table
    BY <1>3 DEF Choose, shared
  <2>2. Carries(candidate[r]) /\ ReadyKeys(table, candidate[r]) # {}
    BY <2>1 DEF PlanInv, Promising
  <2>3. KeyReady(table, k) /\ k \in Keys
    BY <1>3, <2>2, FoundKey DEF InTable
  <2>4. target'[r].key = Entries[k]
    BY <1>3, <2>2, TargetMade
  <2> HIDE DEF k
  <2>5. target'[r].key = k
    BY <2>3, <2>4, Positions
  <2> QED BY <1>3, <2>1, <2>3, <2>5 DEF Promising, KeyReady
<1> QED BY <1>1, <1>2, <1>3, PlanKept

(* A scan plans where a usable key is ready. *)
LEMMA PlanPromises ==
  ASSUME PlanInv, [Next]_vars, NEW r \in Requests,
         pc[r] = "routing", pc'[r] = "choosing"
  PROVE  Promising(r)'
<1>1. ReservationInv
  BY DEF PlanInv
<1>2. Next
  BY DEF vars
<1>3. Route(r)
  BY <1>1, <1>2, OnlyRoutePlans
<1>4. PICK c \in Routes :
        /\ candidate'[r] = Candidate(c, rotation)
        /\ IsReady(table, c, rotation)
  BY <1>1, <1>3, PlanIsReady
<1> DEFINE cs == KeyChoices(c[2], rotation)
<1>5. PICK k \in Range(cs) : KeyReady(table, k)
  BY <1>4, ReadyIff
<1>6. candidate'[r].keys = cs
  BY <1>4 DEF Candidate
<1> HIDE DEF cs
<1>7. PICK i \in DOMAIN cs : cs[i] = k
  BY <1>5 DEF Range
<1>8. KeyReady(table', k)
  <2>1. table'.keys = table.keys
    BY <1>1, <1>3 DEF Route, Scan, Looked, ReservationInv, Sound
  <2> QED BY <1>5, <2>1 DEF KeyReady
<1>9. ReadyKeys(table', candidate'[r]) # {}
  BY <1>6, <1>7, <1>8 DEF ReadyKeys
<1> QED BY <1>9 DEF Promising

(* A credential the upstream rejected is never forgiven, and a request is  *)
(* handed one only because an attempt on the same account ended after its  *)
(* scan (router.rs:298, 875 and 985), for any number of requests and keys, *)
(* the enabled ones first.                                                 *)
THEOREM RejectedOnlyByRace ==
  ASSUME DisabledLast
  PROVE  Spec => RejectedByRaceOnly
<1>1. PlanInv /\ [Next]_vars
        => [/\ \A k \in Keys : table.keys[k].unusable => table'.keys[k].unusable
            /\ \A r \in Requests :
                 /\ pc[r] = "routing" /\ pc'[r] = "choosing" => Promising(r)'
                 /\ Promising(r) /\ pc'[r] \in {"choosing", "planned"}
                      => \/ Promising(r)'
                         \/ \E x \in Targets :
                              Ended(x) /\ x.group = GroupPlanned(r)]_vars
  BY NeverForgiven, PlanPromises, PromiseLost DEF PlanInv
<1> QED
  BY <1>1, PlanInvInit, PlanInvStep, PTL DEF Spec, RejectedByRaceOnly

(* An attempt is made with an enabled credential of the account whose      *)
(* health was asked and will be marked, for any list whose enabled keys    *)
(* come first.  Run keys_shifted shows a list where they do not.           *)
THEOREM OwnAccountDialed ==
  ASSUME DisabledLast
  PROVE  Spec => DialsOwnAccount
<1>1. PlanInv /\ [Next]_vars
        => [\A r \in Requests :
              Dials(r)
                => Pool[target[r].key] = [group |-> target[r].group,
                                          enabled |-> TRUE]]_vars
  BY OwnAccount DEF PlanInv, Dials, Targets
<1> QED
  BY <1>1, PlanInvInit, PlanInvStep, PTL DEF Spec, DialsOwnAccount

-----------------------------------------------------------------------------
(* The ceilings are positive, and whatever the ladder, a hint or a quota   *)
(* signal asks for stays between a tick and its ceiling.                   *)
LEMMA Ceilings ==
  /\ LadderCeiling \in Nat \ {0}
  /\ HintCeiling \in Nat \ {0}
  /\ QuotaCeiling \in Nat \ {0}
BY CooldownAssumption
DEF CooldownAssumption, LadderCeiling, HintCeiling, QuotaCeiling, Lesser, Greater

LEMMA ClampedWithin ==
  ASSUME NEW x \in Int, NEW high \in Nat \ {0}
  PROVE  Clamped(x, 1, high) \in 1 .. high
BY DEF Clamped, Lesser, Greater

LEMMA LadderWithin ==
  ASSUME NEW a \in Nat, NEW s \in Nat, NEW d \in LadderDurations(a, s)
  PROVE  d \in 1 .. LadderCeiling
<1> USE CooldownAssumption DEF CooldownAssumption
<1>1. Step(a, s) \in 0 .. MaxShift
  BY DEF Step, Lesser, Greater
<1>2. 2^Step(a, s) \in Nat \ {0}
  BY <1>1
<1>3. Greater(Initial, 1) \in Nat
  BY DEF Greater
<1>4. Greater(Initial, 1) * 2^Step(a, s) \in Int
  BY <1>2, <1>3
<1>5. Base(Step(a, s)) \in Int
  BY <1>4, Ceilings DEF Base, Lesser
<1>6. PICK extra \in 0 .. (Base(Step(a, s)) - 1) \div 2 :
        d = Clamped(Base(Step(a, s)) + extra, 1, LadderCeiling)
  BY DEF LadderDurations
<1>7. Base(Step(a, s)) + extra \in Int
  BY <1>5, <1>6
<1> QED
  BY <1>6, <1>7, ClampedWithin, Ceilings

(* An authoritative hint is not cut by the ladder, only by its own cap.    *)
LEMMA HintWithin ==
  ASSUME NEW x \in ResponseType
  PROVE  HintDuration(HintOf(x)) \in 1 .. HintCeiling
<1>1. HintOf(x) \in Int
  BY CooldownAssumption, FallbackAssumption
  DEF CooldownAssumption, FallbackAssumption, HintOf, HintSource, ResponseType,
      Hints, NoHint, Lesser
<1> QED
  BY <1>1, ClampedWithin, Ceilings DEF HintDuration

LEMMA QuotaWithin ==
  ASSUME NEW x \in ResponseType
  PROVE  QuotaDuration(HintOf(x)) \in 1 .. QuotaCeiling
<1>1. HintOf(x) \in Int
  BY CooldownAssumption, FallbackAssumption
  DEF CooldownAssumption, FallbackAssumption, HintOf, HintSource, ResponseType,
      Hints, NoHint, Lesser
<1> QED
  BY <1>1, Ceilings DEF QuotaDuration, Lesser, Greater

-----------------------------------------------------------------------------
(* Each action of Responses is one of SendMessages, or leaves it alone.    *)
LEMMA RespondIsOutcome ==
  ASSUME NEW r \in Requests, Respond(r)
  PROVE  Outcome(r) \/ UNCHANGED vars
<1>1. CASE Success(r) \/ Transient(r) \/ BadRequest(r) \/ Limited(r)
  BY <1>1 DEF Success, Transient, BadRequest, Limited, Outcome
<1>2. ASSUME NEW x \in Responses,
             LimitedHinted(r, x) \/ QuotaSpent(r, x) \/ Plain(r, x)
      PROVE  Outcome(r)
  BY <1>2 DEF LimitedHinted, QuotaSpent, Plain, Outcome
<1>3. ASSUME NEW x \in Responses, ReadStreak(r, x)
      PROVE  UNCHANGED vars
  BY <1>3 DEF ReadStreak
<1> QED
  BY <1>1, <1>2, <1>3 DEF Respond

LEMMA LadderStep == [LadderNext]_<<vars, ladder>> => [Next]_vars
<1>1. ASSUME NEW r \in Requests, Come(r) \/ Handle(r) \/ Leave(r)
      PROVE  Next
  BY <1>1 DEF Come, Handle, Leave, Next
<1>2. ASSUME NEW r \in Requests, Outcome(r) PROVE Next
  BY <1>2 DEF Next
<1>3. Pass => Next
  BY DEF Pass, Next
<1> QED
  BY <1>1, <1>2, <1>3, RespondIsOutcome DEF LadderNext

(* Whatever the responses do to cooldowns and streaks, what is shown of    *)
(* SendMessages holds: a response never takes a request out of the attempt *)
(* loop's budget (upstream.rs:157) or past the breaker (upstream.rs:187).  *)
THEOREM ResponsesAreOutcomes ==
  LadderSpec => Spec /\ []OneBudget /\ ImplementsGate
<1>1. LadderSpec => Spec
  BY LadderStep, PTL DEF LadderSpec, LadderInit, Spec
<1> QED
  BY <1>1, BudgetIsOne, ImplementsBreaker, PTL

-----------------------------------------------------------------------------
(* The ceilings of what each domain may be taken out for.                  *)
RouteCeiling == Greater(LadderCeiling, HintCeiling)
KeyCeiling == Greater(LadderCeiling, QuotaCeiling)

KeyCapped == [cooling : 0 .. KeyCeiling, unusable : BOOLEAN, inflight : Nat]
RouteCapped == [cooling : 0 .. RouteCeiling, disabled : Nat]

(* A table none of whose cooldowns is beyond its ceiling.                  *)
TableCapped(t) ==
  /\ t = [keys |-> t.keys, routes |-> t.routes, groups |-> t.groups,
          models |-> t.models]
  /\ t.keys \in [Keys -> KeyCapped]
  /\ t.routes \in [Routes -> RouteCapped]
  /\ t.groups \in [Groups -> 0 .. QuotaCeiling]

LEMMA CeilingOrder ==
  /\ RouteCeiling \in Nat \ {0} /\ KeyCeiling \in Nat \ {0}
  /\ LadderCeiling <= RouteCeiling /\ HintCeiling <= RouteCeiling
  /\ LadderCeiling <= KeyCeiling /\ QuotaCeiling <= KeyCeiling
BY Ceilings DEF RouteCeiling, KeyCeiling, Greater

(* Looking at models, and putting other models in their place, is no       *)
(* matter of cooldowns.                                                    *)
LEMMA OtherModels ==
  ASSUME NEW t, TableCapped(t), NEW ms
  PROVE  TableCapped([t EXCEPT !.models = ms])
BY DEF TableCapped

LEMMA OtherKeys ==
  ASSUME NEW t, TableCapped(t), NEW ks \in [Keys -> KeyCapped]
  PROVE  TableCapped([t EXCEPT !.keys = ks])
BY DEF TableCapped

LEMMA OtherRoutes ==
  ASSUME NEW t, TableCapped(t), NEW cs \in [Routes -> RouteCapped]
  PROVE  TableCapped([t EXCEPT !.routes = cs])
BY DEF TableCapped

LEMMA OtherGroups ==
  ASSUME NEW t, TableCapped(t), NEW gs \in [Groups -> 0 .. QuotaCeiling]
  PROVE  TableCapped([t EXCEPT !.groups = gs])
BY DEF TableCapped

LEMMA AgedCapped ==
  ASSUME NEW t, TableCapped(t)
  PROVE  TableCapped(TableAged(t))
<1> DEFINE aged == TableAged(t)
<1>1. aged.keys \in [Keys -> KeyCapped]
  BY CeilingOrder DEF TableAged, TableCapped, KeyCapped, Decrement
<1>2. aged.routes \in [Routes -> RouteCapped]
  <2>1. ASSUME NEW c \in Routes
        PROVE  [t.routes[c] EXCEPT !.cooling = Decrement(@),
                                   !.disabled = Decrement(@)] \in RouteCapped
    <3>1. t.routes[c] \in RouteCapped
      BY DEF TableCapped
    <3>2. /\ Decrement(t.routes[c].cooling) \in 0 .. RouteCeiling
          /\ Decrement(t.routes[c].disabled) \in Nat
      BY <3>1, CeilingOrder DEF RouteCapped, Decrement
    <3> QED BY <3>1, <3>2 DEF RouteCapped
  <2> QED BY <2>1 DEF TableAged
<1>3. aged.groups \in [Groups -> 0 .. QuotaCeiling]
  BY Ceilings DEF TableAged, TableCapped, Decrement
<1>4. aged = [keys |-> aged.keys, routes |-> aged.routes,
              groups |-> aged.groups, models |-> aged.models]
  BY DEF TableAged
<1> QED BY <1>1, <1>2, <1>3, <1>4 DEF TableCapped

LEMMA GuardCapped ==
  ASSUME NEW t, TableCapped(t), NEW x
  PROVE  /\ TableCapped(BeginAttempt(t, x))
         /\ \A held : TableCapped(GuardDropped(t, x, held))
<1>1. \A n \in Nat : (IF n = 0 THEN 0 ELSE n - 1) \in Nat
  OBVIOUS
<1>2. TableCapped(BeginAttempt(t, x))
  <2> DEFINE begun == [t EXCEPT !.models[x.model] = AfterBegin(@)]
  <2>1. TableCapped(begun)
    BY OtherModels
  <2>2. [k \in Keys |-> IF k = x.key
                        THEN [begun.keys[k] EXCEPT !.inflight = @ + 1]
                        ELSE begun.keys[k]] \in [Keys -> KeyCapped]
    BY <2>1 DEF TableCapped, KeyCapped
  <2> QED BY <2>1, <2>2, OtherKeys DEF BeginAttempt, WithKey
<1>3. ASSUME NEW held PROVE TableCapped(GuardDropped(t, x, held))
  <2> DEFINE free == WithoutProbe(t, x, held)
  <2>1. TableCapped(free)
    BY OtherModels DEF WithoutProbe
  <2> HIDE DEF free
  <2>2. [k \in Keys |->
           IF k = x.key
           THEN [free.keys[k] EXCEPT !.inflight = IF @ = 0 THEN 0 ELSE @ - 1]
           ELSE free.keys[k]] \in [Keys -> KeyCapped]
    BY <1>1, <2>1 DEF TableCapped, KeyCapped
  <2>3. TableCapped([free EXCEPT !.keys = [k \in Keys |->
           IF k = x.key
           THEN [free.keys[k] EXCEPT !.inflight = IF @ = 0 THEN 0 ELSE @ - 1]
           ELSE free.keys[k]]])
    BY <2>1, <2>2, OtherKeys
  <2> QED BY <2>3 DEF GuardDropped, WithKey, free
<1> QED BY <1>2, <1>3

(* An answer or a rejection only shortens cooldowns, a 404 disables. *)
LEMMA AnswerCapped ==
  ASSUME NEW t, TableCapped(t), NEW x
  PROVE  /\ TableCapped(NoteSuccess(t, x))
         /\ TableCapped(NoteRejected(t, x))
         /\ TableCapped(NoteMissing(t, x))
<1>1. TableCapped(NoteSuccess(t, x))
  <2> DEFINE served ==
        [t EXCEPT !.routes[RouteOf(x)] = [cooling |-> 0, disabled |-> 0],
                  !.groups[x.group] = 0,
                  !.models[x.model] = Served(@)]
  <2>1. [cooling |-> 0, disabled |-> 0] \in RouteCapped
    BY CeilingOrder DEF RouteCapped
  <2>2. TableCapped(served)
    <3> DEFINE cs == [t.routes EXCEPT ![RouteOf(x)] = [cooling |-> 0, disabled |-> 0]]
               gs == [t.groups EXCEPT ![x.group] = 0]
               ms == [t.models EXCEPT ![x.model] = Served(@)]
    <3>1. served = [[[t EXCEPT !.routes = cs] EXCEPT !.groups = gs] EXCEPT !.models = ms]
      BY Zenon
    <3>2. cs \in [Routes -> RouteCapped]
      BY <2>1 DEF TableCapped
    <3>3. gs \in [Groups -> 0 .. QuotaCeiling]
      <4>1. 0 \in 0 .. QuotaCeiling
        BY Ceilings
      <4> QED BY <4>1 DEF TableCapped
    <3> HIDE DEF served, cs, gs, ms
    <3> QED BY <3>1, <3>2, <3>3, OtherRoutes, OtherGroups, OtherModels
  <2> HIDE DEF served
  <2>3. [k \in Keys |-> IF k = x.key
                        THEN [served.keys[k] EXCEPT !.cooling = 0]
                        ELSE served.keys[k]] \in [Keys -> KeyCapped]
    BY <2>2, CeilingOrder DEF TableCapped, KeyCapped
  <2>4. TableCapped([served EXCEPT !.keys =
          [k \in Keys |-> IF k = x.key
                          THEN [served.keys[k] EXCEPT !.cooling = 0]
                          ELSE served.keys[k]]])
    BY <2>2, <2>3, OtherKeys
  <2> QED BY <2>4 DEF NoteSuccess, WithKey, served
<1>2. TableCapped(NoteRejected(t, x))
  <2>1. ASSUME NEW k \in KeyCapped
        PROVE  [k EXCEPT !.unusable = TRUE, !.cooling = 0] \in KeyCapped
    <3>1. 0 \in 0 .. KeyCeiling
      BY CeilingOrder
    <3> QED BY <3>1 DEF KeyCapped
  <2>2. [k \in Keys |->
           IF k = x.key
           THEN [t.keys[k] EXCEPT !.unusable = TRUE, !.cooling = 0]
           ELSE t.keys[k]] \in [Keys -> KeyCapped]
    BY <2>1 DEF TableCapped
  <2> QED BY <2>2, OtherKeys DEF NoteRejected, WithKey
<1>3. TableCapped(NoteMissing(t, x))
  <2> DEFINE cs == [t.routes EXCEPT ![RouteOf(x)].disabled = MissingCooldown]
             ms == [t.models EXCEPT ![x.model] = AfterMissing(@, x.group)]
  <2>1. NoteMissing(t, x) = [[t EXCEPT !.routes = cs] EXCEPT !.models = ms]
    BY Zenon DEF NoteMissing
  <2>2. \A c \in RouteCapped :
          [c EXCEPT !.disabled = MissingCooldown] \in RouteCapped
    BY ModelAssumption DEF ModelAssumption, RouteCapped
  <2>3. cs \in [Routes -> RouteCapped]
    BY <2>2 DEF TableCapped
  <2> DEFINE out == [t EXCEPT !.routes = cs]
  <2>4. TableCapped(out)
    BY <2>3, OtherRoutes
  <2> HIDE DEF cs, ms, out
  <2>5. TableCapped([out EXCEPT !.models = ms])
    BY <2>4, OtherModels
  <2> QED BY <2>1, <2>5, Zenon DEF out
<1> QED BY <1>1, <1>2, <1>3

LEMMA LimitCapped ==
  ASSUME NEW t, TableCapped(t), NEW x, NEW d \in 0 .. RouteCeiling
  PROVE  TableCapped(NoteRateLimited(t, x, d))
<1> DEFINE cs == [t.routes EXCEPT ![RouteOf(x)].cooling = d]
           ms == [t.models EXCEPT ![x.model] = AfterRouteFailure(@, x.group)]
<1>1. NoteRateLimited(t, x, d) = [[t EXCEPT !.routes = cs] EXCEPT !.models = ms]
  BY Zenon DEF NoteRateLimited
<1>2. \A c \in RouteCapped : [c EXCEPT !.cooling = d] \in RouteCapped
  BY DEF RouteCapped
<1>3. cs \in [Routes -> RouteCapped]
  BY <1>2 DEF TableCapped
<1> DEFINE out == [t EXCEPT !.routes = cs]
<1>4. TableCapped(out)
  BY <1>3, OtherRoutes
<1> HIDE DEF cs, ms, out
<1>5. TableCapped([out EXCEPT !.models = ms])
  BY <1>4, OtherModels
<1> QED BY <1>1, <1>5, Zenon DEF out

LEMMA QuotaCapped ==
  ASSUME NEW t, TableCapped(t), NEW x, NEW d \in 0 .. QuotaCeiling
  PROVE  TableCapped(AllLooked(NoteQuotaExhausted(t, x, d)))
<1> DEFINE ks == [k \in Keys |-> IF Pool[Entries[k]].group = x.group
                                 THEN [t.keys[k] EXCEPT !.cooling = d]
                                 ELSE t.keys[k]]
           gs == [t.groups EXCEPT ![x.group] = d]
<1>1. NoteQuotaExhausted(t, x, d) = [[t EXCEPT !.groups = gs] EXCEPT !.keys = ks]
  BY Zenon DEF NoteQuotaExhausted
<1>2. ks \in [Keys -> KeyCapped]
  <2>1. d \in 0 .. KeyCeiling
    BY CeilingOrder, Ceilings
  <2>2. \A k \in KeyCapped : [k EXCEPT !.cooling = d] \in KeyCapped
    BY <2>1 DEF KeyCapped
  <2> QED BY <2>2 DEF TableCapped
<1>3. gs \in [Groups -> 0 .. QuotaCeiling]
  BY DEF TableCapped
<1> DEFINE out == [t EXCEPT !.groups = gs]
<1>4. TableCapped(out)
  BY <1>3, OtherGroups
<1> HIDE DEF ks, gs, out
<1>5. TableCapped([out EXCEPT !.keys = ks])
  BY <1>2, <1>4, OtherKeys
<1>6. TableCapped(NoteQuotaExhausted(t, x, d))
  BY <1>1, <1>5, Zenon DEF out
<1> QED BY <1>6, OtherModels DEF AllLooked

LEMMA TransientCapped ==
  ASSUME NEW t, TableCapped(t), NEW x, NEW d,
         TransientCooldown(x, d) \in 0 .. KeyCeiling
  PROVE  TableCapped(NoteTransient(t, x, d))
<1> DEFINE failed == [t EXCEPT !.models[x.model] = AfterRouteFailure(@, x.group)]
<1>1. TableCapped(failed)
  BY OtherModels
<1> HIDE DEF failed
<1>2. [k \in Keys |->
         IF k = x.key
         THEN [failed.keys[k] EXCEPT !.cooling = IF HasAlternatives(x)
                                                 THEN TransientCooldown(x, d)
                                                 ELSE @]
         ELSE failed.keys[k]] \in [Keys -> KeyCapped]
  BY <1>1 DEF TableCapped, KeyCapped
<1>3. TableCapped([failed EXCEPT !.keys = [k \in Keys |->
         IF k = x.key
         THEN [failed.keys[k] EXCEPT !.cooling = IF HasAlternatives(x)
                                                 THEN TransientCooldown(x, d)
                                                 ELSE @]
         ELSE failed.keys[k]]])
  BY <1>1, <1>2, OtherKeys
<1> QED BY <1>3 DEF NoteTransient, WithKey, failed

-----------------------------------------------------------------------------
(* What the caps rest on: a cooldown is the one its response asked for,    *)
(* and the ladder climbs by a streak that has been read.                   *)
CapInv ==
  /\ TableCapped(table)
  /\ cooldown = [r \in Requests |-> cooldown[r]]
  /\ seen \in [Requests -> Nat \cup {NotSeen}]
  /\ streak \in [Keys -> Nat]
  /\ BudgetInv

LEMMA CapInvInit == LadderInit => CapInv
<1> SUFFICES ASSUME LadderInit PROVE CapInv
  OBVIOUS
<1>1. TableCapped(table)
  BY CeilingOrder, Ceilings
  DEF LadderInit, Init, NewTable, TableCapped, KeyCapped, RouteCapped
<1>2. cooldown = [r \in Requests |-> cooldown[r]]
  BY DEF LadderInit, Init
<1> QED BY <1>1, <1>2, BudgetInvInit DEF LadderInit, CapInv

(* Marks are written and the guard is dropped in one step. *)
LEMMA UnguardedCapped ==
  ASSUME NEW r, NEW t, TableCapped(t)
  PROVE  TableCapped(Unguarded(r, t))
BY GuardCapped DEF Unguarded

LEMMA FailsCapped ==
  ASSUME NEW r \in Requests, NEW decision, NEW d, NEW t,
         cooldown = [q \in Requests |-> cooldown[q]],
         Fails(r, decision, d, t)
  PROVE  /\ cooldown'[r] = d
         /\ TableCapped(t) => TableCapped(table')
BY UnguardedCapped DEF Fails

(* A transient failure on the ladder, whichever the status behind it. *)
LEMMA TransientOnLadder ==
  ASSUME NEW r \in Requests, CapInv,
         NEW d, NEW decision,
         Fails(r, decision, TransientCooldown(target[r], d),
               NoteTransient(table, target[r], d)),
         CoolsFor(r, LadderDurations(attempt[r], 0))
  PROVE  TableCapped(table')
<1>1. PICK e \in LadderDurations(attempt[r], 0) :
        cooldown'[r] = TransientCooldown(target[r], e)
  BY DEF CoolsFor
<1>2. e \in 1 .. LadderCeiling
  BY LadderWithin DEF CapInv, BudgetInv
<1>3. TransientCooldown(target[r], e) \in 0 .. KeyCeiling
  BY <1>2, TransientWithin, CeilingOrder, Ceilings
<1>4. TransientCooldown(target[r], d) \in 0 .. KeyCeiling
  BY <1>1, <1>3, FailsCapped DEF CapInv
<1> QED BY <1>4, TransientCapped, FailsCapped DEF CapInv

LEMMA RespondCapped ==
  ASSUME CapInv, NEW r \in Requests, Respond(r)
  PROVE  TableCapped(table')
<1> USE DEF CapInv
<1>1. CASE Success(r)
  <2>1. table' = Unguarded(r, NoteSuccess(table, target[r]))
    BY <1>1 DEF Success, Answered
  <2> QED BY <2>1, AnswerCapped, UnguardedCapped
<1>2. CASE Transient(r)
  <2>1. PICK d \in RouteCooldowns :
          Fails(r, "next_attempt", TransientCooldown(target[r], d),
                NoteTransient(table, target[r], d))
    BY <1>2 DEF Transient, Overloaded
  <2>2. CoolsFor(r, LadderDurations(attempt[r], 0))
    BY <1>2 DEF Transient
  <2> QED BY <2>1, <2>2, TransientOnLadder
<1>3. CASE BadRequest(r)
  <2>1. CASE table' = Unguarded(r, table)
    BY <2>1, UnguardedCapped
  <2>2. CASE \E d \in RouteCooldowns :
               Fails(r, "next_attempt", TransientCooldown(target[r], d),
                     NoteTransient(table, target[r], d))
    <3>1. PICK d \in RouteCooldowns :
            Fails(r, "next_attempt", TransientCooldown(target[r], d),
                  NoteTransient(table, target[r], d))
      BY <2>2
    <3>2. pc'[r] # "done"
      BY <3>1 DEF Fails, Goto, BudgetInv
    <3>3. CoolsFor(r, LadderDurations(attempt[r], 0))
      BY <1>3, <3>2 DEF BadRequest
    <3> QED BY <3>1, <3>3, TransientOnLadder
  <2> QED BY <1>3, <2>1, <2>2 DEF BadRequest, Invalid
<1>4. CASE Limited(r)
  <2>1. PICK d \in RouteCooldowns :
          Fails(r, "next_attempt", d, NoteRateLimited(table, target[r], d))
    BY <1>4 DEF Limited, RateLimited
  <2>2. cooldown'[r] \in LadderDurations(attempt[r], seen[r])
    BY <1>4 DEF Limited
  <2>3. seen[r] \in Nat /\ attempt[r] \in Nat
    BY <1>4 DEF Limited, Undecided, BudgetInv
  <2>4. cooldown'[r] = d
    BY <2>1, FailsCapped
  <2>5. d \in 0 .. RouteCeiling
    BY <2>2, <2>3, <2>4, LadderWithin, CeilingOrder, Ceilings
  <2> QED BY <2>1, <2>5, LimitCapped, FailsCapped
<1>5. ASSUME NEW x \in Responses, LimitedHinted(r, x)
      PROVE  TableCapped(table')
  <2>1. PICK d \in RouteCooldowns :
          Fails(r, "next_attempt", d, NoteRateLimited(table, target[r], d))
    BY <1>5 DEF LimitedHinted, RateLimited
  <2>2. cooldown'[r] = d /\ d = HintDuration(HintOf(x))
    BY <1>5, <2>1, FailsCapped DEF LimitedHinted
  <2>3. x \in ResponseType
    BY ResponseAssumption DEF ResponseAssumption
  <2>4. d \in 0 .. RouteCeiling
    BY <2>2, <2>3, HintWithin, CeilingOrder, Ceilings
  <2> QED BY <2>1, <2>4, LimitCapped, FailsCapped
<1>6. ASSUME NEW x \in Responses, QuotaSpent(r, x)
      PROVE  TableCapped(table')
  <2>1. PICK d \in QuotaOpen :
          Fails(r, "next_attempt_group", d,
                AllLooked(NoteQuotaExhausted(table, target[r], d)))
    BY <1>6 DEF QuotaSpent, QuotaExhausted
  <2>2. cooldown'[r] = d /\ d = QuotaDuration(HintOf(x))
    BY <1>6, <2>1, FailsCapped DEF QuotaSpent
  <2>3. x \in ResponseType
    BY ResponseAssumption DEF ResponseAssumption
  <2>4. d \in 0 .. QuotaCeiling
    BY <2>2, <2>3, QuotaWithin, Ceilings
  <2> QED BY <2>1, <2>4, QuotaCapped, FailsCapped
<1>7. ASSUME NEW x \in Responses, Plain(r, x)
      PROVE  TableCapped(table')
  <2>1. CASE Rejected(r)
    BY <2>1, AnswerCapped, FailsCapped DEF Rejected
  <2>2. CASE Forbidden(r)
    BY <2>2, FailsCapped DEF Forbidden
  <2>3. CASE NotFound(r)
    BY <2>3, AnswerCapped, FailsCapped DEF NotFound
  <2>4. CASE Unknown(r)
    BY <2>4, UnguardedCapped DEF Unknown
  <2> QED BY <1>7, <2>1, <2>2, <2>3, <2>4 DEF Plain
<1>8. ASSUME NEW x \in Responses, ReadStreak(r, x)
      PROVE  UNCHANGED table
  BY <1>8 DEF ReadStreak, vars
<1> QED
  BY <1>1, <1>2, <1>3, <1>4, <1>5, <1>6, <1>7, <1>8 DEF Respond

(* Outside the marks of a response a cooldown only runs down. *)
LEMMA HandleCapped ==
  ASSUME CapInv, NEW r \in Requests, Come(r) \/ Handle(r) \/ Leave(r)
  PROVE  TableCapped(table')
<1> USE DEF CapInv
<1>1. ASSUME NEW skip PROVE TableCapped(Looked(table, rotation, skip))
  BY OtherModels DEF Looked
<1>2. CASE Unavailable(r)
  BY <1>1, <1>2 DEF Unavailable, Scan
<1>3. CASE Route(r)
  BY <1>1, <1>3 DEF Route, Scan
<1>4. CASE Dial(r)
  BY <1>4, GuardCapped DEF Dial
<1>5. CASE Decide(r)
  <2>1. UNCHANGED table \/ Scan(skipped[r])
    BY <1>5
    DEF Decide, FailOver, AwaitRoute, Replay, NothingPlanned,
        FailOverElsewhere, Replan, GiveUp
  <2> QED BY <1>1, <2>1 DEF Scan
<1>6. CASE Cancel(r)
  BY <1>6, UnguardedCapped DEF Cancel
<1>7. CASE Arrive(r) \/ Choose(r) \/ Refuse(r) \/ Wake(r)
  BY <1>7 DEF Arrive, Choose, Refuse, Wake, shared
<1> QED
  BY <1>2, <1>3, <1>4, <1>5, <1>6, <1>7 DEF Come, Handle, Leave

(* Cooldowns stay those of the requests, streaks counts of the keys. *)
LEMMA CooldownKept ==
  ASSUME cooldown = [r \in Requests |-> cooldown[r]], [Next]_vars
  PROVE  cooldown' = [r \in Requests |-> cooldown'[r]]
<1>1. ASSUME NEW r, NEW d, cooldown' = [cooldown EXCEPT ![r] = d]
      PROVE  cooldown' = [q \in Requests |-> cooldown'[q]]
  BY <1>1
<1>2. ASSUME NEW r \in Requests, Outcome(r)
      PROVE  \E d : cooldown' = [cooldown EXCEPT ![r] = d]
  BY <1>2
  DEF Outcome, Answered, Overloaded, RateLimited, QuotaExhausted, Rejected,
      Forbidden, NotFound, Invalid, Unknown, Return, Fails
<1>3. ASSUME NEW r \in Requests, Decide(r)
      PROVE  \E d : cooldown' = [cooldown EXCEPT ![r] = d]
  BY <1>3
  DEF Decide, FailOver, AwaitRoute, Replay, FailOverElsewhere, GiveUp,
      Return, Sleep
<1>4. ASSUME NEW r \in Requests, Unavailable(r) \/ Refuse(r) \/ Cancel(r)
      PROVE  \E d : cooldown' = [cooldown EXCEPT ![r] = d]
  BY <1>4 DEF Unavailable, Refuse, Cancel, Return
<1>5. ASSUME NEW r \in Requests,
             Arrive(r) \/ Route(r) \/ Dial(r) \/ Wake(r)
      PROVE  UNCHANGED cooldown
  BY <1>5 DEF Arrive, Route, Dial, Wake
<1>7. ASSUME NEW r \in Requests, Choose(r)
      PROVE  \/ UNCHANGED cooldown
             \/ \E d : cooldown' = [cooldown EXCEPT ![r] = d]
  BY <1>7 DEF Choose, Return
<1>6. Tick \/ UNCHANGED vars => UNCHANGED cooldown
  BY DEF Tick, vars
<1> QED BY <1>1, <1>2, <1>3, <1>4, <1>5, <1>6, <1>7 DEF Next

LEMMA StreaksKept ==
  ASSUME CapInv, [LadderNext]_<<vars, ladder>>
  PROVE  /\ seen' \in [Requests -> Nat \cup {NotSeen}]
         /\ streak' \in [Keys -> Nat]
<1> DEFINE Kept == /\ seen' \in [Requests -> Nat \cup {NotSeen}]
                  /\ streak' \in [Keys -> Nat]
<1> USE DEF CapInv
<1>1. CASE UNCHANGED ladder \/ UNCHANGED <<streak, seen>>
  BY <1>1 DEF ladder
<1>2. ASSUME NEW r \in Requests, Success(r) PROVE Kept
  BY <1>2 DEF Success, WithStreak
<1>3. ASSUME NEW r \in Requests, Limited(r) PROVE Kept
  <2>1. seen[r] + 1 \in Nat
    BY <1>3 DEF Limited, Undecided
  <2> QED BY <1>3, <2>1 DEF Limited, WithStreak
<1>4. ASSUME NEW r \in Requests, NEW x \in Responses, LimitedHinted(r, x)
      PROVE  Kept
  BY <1>4 DEF LimitedHinted, WithStreak
<1>5. ASSUME NEW r \in Requests, NEW x \in Responses, ReadStreak(r, x)
      PROVE  Kept
  BY <1>5 DEF ReadStreak, InTable
<1>6. ASSUME NEW r \in Requests, NEW x \in Responses,
             \/ Transient(r) \/ BadRequest(r) \/ QuotaSpent(r, x)
             \/ Plain(r, x)
      PROVE  UNCHANGED ladder
  BY <1>6 DEF Transient, BadRequest, QuotaSpent, Plain
<1>7. ASSUME NEW r \in Requests, Transient(r) \/ BadRequest(r)
      PROVE  UNCHANGED ladder
  BY <1>7 DEF Transient, BadRequest
<1>8. ASSUME NEW r \in Requests, Come(r) \/ Handle(r) \/ Leave(r)
      PROVE  UNCHANGED ladder
  BY <1>8 DEF Come, Handle, Leave
<1>9. Pass => UNCHANGED <<streak, seen>>
  BY DEF Pass
<1> QED
  BY <1>1, <1>2, <1>3, <1>4, <1>5, <1>6, <1>7, <1>8, <1>9
  DEF LadderNext, Respond

LEMMA CapInvStep == CapInv /\ [LadderNext]_<<vars, ladder>> => CapInv'
<1> SUFFICES ASSUME CapInv, [LadderNext]_<<vars, ladder>> PROVE CapInv'
  OBVIOUS
<1>1. TableCapped(table')
  <2>1. CASE Pass
    BY <2>1, AgedCapped DEF Pass, Tick, CapInv
  <2>2. CASE UNCHANGED <<vars, ladder>>
    BY <2>2 DEF vars, CapInv
  <2> QED BY <2>1, <2>2, RespondCapped, HandleCapped DEF LadderNext
<1>2. [Next]_vars
  BY LadderStep
<1> QED
  BY <1>1, <1>2, CooldownKept, StreaksKept, BudgetInvStep DEF CapInv

(* Whatever the upstream answers, and with whatever hints, no route, key   *)
(* or account is taken out of service beyond the configured ceilings       *)
(* (router.rs:1721, barrier_duration).                                     *)
THEOREM CapsHold == LadderSpec => []CooldownsCapped
<1>1. CapInv => CooldownsCapped
  BY CeilingOrder, Ceilings
  DEF CapInv, TableCapped, KeyCapped, RouteCapped, RouteCeiling, KeyCeiling,
      CooldownsCapped
<1> QED BY <1>1, CapInvInit, CapInvStep, PTL DEF LadderSpec

-----------------------------------------------------------------------------
(* Which operations leave the routes alone, and which do not.              *)
Shaped(t) == t = [keys |-> t.keys, routes |-> t.routes, groups |-> t.groups,
                  models |-> t.models]

SameRoutes(t, u) == Shaped(u) /\ u.routes = t.routes

LEMMA PutElsewhere ==
  ASSUME NEW t, Shaped(t), NEW v
  PROVE  /\ SameRoutes(t, [t EXCEPT !.keys = v])
         /\ SameRoutes(t, [t EXCEPT !.groups = v])
         /\ SameRoutes(t, [t EXCEPT !.models = v])
         /\ Shaped([t EXCEPT !.routes = v])
         /\ [t EXCEPT !.routes = v].routes = v
BY DEF SameRoutes, Shaped

LEMMA SameThenSame ==
  ASSUME NEW t, NEW u, NEW v, SameRoutes(t, u), SameRoutes(u, v)
  PROVE  SameRoutes(t, v)
BY DEF SameRoutes

LEMMA ModelsThenKeys ==
  ASSUME NEW t, Shaped(t), NEW ms, NEW ks
  PROVE  SameRoutes(t, [[t EXCEPT !.models = ms] EXCEPT !.keys = ks])
<1> DEFINE a == [t EXCEPT !.models = ms]
<1>1. SameRoutes(t, a)
  BY PutElsewhere
<1>2. Shaped(a)
  BY <1>1 DEF SameRoutes
<1> HIDE DEF a
<1>3. SameRoutes(a, [a EXCEPT !.keys = ks])
  BY <1>2, PutElsewhere
<1>4. SameRoutes(t, [a EXCEPT !.keys = ks])
  BY <1>1, <1>3, SameThenSame
<1> USE DEF a
<1> QED BY <1>4, Zenon

LEMMA RoutesAlone ==
  ASSUME NEW t, Shaped(t), NEW x, NEW d
  PROVE  /\ SameRoutes(t, BeginAttempt(t, x))
         /\ SameRoutes(t, GuardDropped(t, x, d))
         /\ SameRoutes(t, NoteRejected(t, x))
         /\ SameRoutes(t, NoteTransient(t, x, d))
         /\ SameRoutes(t, NoteQuotaExhausted(t, x, d))
         /\ SameRoutes(t, AllLooked(t))
         /\ SameRoutes(t, Looked(t, rotation, d))
<1>1. SameRoutes(t, BeginAttempt(t, x))
  <2> DEFINE ms == [t.models EXCEPT ![x.model] = AfterBegin(@)]
             a == [t EXCEPT !.models = ms]
             ks == [k \in Keys |->
                      IF k = x.key THEN [a.keys[k] EXCEPT !.inflight = @ + 1]
                      ELSE a.keys[k]]
  <2>1. BeginAttempt(t, x) = [a EXCEPT !.keys = ks]
    BY Zenon DEF BeginAttempt, WithKey
  <2> HIDE DEF ms, ks
  <2>2. SameRoutes(t, [a EXCEPT !.keys = ks])
    BY ModelsThenKeys
  <2> QED BY <2>1, <2>2, Zenon
<1>2. SameRoutes(t, GuardDropped(t, x, d))
  <2> DEFINE ms == [t.models EXCEPT ![x.model] = IF d THEN Dropped(@) ELSE @]
             a == [t EXCEPT !.models = ms]
             ks == [k \in Keys |->
                      IF k = x.key
                      THEN [a.keys[k] EXCEPT
                              !.inflight = IF @ = 0 THEN 0 ELSE @ - 1]
                      ELSE a.keys[k]]
  <2>1. GuardDropped(t, x, d) = [a EXCEPT !.keys = ks]
    BY Zenon DEF GuardDropped, WithoutProbe, WithKey
  <2> HIDE DEF ms, ks
  <2>2. SameRoutes(t, [a EXCEPT !.keys = ks])
    BY ModelsThenKeys
  <2> QED BY <2>1, <2>2, Zenon
<1>3. SameRoutes(t, NoteTransient(t, x, d))
  <2> DEFINE ms == [t.models EXCEPT ![x.model] =
                      AfterRouteFailure(t.models[x.model], x.group)]
             a == [t EXCEPT !.models = ms]
             ks == [k \in Keys |->
                      IF k = x.key
                      THEN [a.keys[k] EXCEPT
                              !.cooling = IF HasAlternatives(x)
                                          THEN TransientCooldown(x, d) ELSE @]
                      ELSE a.keys[k]]
  <2>1. NoteTransient(t, x, d) = [a EXCEPT !.keys = ks]
    BY Zenon DEF NoteTransient, WithKey
  <2> HIDE DEF ms, ks
  <2>2. SameRoutes(t, [a EXCEPT !.keys = ks])
    BY ModelsThenKeys
  <2> QED BY <2>1, <2>2, Zenon
<1>4. SameRoutes(t, NoteRejected(t, x))
  BY PutElsewhere DEF NoteRejected, WithKey
<1>5. SameRoutes(t, NoteQuotaExhausted(t, x, d))
  <2> DEFINE a == [t EXCEPT !.groups[x.group] = d]
             ks == [k \in Keys |-> IF Pool[Entries[k]].group = x.group
                                   THEN [t.keys[k] EXCEPT !.cooling = d]
                                   ELSE t.keys[k]]
  <2>1. NoteQuotaExhausted(t, x, d) = [a EXCEPT !.keys = ks]
    BY Zenon DEF NoteQuotaExhausted
  <2>2. SameRoutes(t, a)
    BY PutElsewhere
  <2>3. Shaped(a)
    BY <2>2 DEF SameRoutes
  <2> HIDE DEF a, ks
  <2>4. SameRoutes(a, [a EXCEPT !.keys = ks])
    BY <2>3, PutElsewhere
  <2> QED BY <2>1, <2>2, <2>4, SameThenSame
<1>6. SameRoutes(t, AllLooked(t))
  BY PutElsewhere DEF AllLooked
<1>7. SameRoutes(t, Looked(t, rotation, d))
  BY PutElsewhere DEF Looked
<1> QED BY <1>1, <1>2, <1>3, <1>4, <1>5, <1>6, <1>7

LEMMA RoutesThenModels ==
  ASSUME NEW t, Shaped(t), NEW cs, NEW ms
  PROVE  /\ Shaped([[t EXCEPT !.routes = cs] EXCEPT !.models = ms])
         /\ [[t EXCEPT !.routes = cs] EXCEPT !.models = ms].routes = cs
<1> DEFINE a == [t EXCEPT !.routes = cs]
<1>1. Shaped(a) /\ a.routes = cs
  BY PutElsewhere
<1> HIDE DEF a
<1>2. SameRoutes(a, [a EXCEPT !.models = ms])
  BY <1>1, PutElsewhere
<1>3. Shaped([a EXCEPT !.models = ms]) /\ [a EXCEPT !.models = ms].routes = cs
  BY <1>1, <1>2 DEF SameRoutes
<1> USE DEF a
<1> QED BY <1>3, Zenon

LEMMA LimitRoutes ==
  ASSUME NEW t, Shaped(t), NEW x, NEW d
  PROVE  /\ Shaped(NoteRateLimited(t, x, d))
         /\ NoteRateLimited(t, x, d).routes =
              [t.routes EXCEPT ![RouteOf(x)].cooling = d]
<1> DEFINE cs == [t.routes EXCEPT ![RouteOf(x)].cooling = d]
           ms == [t.models EXCEPT ![x.model] =
                    AfterRouteFailure(t.models[x.model], x.group)]
<1>1. NoteRateLimited(t, x, d) = [[t EXCEPT !.routes = cs] EXCEPT !.models = ms]
  BY Zenon DEF NoteRateLimited
<1> HIDE DEF cs, ms
<1>3. /\ Shaped([[t EXCEPT !.routes = cs] EXCEPT !.models = ms])
      /\ [[t EXCEPT !.routes = cs] EXCEPT !.models = ms].routes = cs
  BY RoutesThenModels
<1>2. Shaped(NoteRateLimited(t, x, d)) /\ NoteRateLimited(t, x, d).routes = cs
  BY <1>1, <1>3, Zenon
<1> USE DEF cs
<1> QED BY <1>2, Zenon

LEMMA MissingRoutes ==
  ASSUME NEW t, Shaped(t), NEW x
  PROVE  /\ Shaped(NoteMissing(t, x))
         /\ NoteMissing(t, x).routes =
              [t.routes EXCEPT ![RouteOf(x)].disabled = MissingCooldown]
<1> DEFINE cs == [t.routes EXCEPT ![RouteOf(x)].disabled = MissingCooldown]
           ms == [t.models EXCEPT ![x.model] =
                    AfterMissing(t.models[x.model], x.group)]
<1>1. NoteMissing(t, x) = [[t EXCEPT !.routes = cs] EXCEPT !.models = ms]
  BY Zenon DEF NoteMissing
<1> HIDE DEF cs, ms
<1>3. /\ Shaped([[t EXCEPT !.routes = cs] EXCEPT !.models = ms])
      /\ [[t EXCEPT !.routes = cs] EXCEPT !.models = ms].routes = cs
  BY RoutesThenModels
<1>2. Shaped(NoteMissing(t, x)) /\ NoteMissing(t, x).routes = cs
  BY <1>1, <1>3, Zenon
<1> USE DEF cs
<1> QED BY <1>2, Zenon

LEMMA SuccessRoutes ==
  ASSUME NEW t, Shaped(t), NEW x
  PROVE  /\ Shaped(NoteSuccess(t, x))
         /\ NoteSuccess(t, x).routes =
              [t.routes EXCEPT ![RouteOf(x)] = [cooling |-> 0, disabled |-> 0]]
<1> DEFINE cs == [t.routes EXCEPT ![RouteOf(x)] =
                                    [cooling |-> 0, disabled |-> 0]]
           gs == [t.groups EXCEPT ![x.group] = 0]
           ms == [t.models EXCEPT ![x.model] = Served(t.models[x.model])]
           a == [t EXCEPT !.routes = cs]
           b == [a EXCEPT !.groups = gs]
           c == [b EXCEPT !.models = ms]
           ks == [k \in Keys |-> IF k = x.key
                                 THEN [c.keys[k] EXCEPT !.cooling = 0]
                                 ELSE c.keys[k]]
<1>1. NoteSuccess(t, x) = [c EXCEPT !.keys = ks]
  BY Zenon DEF NoteSuccess, WithKey
<1> HIDE DEF ks, ms, gs
<1>2. Shaped(a) /\ a.routes = cs
  BY PutElsewhere
<1> HIDE DEF a, cs
<1>4. SameRoutes(a, b)
  BY <1>2, PutElsewhere
<1>5. Shaped(b) /\ b.routes = cs
  BY <1>2, <1>4 DEF SameRoutes
<1> HIDE DEF b
<1>6. SameRoutes(b, [c EXCEPT !.keys = ks])
  BY <1>5, ModelsThenKeys
<1>7. SameRoutes(b, NoteSuccess(t, x))
  BY <1>1, <1>6, Zenon
<1>8. Shaped(NoteSuccess(t, x)) /\ NoteSuccess(t, x).routes = cs
  BY <1>5, <1>7 DEF SameRoutes
<1> USE DEF cs
<1> QED BY <1>8, Zenon

-----------------------------------------------------------------------------
(* A promise is never longer than the cooldown that is to keep it.         *)
Promised(ps, cs) ==
  /\ ps \in [Routes -> Nat]
  /\ \A c \in Routes : ps[c] <= cs[c].cooling

PromiseInv == ReservationInv /\ CapInv /\ Promised(promised, table.routes)

LEMMA TableShaped == ReservationInv => /\ Shaped(table)
                                       /\ table.routes \in [Routes -> RouteType]
BY DEF ReservationInv, Sound, Shaped

LEMMA UnguardedSame ==
  ASSUME NEW r, NEW t, Shaped(t)
  PROVE  Unguarded(r, t).routes = t.routes
BY RoutesAlone DEF Unguarded, SameRoutes

(* The route of a generic 429 cools for as long as was said.               *)
LEMMA LimitedRoutes ==
  ASSUME PromiseInv, NEW r \in Requests, RateLimited(r)
  PROVE  /\ table'.routes =
              [table.routes EXCEPT ![RouteOf(target[r])].cooling = cooldown'[r]]
         /\ cooldown'[r] \in Nat
<1>1. PICK d \in RouteCooldowns :
        Fails(r, "next_attempt", d, NoteRateLimited(table, target[r], d))
  BY DEF RateLimited
<1>2. cooldown'[r] = d
  BY <1>1, FailsCapped DEF PromiseInv, CapInv
<1>3. d \in Nat
  BY TableAssumption DEF TableAssumption
<1>4. table' = Unguarded(r, NoteRateLimited(table, target[r], d))
  BY <1>1 DEF Fails
<1>5. /\ Shaped(NoteRateLimited(table, target[r], d))
      /\ NoteRateLimited(table, target[r], d).routes =
           [table.routes EXCEPT ![RouteOf(target[r])].cooling = d]
  <2>1. Shaped(table)
    BY TableShaped DEF PromiseInv
  <2> DEFINE x == target[r]
  <2> HIDE DEF x
  <2>2. /\ Shaped(NoteRateLimited(table, x, d))
        /\ NoteRateLimited(table, x, d).routes =
             [table.routes EXCEPT ![RouteOf(x)].cooling = d]
    BY <2>1, LimitRoutes
  <2> QED BY <2>2 DEF x
<1>6. table'.routes = NoteRateLimited(table, target[r], d).routes
  BY <1>4, <1>5, UnguardedSame
<1> QED BY <1>2, <1>3, <1>5, <1>6

(* A hint is a number of ticks, cut at its ceiling like the cooldown.      *)
LEMMA HintKept ==
  ASSUME NEW x \in ResponseType, Authoritative(x)
  PROVE  /\ Lesser(HintOf(x), HintCeiling) \in Nat
         /\ Lesser(HintOf(x), HintCeiling) <= HintDuration(HintOf(x))
<1>1. HintOf(x) \in Nat
  <2>1. /\ x.header \in Nat \cup {-1}
        /\ x.structured \in Nat \cup {-1}
        /\ x.text \in Nat \cup {-1}
    BY DEF ResponseType, Hints, NoHint
  <2>2. CASE HintSource(x) = "header"
    BY <2>1, <2>2 DEF HintOf, HintSource, Parsed, NoHint
  <2>3. CASE HintSource(x) = "structured"
    BY <2>1, <2>3 DEF HintOf, HintSource, Parsed, NoHint
  <2>4. CASE HintSource(x) = "text"
    BY <2>1, <2>4 DEF HintOf, HintSource, Parsed, NoHint
  <2> QED BY <2>2, <2>3, <2>4 DEF Authoritative, HintSource
<1> QED
  BY <1>1, Ceilings DEF HintDuration, Clamped, Lesser, Greater

LEMMA Renewed ==
  ASSUME NEW ps, NEW cs, Promised(ps, cs), cs \in [Routes -> RouteType],
         NEW c, NEW d \in Nat, NEW e \in Nat, e <= d
  PROVE  Promised([ps EXCEPT ![c] = e], [cs EXCEPT ![c].cooling = d])
BY DEF Promised, RouteType

LEMMA Forgiven ==
  ASSUME NEW ps, NEW cs, Promised(ps, cs), cs \in [Routes -> RouteType],
         NEW c
  PROVE  Promised([ps EXCEPT ![c] = 0],
                  [cs EXCEPT ![c] = [cooling |-> 0, disabled |-> 0]])
<1> DEFINE z == [cooling |-> 0, disabled |-> 0]
<1>1. z.cooling = 0
  OBVIOUS
<1> HIDE DEF z
<1>2. \A b \in Routes : [cs EXCEPT ![c] = z][b] = IF b = c THEN z ELSE cs[b]
  OBVIOUS
<1> DEFINE ns == [cs EXCEPT ![c] = z]
<1> HIDE DEF ns
<1>4. \A b \in Routes : ns[b].cooling = IF b = c THEN 0 ELSE cs[b].cooling
  BY <1>1, <1>2 DEF ns
<1> DEFINE qs == [ps EXCEPT ![c] = 0]
<1>5. /\ qs \in [Routes -> Nat]
      /\ \A b \in Routes : qs[b] = IF b = c THEN 0 ELSE ps[b]
  BY DEF Promised
<1> HIDE DEF qs
<1>6. \A b \in Routes : qs[b] <= ns[b].cooling
  BY <1>4, <1>5 DEF Promised
<1>3. Promised(qs, ns)
  BY <1>5, <1>6 DEF Promised
<1> QED BY <1>3 DEF ns, qs, z

LEMMA Spared ==
  ASSUME NEW ps, NEW cs, Promised(ps, cs), cs \in [Routes -> RouteType],
         NEW c, NEW d
  PROVE  Promised(ps, [cs EXCEPT ![c].disabled = d])
BY DEF Promised, RouteType

LEMMA RespondPromised ==
  ASSUME PromiseInv, NEW r \in Requests, Respond(r)
  PROVE  Promised(promised', table'.routes)
<1> DEFINE c == RouteOf(target[r])
<1>1. /\ Promised(promised, table.routes) /\ Shaped(table)
      /\ table.routes \in [Routes -> RouteType]
  BY TableShaped DEF PromiseInv
<1>2. CASE Success(r)
  <2>1. table' = Unguarded(r, NoteSuccess(table, target[r]))
    BY <1>2 DEF Success, Answered
  <2>2. /\ Shaped(NoteSuccess(table, target[r]))
        /\ NoteSuccess(table, target[r]).routes =
             [table.routes EXCEPT ![c] = [cooling |-> 0, disabled |-> 0]]
    BY <1>1, SuccessRoutes
  <2>3. table'.routes =
          [table.routes EXCEPT ![c] = [cooling |-> 0, disabled |-> 0]]
    BY <2>1, <2>2, UnguardedSame
  <2>4. promised' = [promised EXCEPT ![c] = 0]
    BY <1>2 DEF Success, Promise
  <2> HIDE DEF c
  <2>5. Promised([promised EXCEPT ![c] = 0],
                 [table.routes EXCEPT ![c] = [cooling |-> 0, disabled |-> 0]])
    BY <1>1, Forgiven
  <2> QED BY <2>3, <2>4, <2>5
<1>3. CASE Limited(r)
  <2>1. /\ table'.routes = [table.routes EXCEPT ![c].cooling = cooldown'[r]]
        /\ cooldown'[r] \in Nat
    BY <1>3, LimitedRoutes DEF Limited
  <2>2. promised' = [promised EXCEPT ![c] = 0]
    BY <1>3 DEF Limited, Promise
  <2> HIDE DEF c
  <2>3. Promised([promised EXCEPT ![c] = 0],
                 [table.routes EXCEPT ![c].cooling = cooldown'[r]])
    BY <1>1, <2>1, Renewed
  <2> QED BY <2>1, <2>2, <2>3
<1>4. ASSUME NEW x \in Responses, LimitedHinted(r, x)
      PROVE  Promised(promised', table'.routes)
  <2>1. /\ table'.routes = [table.routes EXCEPT ![c].cooling = cooldown'[r]]
        /\ cooldown'[r] \in Nat
    BY <1>4, LimitedRoutes DEF LimitedHinted
  <2> DEFINE e == Lesser(HintOf(x), HintCeiling)
  <2>2. promised' = [promised EXCEPT ![c] = e]
    BY <1>4 DEF LimitedHinted, Promise
  <2>3. e \in Nat /\ e <= cooldown'[r]
    <3>1. x \in ResponseType
      BY ResponseAssumption DEF ResponseAssumption
    <3> QED BY <1>4, <3>1, HintKept DEF LimitedHinted
  <2> HIDE DEF c, e
  <2>4. Promised([promised EXCEPT ![c] = e],
                 [table.routes EXCEPT ![c].cooling = cooldown'[r]])
    BY <1>1, <2>1, <2>3, Renewed
  <2> QED BY <2>1, <2>2, <2>4
<1>5. ASSUME UNCHANGED promised, NEW t, SameRoutes(table, t),
             table' = Unguarded(r, t)
      PROVE  Promised(promised', table'.routes)
  <2>1. table'.routes = table.routes
    BY <1>5, UnguardedSame DEF SameRoutes
  <2> QED BY <1>1, <1>5, <2>1
<1>6. SameRoutes(table, table)
  BY <1>1 DEF SameRoutes
<1>7. CASE Transient(r) \/ BadRequest(r)
  <2>1. UNCHANGED promised
    BY <1>7 DEF Transient, BadRequest, ladder
  <2>2. \/ table' = Unguarded(r, table)
        \/ \E d : table' = Unguarded(r, NoteTransient(table, target[r], d))
    BY <1>7 DEF Transient, BadRequest, Overloaded, Invalid, Fails
  <2>3. \A d : SameRoutes(table, NoteTransient(table, target[r], d))
    BY <1>1, RoutesAlone
  <2> QED BY <1>5, <1>6, <2>1, <2>2, <2>3
<1>8. ASSUME NEW x \in Responses, QuotaSpent(r, x)
      PROVE  Promised(promised', table'.routes)
  <2>1. UNCHANGED promised
    BY <1>8 DEF QuotaSpent, ladder
  <2>2. PICK d : table' = Unguarded(r, AllLooked(
                            NoteQuotaExhausted(table, target[r], d)))
    BY <1>8 DEF QuotaSpent, QuotaExhausted, Fails
  <2> DEFINE q == NoteQuotaExhausted(table, target[r], d)
  <2>3. SameRoutes(table, q)
    BY <1>1, RoutesAlone
  <2>4. SameRoutes(q, AllLooked(q))
    <3>1. Shaped(q)
      BY <2>3 DEF SameRoutes
    <3> HIDE DEF q
    <3> QED BY <3>1, RoutesAlone
  <2>5. SameRoutes(table, AllLooked(q))
    BY <2>3, <2>4, SameThenSame
  <2> QED BY <1>5, <2>1, <2>2, <2>5
<1>9. ASSUME NEW x \in Responses, Plain(r, x)
      PROVE  Promised(promised', table'.routes)
  <2>1. UNCHANGED promised
    BY <1>9 DEF Plain, ladder
  <2>2. CASE Rejected(r)
    <3>1. table' = Unguarded(r, NoteRejected(table, target[r]))
      BY <2>2 DEF Rejected, Fails
    <3>2. SameRoutes(table, NoteRejected(table, target[r]))
      BY <1>1, RoutesAlone
    <3> QED BY <1>5, <2>1, <3>1, <3>2
  <2>3. CASE Forbidden(r) \/ Unknown(r)
    <3>1. table' = Unguarded(r, table)
      BY <2>3 DEF Forbidden, Unknown, Fails
    <3> QED BY <1>5, <1>6, <2>1, <3>1
  <2>4. CASE NotFound(r)
    <3>1. table' = Unguarded(r, NoteMissing(table, target[r]))
      BY <2>4 DEF NotFound, Fails
    <3>2. /\ Shaped(NoteMissing(table, target[r]))
          /\ NoteMissing(table, target[r]).routes =
               [table.routes EXCEPT ![c].disabled = MissingCooldown]
      BY <1>1, MissingRoutes
    <3>3. table'.routes = [table.routes EXCEPT ![c].disabled = MissingCooldown]
      BY <3>1, <3>2, UnguardedSame
    <3> HIDE DEF c
    <3>4. Promised(promised,
                   [table.routes EXCEPT ![c].disabled = MissingCooldown])
      BY <1>1, Spared
    <3> QED BY <2>1, <3>3, <3>4
  <2> QED BY <1>9, <2>2, <2>3, <2>4 DEF Plain
<1>10. ASSUME NEW x \in Responses, ReadStreak(r, x)
       PROVE  Promised(promised', table'.routes)
  BY <1>1, <1>10 DEF ReadStreak, vars
<1> QED
  BY <1>2, <1>3, <1>4, <1>7, <1>8, <1>9, <1>10 DEF Respond

LEMMA HandlePromised ==
  ASSUME PromiseInv, NEW r \in Requests, Come(r) \/ Handle(r) \/ Leave(r)
  PROVE  Promised(promised', table'.routes)
<1>1. Promised(promised, table.routes) /\ Shaped(table)
  BY TableShaped DEF PromiseInv
<1>2. UNCHANGED promised
  BY DEF Come, Handle, Leave, ladder
<1>3. table'.routes = table.routes
  <2>1. ASSUME NEW skip, Scan(skip) PROVE table'.routes = table.routes
    BY <1>1, <2>1, RoutesAlone DEF Scan, SameRoutes
  <2>2. CASE Unavailable(r) \/ Route(r)
    BY <2>1, <2>2 DEF Unavailable, Route
  <2>3. CASE Dial(r)
    BY <1>1, <2>3, RoutesAlone DEF Dial, SameRoutes
  <2>4. CASE Decide(r)
    <3>1. UNCHANGED table \/ Scan(skipped[r])
      BY <2>4
      DEF Decide, FailOver, AwaitRoute, Replay, NothingPlanned,
          FailOverElsewhere, Replan, GiveUp
    <3> QED BY <2>1, <3>1
  <2>5. CASE Cancel(r)
    BY <1>1, <2>5, UnguardedSame DEF Cancel
  <2>6. CASE Arrive(r) \/ Choose(r) \/ Refuse(r) \/ Wake(r)
    BY <2>6 DEF Arrive, Choose, Refuse, Wake, shared
  <2> QED
    BY <2>2, <2>3, <2>4, <2>5, <2>6 DEF Come, Handle, Leave
<1> QED BY <1>1, <1>2, <1>3

LEMMA PromiseInvStep ==
  PromiseInv /\ [LadderNext]_<<vars, ladder>> => PromiseInv'
<1> SUFFICES ASSUME PromiseInv, [LadderNext]_<<vars, ladder>>
             PROVE  PromiseInv'
  OBVIOUS
<1>1. ReservationInv'
  BY LadderStep, ReservationStep DEF PromiseInv
<1>2. CapInv'
  BY CapInvStep DEF PromiseInv
<1>3. Promised(promised', table'.routes)
  <2>1. CASE Pass
    <3>1. /\ table'.routes = [c \in Routes |->
                                [table.routes[c] EXCEPT
                                   !.cooling = Decrement(@),
                                   !.disabled = Decrement(@)]]
          /\ promised' = [c \in Routes |-> Decrement(promised[c])]
      BY <2>1 DEF Pass, Tick, TableAged
    <3>2. /\ table.routes \in [Routes -> RouteType]
          /\ Promised(promised, table.routes)
      BY TableShaped DEF PromiseInv
    <3>3. \A c \in Routes :
            table'.routes[c].cooling = Decrement(table.routes[c].cooling)
      <4>1. \A z \in RouteType :
              [z EXCEPT !.cooling = Decrement(@),
                        !.disabled = Decrement(@)].cooling
                = Decrement(z.cooling)
        BY DEF RouteType
      <4> QED BY <3>1, <3>2, <4>1
    <3>4. \A c \in Routes : table.routes[c].cooling \in Nat
      BY <3>2 DEF RouteType
    <3>5. \A a, b \in Nat :
            a <= b => Decrement(a) \in Nat /\ Decrement(a) <= Decrement(b)
      BY DEF Decrement
    <3>6. \A c \in Routes : promised[c] \in Nat
                            /\ promised[c] <= table.routes[c].cooling
      BY <3>2 DEF Promised
    <3>7. promised' \in [Routes -> Nat]
      BY <3>1, <3>4, <3>5, <3>6
    <3>9. \A c \in Routes : promised'[c] = Decrement(promised[c])
      BY <3>1
    <3>8. \A c \in Routes : promised'[c] <= table'.routes[c].cooling
      BY <3>3, <3>4, <3>5, <3>6, <3>9
    <3> QED
      BY <3>7, <3>8 DEF Promised
  <2>2. CASE UNCHANGED <<vars, ladder>>
    BY <2>2 DEF vars, ladder, PromiseInv
  <2> QED BY <2>1, <2>2, RespondPromised, HandlePromised DEF LadderNext
<1> QED BY <1>1, <1>2, <1>3 DEF PromiseInv

-----------------------------------------------------------------------------
(* An upstream's Retry-After is kept: whatever other attempts on the route *)
(* report, and in whichever order, no request plans the route again before *)
(* it is over, unless a later answer or 429 of the route has replaced it   *)
(* or the model is half open (router.rs:1740, "always wins").              *)
THEOREM WaitsAsTold == LadderSpec => RetryAfterKept
<1>1. LadderInit => PromiseInv
  <2> SUFFICES ASSUME LadderInit PROVE PromiseInv
    OBVIOUS
  <2>1. ReservationInv
    BY ReservationInit DEF LadderInit
  <2>2. Promised(promised, table.routes)
    BY DEF LadderInit, Init, NewTable, Promised
  <2> QED BY <2>1, <2>2, CapInvInit DEF PromiseInv
<1>2. PromiseInv /\ [LadderNext]_<<vars, ladder>>
        => [\A r \in Requests :
              pc[r] = "routing" /\ pc'[r] = "choosing"
                => LET c == candidate'[r].route
                   IN  \/ promised[c] = 0
                       \/ table'.models[c[1]].state = "HalfOpen"]_<<vars, ladder>>
  <2> SUFFICES ASSUME PromiseInv, [LadderNext]_<<vars, ladder>>,
                      NEW r \in Requests,
                      pc[r] = "routing", pc'[r] = "choosing"
               PROVE  LET c == candidate'[r].route
                      IN  \/ promised[c] = 0
                          \/ table'.models[c[1]].state = "HalfOpen"
    OBVIOUS
  <2>1. Route(r)
    <3>1. [Next]_vars
      BY LadderStep
    <3>2. Next
      BY <3>1 DEF vars
    <3> QED BY <3>2, OnlyRoutePlans DEF PromiseInv
  <2>2. PICK c \in Routes :
          /\ candidate'[r] = Candidate(c, rotation)
          /\ IsReady(table, c, rotation)
          /\ table'.models[c[1]] = Viewed(table.models[c[1]])
    BY <2>1, PlanIsReady DEF PromiseInv
  <2>7. candidate'[r].route = c
    BY <2>2 DEF Candidate
  <2>3. \/ ~(table.routes[c].cooling > 0)
        \/ Viewed(table.models[c[1]]).state = "HalfOpen"
    BY <2>2, ReadyIff
  <2>4. promised[c] \in Nat /\ promised[c] <= table.routes[c].cooling
    BY <2>2 DEF PromiseInv, Promised
  <2>5. table.routes[c].cooling \in Nat
    BY <2>2, TableShaped DEF PromiseInv, RouteType
  <2>6. \/ promised[c] = 0
        \/ table'.models[c[1]].state = "HalfOpen"
    BY <2>2, <2>3, <2>4, <2>5
  <2> QED BY <2>6, <2>7
<1> QED
  BY <1>1, <1>2, PromiseInvStep, PTL DEF LadderSpec, RetryAfterKept
=============================================================================
