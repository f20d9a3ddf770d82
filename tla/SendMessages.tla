---------------------------- MODULE SendMessages ----------------------------
(***************************************************************************)
(* Concurrent requests through Upstream::send_messages                     *)
(* (src/src/upstream.rs) on one routing table and one proxy-wide breaker.  *)
(*                                                                         *)
(* A handler awaits in two places only: the upstream attempt and the sleep *)
(* before the next one.  It is cut finer than that, at the points where    *)
(* another thread can change what it just read: between the scan of a plan *)
(* and the choice of its key, between the plan and the dial, and between   *)
(* the marks of a failure and the plan that follows.                       *)
(***************************************************************************)
EXTENDS RouteTable, Breaker

CONSTANTS
  Requests,             \* client requests
  Outcomes,             \* the outcomes of an attempt the upstream produces
  MaxRouteAttempts,     \* routing.max_route_attempts
  SameRouteRetries,     \* routing.same_route_429_retries
  RetryAfterMax         \* routing.retry_after_max_secs, in ticks

OutcomeKinds ==
  {"answered", "overloaded", "rate_limited", "quota", "rejected", "forbidden",
   "not_found", "invalid", "unknown", "cancelled"}

ASSUME RequestAssumption ==
  /\ Outcomes \subseteq OutcomeKinds
  /\ MaxRouteAttempts \in Nat \ {0}
  /\ SameRouteRetries \in Nat
  /\ RetryAfterMax \in Nat \ {0}

VARIABLES
  table,      \* the routing table
  rotation,   \* its round-robin counter, modulo Period
  circuit,    \* the proxy-wide breaker
  pc,         \* progress of each request, see States
  attempt,    \* upstream attempts made for it
  skipped,    \* the identities it has dialed
  candidate,  \* what the scan of its plan found, until target() takes it
  target,     \* its current or last target
  holds,      \* requests whose guard holds a model's half-open slot
  probing,    \* requests whose attempt the breaker admitted as a probe
  cooldown,   \* the cooldown its last failure asks for
  replays,    \* same_route_retries
  sleep,      \* ticks left of its sleep
  reply       \* what it got

vars == <<table, rotation, circuit, pc, attempt, skipped, candidate, target,
          holds, probing, cooldown, replays, sleep, reply>>

States ==
  {"idle",
   "routing",      \* at the head of the loop
   "choosing",     \* its plan has a candidate, about to choose the key
   "planned",      \* has a target, about to ask the breaker
   "dialing",      \* the attempt is awaited
   "next_attempt", "next_attempt_group", "next_attempt_model",
                   \* failed, marks written, guard dropped
   "sleeping",
   "done"}

Deciding == {"next_attempt", "next_attempt_group", "next_attempt_model"}

Replies ==
  {"none", "answered", "failure", "refused", "cooling", "unavailable", "gone"}

In(S) == {r \in Requests : pc[r] \in S}

NoTarget == CHOOSE x \in Targets : TRUE
NoCandidate == [route |-> RouteOf(NoTarget), keys |-> <<>>]

TypeOK ==
  /\ table \in TableType
  /\ rotation \in 0 .. Period - 1
  /\ circuit \in CircuitType
  /\ pc \in [Requests -> States]
  /\ attempt \in [Requests -> 0 .. MaxRouteAttempts]
  /\ skipped \in [Requests -> SUBSET Targets]
  /\ candidate \in [Requests -> CandidateType]
  /\ target \in [Requests -> Targets]
  /\ holds \subseteq In({"dialing"})
  /\ probing \subseteq In({"dialing"})
  /\ cooldown \in [Requests -> Nat]
  /\ replays \in [Requests -> 0 .. SameRouteRetries]
  /\ sleep \in [Requests -> Nat]
  /\ reply \in [Requests -> Replies]

Init ==
  /\ table = NewTable
  /\ rotation = 0
  /\ circuit = NewCircuit
  /\ pc = [r \in Requests |-> "idle"]
  /\ attempt = [r \in Requests |-> 0]
  /\ skipped = [r \in Requests |-> {}]
  /\ candidate = [r \in Requests |-> NoCandidate]
  /\ target = [r \in Requests |-> NoTarget]
  /\ holds = {}
  /\ probing = {}
  /\ cooldown = [r \in Requests |-> 0]
  /\ replays = [r \in Requests |-> 0]
  /\ sleep = [r \in Requests |-> 0]
  /\ reply = [r \in Requests |-> "none"]

shared == <<table, rotation, circuit>>

(* The handler returns: its locals are gone, the client has its reply. *)
Return(r, answer) ==
  /\ pc' = [pc EXCEPT ![r] = "done"]
  /\ reply' = [reply EXCEPT ![r] = answer]
  /\ attempt' = [attempt EXCEPT ![r] = 0]
  /\ skipped' = [skipped EXCEPT ![r] = {}]
  /\ candidate' = [candidate EXCEPT ![r] = NoCandidate]
  /\ target' = [target EXCEPT ![r] = NoTarget]
  /\ holds' = holds \ {r}
  /\ probing' = probing \ {r}
  /\ cooldown' = [cooldown EXCEPT ![r] = 0]
  /\ replays' = [replays EXCEPT ![r] = 0]
  /\ sleep' = [sleep EXCEPT ![r] = 0]

Goto(r, to) == pc' = [pc EXCEPT ![r] = to]

(* Admitted by server.rs, which samples the breaker's state. *)
Arrive(r) ==
  /\ pc[r] = "idle"
  /\ Goto(r, "routing")
  /\ circuit' = Observed(circuit)
  /\ UNCHANGED <<table, rotation, attempt, skipped, candidate, target, holds,
                 probing, cooldown, replays, sleep, reply>>

-----------------------------------------------------------------------------
(* The head of the loop.  A plan advances the round-robin counter, and the *)
(* scan looks at the models it passes even when it finds none.             *)
Scan(skip) == table' = Looked(table, rotation, skip)

NextRotation == rotation' = (rotation + 1) % Period

Route(r) ==
  /\ pc[r] = "routing"
  /\ \E p \in Plans(table, rotation, skipped[r]) :
       candidate' = [candidate EXCEPT ![r] = p.candidate]
  /\ Goto(r, "choosing")
  /\ Scan(skipped[r])
  /\ NextRotation
  /\ UNCHANGED <<circuit, attempt, skipped, target, holds, probing, cooldown,
                 replays, sleep, reply>>

(* target(), which reads the keys anew.  A position that is none of the    *)
(* table's (see InTable) is out of bounds there, and the handler panics.   *)
Choose(r) ==
  /\ pc[r] = "choosing"
  /\ IF InTable(KeyFound(table, candidate[r]))
     THEN /\ Goto(r, "planned")
          /\ target' = [target EXCEPT ![r] = TargetOf(table, candidate[r])]
          /\ candidate' = [candidate EXCEPT ![r] = NoCandidate]
          /\ UNCHANGED <<attempt, skipped, holds, probing, cooldown, replays,
                         sleep, reply>>
     ELSE Return(r, "gone")
  /\ UNCHANGED shared

(* route_unavailable(): 429 with a Retry-After if some route will be back, *)
(* 503 "no usable upstream route is configured" if none will.              *)
Unavailable(r) ==
  /\ pc[r] = "routing"
  /\ Plans(table, rotation, skipped[r]) = {}
  /\ Return(r, IF ErrorWaits(table, rotation, skipped[r]) = {}
               THEN "unavailable" ELSE "cooling")
  /\ Scan(skipped[r])
  /\ UNCHANGED <<rotation, circuit>>

Refuse(r) ==
  /\ pc[r] = "planned"
  /\ ~Admits(circuit)
  /\ Return(r, "refused")
  /\ UNCHANGED shared

DialUncounted(r) ==
  /\ pc[r] = "planned"
  /\ Admits(circuit)
  /\ Goto(r, "dialing")
  /\ circuit' = AfterAdmit(circuit)
  /\ probing' = IF circuit.state = "Closed" THEN probing ELSE probing \cup {r}
  /\ table' = BeginAttempt(table, target[r])
  /\ holds' = IF TakesProbe(table.models[target[r].model])
              THEN holds \cup {r} ELSE holds
  /\ UNCHANGED <<rotation, attempt, skipped, candidate, target, cooldown, replays,
                 sleep, reply>>
DialUnasked(r) ==
  /\ pc[r] = "planned"
  /\ Goto(r, "dialing")
  /\ attempt' = [attempt EXCEPT ![r] = @ + 1]
  /\ skipped' = [skipped EXCEPT ![r] = @ \cup {target[r]}]
  /\ table' = BeginAttempt(table, target[r])
  /\ holds' = IF TakesProbe(table.models[target[r].model])
              THEN holds \cup {r} ELSE holds
  /\ UNCHANGED <<rotation, circuit, probing, candidate, target, cooldown,
                 replays, sleep, reply>>
Dial(r) ==
  /\ pc[r] = "planned"
  /\ Admits(circuit)
  /\ Goto(r, "dialing")
  /\ circuit' = AfterAdmit(circuit)
  /\ probing' = IF circuit.state = "Closed" THEN probing ELSE probing \cup {r}
  /\ attempt' = [attempt EXCEPT ![r] = @ + 1]
  /\ skipped' = [skipped EXCEPT ![r] = @ \cup {target[r]}]
  /\ table' = BeginAttempt(table, target[r])
  /\ holds' = IF TakesProbe(table.models[target[r].model])
              THEN holds \cup {r} ELSE holds
  /\ UNCHANGED <<rotation, candidate, target, cooldown, replays, sleep, reply>>

-----------------------------------------------------------------------------
(* The attempt is over.  marked is the table after the marks of the        *)
(* outcome; the guard drops before the next step is decided.               *)
Ends(r, outcome) == pc[r] = "dialing" /\ outcome \in Outcomes

Unguarded(r, marked) == GuardDropped(marked, target[r], r \in holds)

Fails(r, decision, d, marked) ==
  /\ Goto(r, decision)
  /\ table' = Unguarded(r, marked)
  /\ cooldown' = [cooldown EXCEPT ![r] = d]
  /\ holds' = holds \ {r}
  /\ probing' = probing \ {r}
  /\ UNCHANGED <<rotation, attempt, skipped, candidate, target, replays, sleep,
                 reply>>

(* The first byte of a stream, or a complete JSON body.                    *)
Answered(r) ==
  /\ Ends(r, "answered")
  /\ table' = Unguarded(r, NoteSuccess(table, target[r]))
  /\ circuit' = AfterSuccess(circuit)
  /\ Return(r, "answered")
  /\ UNCHANGED rotation

(* Transport error, 5xx, EOF, first-byte timeout, malformed JSON. *)
Overloaded(r) ==
  /\ Ends(r, "overloaded")
  /\ circuit' = AfterOverload(circuit)
  /\ \E d \in RouteCooldowns :
       Fails(r, "next_attempt", TransientCooldown(target[r], d),
             NoteTransient(table, target[r], d))

RateLimited(r) ==
  /\ Ends(r, "rate_limited")
  /\ \E d \in RouteCooldowns :
       Fails(r, "next_attempt", d, NoteRateLimited(table, target[r], d))
  /\ UNCHANGED circuit

QuotaExhausted(r) ==
  /\ Ends(r, "quota")
  /\ \E d \in QuotaOpen :
       LET marked == AllLooked(NoteQuotaExhausted(table, target[r], d))
       IN  /\ Fails(r, "next_attempt_group", d, marked)
           /\ circuit' = IF NoUsableRoute(marked, rotation)
                         THEN AfterQuota(circuit, d) ELSE circuit

(* 401 condemns the credential; 403 condemns nothing. *)
Rejected(r) ==
  /\ Ends(r, "rejected")
  /\ circuit' = AfterNeutral(circuit)
  /\ Fails(r, "next_attempt", 0, NoteRejected(table, target[r]))

Forbidden(r) ==
  /\ Ends(r, "forbidden")
  /\ circuit' = AfterNeutral(circuit)
  /\ Fails(r, "next_attempt", 0, table)

NotFound(r) ==
  /\ Ends(r, "not_found")
  /\ circuit' = AfterNeutral(circuit)
  /\ Fails(r, "next_attempt_model", 1, NoteMissing(table, target[r]))

(* A 400 is taken for a transient failure while there is budget left. *)
Invalid(r) ==
  /\ Ends(r, "invalid")
  /\ circuit' = AfterNeutral(circuit)
  /\ \/ /\ attempt[r] < MaxRouteAttempts
        /\ \E d \in RouteCooldowns :
             Fails(r, "next_attempt", TransientCooldown(target[r], d),
                   NoteTransient(table, target[r], d))
     \/ /\ attempt[r] >= MaxRouteAttempts
        /\ table' = Unguarded(r, table)
        /\ Return(r, "failure")
        /\ UNCHANGED rotation

(* A status no rule classifies ends the request. *)
Unknown(r) ==
  /\ Ends(r, "unknown")
  /\ circuit' = AfterNeutral(circuit)
  /\ table' = Unguarded(r, table)
  /\ Return(r, "failure")
  /\ UNCHANGED rotation

(* The client disconnects: the handler is dropped at its await. *)
Cancel(r) ==
  /\ "cancelled" \in Outcomes
  /\ \/ pc[r] = "dialing" /\ table' = Unguarded(r, table)
     \/ pc[r] = "sleeping" /\ UNCHANGED table
  /\ Return(r, "gone")
  /\ UNCHANGED <<rotation, circuit>>

-----------------------------------------------------------------------------
(* next_attempt, next_attempt_group, next_attempt_model. *)
BudgetLeftOffByOne(r) == attempt[r] <= MaxRouteAttempts
BudgetLeft(r) == attempt[r] < MaxRouteAttempts

(* The locals of the arm are gone when the loop goes on. *)
Sleep(r, d) ==
  /\ Goto(r, IF d > 0 THEN "sleeping" ELSE "routing")
  /\ sleep' = [sleep EXCEPT ![r] = d]
  /\ target' = [target EXCEPT ![r] = NoTarget]
  /\ cooldown' = [cooldown EXCEPT ![r] = 0]

Tried == <<circuit, attempt, skipped, candidate, holds, probing, reply>>

(* followup() found a plan.  The loop plans anew, after sleeping until the *)
(* first alternative of the planned tier is back, if one is waited for.    *)
FailOver(r) ==
  /\ pc[r] = "next_attempt" /\ BudgetLeft(r)
  /\ \E p \in Plans(table, rotation, skipped[r]) : Sleep(r, p.wait)
  /\ Scan(skipped[r])
  /\ NextRotation
  /\ UNCHANGED <<Tried, replays>>

ErrorWait(r) == ErrorWaits(table, rotation, skipped[r])

Waitable(r) == ErrorWait(r) # {} /\ Min(ErrorWait(r)) <= RetryAfterMax

NothingPlanned(r) ==
  /\ pc[r] = "next_attempt" /\ BudgetLeft(r)
  /\ Plans(table, rotation, skipped[r]) = {}
  /\ Scan(skipped[r])

(* followup() found none, but one that is back soon. *)
AwaitRoute(r) ==
  /\ NothingPlanned(r)
  /\ Waitable(r)
  /\ Sleep(r, Min(ErrorWait(r)))
  /\ UNCHANGED <<Tried, rotation, replays>>

(* Followup::Return, the last resort: the same route once it has cooled.   *)
MayReplay(r) ==
  replays[r] < SameRouteRetries /\ cooldown[r] <= RetryAfterMax

Replay(r) ==
  /\ NothingPlanned(r)
  /\ ~Waitable(r)
  /\ MayReplay(r)
  /\ replays' = [replays EXCEPT ![r] = @ + 1]
  /\ Sleep(r, cooldown[r])
  /\ UNCHANGED <<Tried, rotation>>

(* A plan of next_attempt_group counts only in another group, one of       *)
(* next_attempt_model only with another identity; neither sleeps.  Of a    *)
(* plan that is dropped after the comparison the choice of the key is left *)
(* open, as others may change the table between its scan and its target(). *)
Elsewhere(r, x) ==
  IF pc[r] = "next_attempt_group"
  THEN x.group # target[r].group
  ELSE x # target[r]

Replan(r) ==
  /\ pc[r] \in {"next_attempt_group", "next_attempt_model"} /\ BudgetLeft(r)
  /\ Scan(skipped[r])

FailOverElsewhere(r) ==
  /\ Replan(r)
  /\ \E p \in Plans(table, rotation, skipped[r]) :
       /\ \E x \in TargetsOf(p.candidate) : Elsewhere(r, x)
       /\ Sleep(r, 0)
  /\ NextRotation
  /\ UNCHANGED <<Tried, replays>>

(* The request ends in the failure it met last. *)
GiveUp(r) ==
  /\ \/ /\ pc[r] \in Deciding
        /\ ~BudgetLeft(r)
        /\ UNCHANGED <<table, rotation>>
     \/ /\ NothingPlanned(r)
        /\ ~Waitable(r)
        /\ ~MayReplay(r)
        /\ UNCHANGED rotation
     \/ /\ Replan(r)
        /\ \/ /\ Plans(table, rotation, skipped[r]) = {}
              /\ UNCHANGED rotation
           \/ /\ \E p \in Plans(table, rotation, skipped[r]) :
                   \E x \in TargetsOf(p.candidate) : ~Elsewhere(r, x)
              /\ NextRotation
  /\ Return(r, "failure")
  /\ UNCHANGED circuit

Wake(r) ==
  /\ pc[r] = "sleeping"
  /\ sleep[r] = 0
  /\ Goto(r, "routing")
  /\ UNCHANGED <<shared, attempt, skipped, candidate, target, holds, probing,
                 cooldown, replays, sleep, reply>>

Tick ==
  /\ table' = TableAged(table)
  /\ circuit' = CircuitAged(circuit)
  /\ sleep' = [r \in Requests |-> Decrement(sleep[r])]
  /\ UNCHANGED <<rotation, pc, attempt, skipped, candidate, target, holds,
                 probing, cooldown, replays, reply>>

Outcome(r) ==
  \/ Answered(r) \/ Overloaded(r) \/ RateLimited(r) \/ QuotaExhausted(r)
  \/ Rejected(r) \/ Forbidden(r) \/ NotFound(r) \/ Invalid(r) \/ Unknown(r)

Decide(r) ==
  \/ FailOver(r) \/ AwaitRoute(r) \/ Replay(r) \/ FailOverElsewhere(r)
  \/ GiveUp(r)

Next ==
  \/ \E r \in Requests :
       \/ Arrive(r) \/ Route(r) \/ Choose(r) \/ Unavailable(r) \/ Refuse(r)
       \/ Dial(r) \/ Outcome(r) \/ Cancel(r) \/ Decide(r) \/ Wake(r)
  \/ Tick

Spec == Init /\ [][Next]_vars

(* Time passes, a handler takes its next step, and the connect, read and   *)
(* first-byte timeouts end every attempt.  Nobody is obliged to send a     *)
(* request or to disconnect.                                               *)
FairSpec ==
  /\ Spec
  /\ WF_vars(Tick)
  /\ \A r \in Requests :
       WF_vars(Route(r) \/ Choose(r) \/ Unavailable(r) \/ Refuse(r) \/ Dial(r)
                 \/ Outcome(r) \/ Decide(r) \/ Wake(r))

-----------------------------------------------------------------------------
(* Whatever mix of failures, replans, sleeps and replays a request meets,  *)
(* it is back at the loop's head only with an attempt left, so the check   *)
(* there (upstream.rs:157) never fires and no path multiplies the budget.  *)
OneBudget ==
  \A r \in Requests :
    pc[r] \in {"routing", "choosing", "planned", "sleeping"}
      => attempt[r] < MaxRouteAttempts

(* Every reservation made by begin_attempt is given back on every path out *)
(* of the attempt: a key's inflight count and a model's half-open slot     *)
(* belong to attempts in flight, never to a request that is gone.          *)
ReservationsHeld ==
  /\ \A k \in Keys :
       table.keys[k].inflight =
         Cardinality({r \in In({"dialing"}) : target[r].key = k})
  /\ \A m \in Models :
       table.models[m].probe =>
         /\ table.models[m].state = "HalfOpen"
         /\ \E r \in holds : target[r].model = m

StaysReady(c) == IsReady(table, c, rotation) => IsReady(table', c, rotation)

(* No outcome of an attempt takes a route of another model on another      *)
(* account out of service (docs/routing.md:411-412, invariants 5 and 6).   *)
FailureDomain ==
  [][\A r \in Requests :
       pc[r] = "dialing" /\ pc'[r] # "dialing"
         => \A c \in Routes :
              c[1] # target[r].model /\ c[2] # target[r].group
                => StaysReady(c)]_vars

(* A generic 429 takes out its own route; another route of the same model  *)
(* goes with it only when the model's circuit opens, and the other models  *)
(* of the account stay (docs/routing.md:89, README.md:272).                *)
OneRouteCools ==
  [][\A r \in Requests :
       RateLimited(r)
         => \A c \in Routes \ {RouteOf(target[r])} :
              \/ StaysReady(c)
              \/ c[1] = target[r].model /\ table'.models[c[1]].state = "Open"]_vars

(* A cooldown is served: it is cut short only by the clock, or by the end  *)
(* of an attempt that met the same route, account or key.  An answer on    *)
(* one account does not bring back another.                                *)
Ended(x) ==
  \E r \in Requests :
    pc[r] = "dialing" /\ pc'[r] # "dialing" /\ x = target[r]

CooldownsServed ==
  [][/\ \A c \in Routes :
          table'.routes[c].cooling < Decrement(table.routes[c].cooling)
            => \E x \in Targets : Ended(x) /\ RouteOf(x) = c
     /\ \A g \in Groups :
          table'.groups[g] < Decrement(table.groups[g])
            => \E x \in Targets : Ended(x) /\ x.group = g
     /\ \A k \in Keys :
          table'.keys[k].cooling < Decrement(table.keys[k].cooling)
            => \E x \in Targets :
                 Ended(x) /\ (x.key = k \/ x.group = Pool[Entries[k]].group)]_vars

(* A model is blamed only for what happened on it: evidence against it on  *)
(* an account comes from an attempt made there, its circuit leaves Closed  *)
(* and the model counts as missing only when an attempt ends on an account *)
(* that makes the evidence complete (README.md:280 "One failing account    *)
(* can therefore never globally disable a model"), however often it fails. *)
EndedOn(m, g) == \E x \in Targets : Ended(x) /\ RouteOf(x) = <<m, g>>

Blamed(m, old, new) ==
  /\ \A g \in Groups :
       new.failing[g] < old.failing[g] \/ new.missing[g] < old.missing[g]
         => EndedOn(m, g)
  /\ old.state = "Closed" /\ new.state # "Closed" =>
       \E g \in Groups :
         EndedOn(m, g) /\ Cardinality(Suspects(old) \cup {g}) >= TripGroups
  /\ ~old.disabled /\ new.disabled =>
       \E g \in Groups :
         EndedOn(m, g) /\ Cardinality(Absentees(old) \cup {g}) >= MissingGroups

BlamedForCause ==
  [][\A m \in Models : Blamed(m, table.models[m], table'.models[m])]_vars

(* A credential the upstream rejected is never forgiven, not by a success  *)
(* of an attempt it still had in flight either, and a plan is made only    *)
(* where a usable one is ready.  The key is chosen and dialed later (the   *)
(* fallback of target(), router.rs:985, takes even a rejected one, though  *)
(* router.rs:298 says it "will not be dialed"): that this still is a       *)
(* usable one is lost only by the end of an attempt on the same account.   *)
Promising(r) ==
  \/ pc[r] = "choosing" /\ ReadyKeys(table, candidate[r]) # {}
  \/ pc[r] = "planned" /\ ~table.keys[target[r].key].unusable

GroupPlanned(r) ==
  IF pc[r] = "choosing" THEN candidate[r].route[2] ELSE target[r].group

RejectedByRaceOnly ==
  [][/\ \A k \in Keys : table.keys[k].unusable => table'.keys[k].unusable
     /\ \A r \in Requests :
          /\ pc[r] = "routing" /\ pc'[r] = "choosing" => Promising(r)'
          /\ Promising(r) /\ pc'[r] \in {"choosing", "planned"}
               => \/ Promising(r)'
                  \/ \E x \in Targets : Ended(x) /\ x.group = GroupPlanned(r)]_vars

Dials(r) == pc[r] = "planned" /\ pc'[r] = "dialing"

(* An attempt is made with a credential of the account whose health was    *)
(* asked and will be marked, and with one that is enabled.                 *)
DialsOwnAccount ==
  [][\A r \in Requests :
       Dials(r)
         => Pool[target[r].key] = [group |-> target[r].group,
                                   enabled |-> TRUE]]_vars

(* Every request is answered: no sleep, replan or replay goes on for ever. *)
Answers == \A r \in Requests : pc[r] = "routing" ~> pc[r] = "done"

(* What routing decides is one of the free choices of CircuitBreaker, so   *)
(* what is shown of the breaker there holds of it here: a request is in    *)
(* its loop there from arrival to reply, unless its budget is spent.       *)
Phase(r) ==
  CASE pc[r] \in {"idle", "done"} -> "idle"
    [] pc[r] = "dialing" -> "dialing"
    [] pc[r] \in Deciding -> IF BudgetLeft(r) THEN "routing" ELSE "idle"
    [] OTHER -> "routing"

Gate == INSTANCE CircuitBreaker WITH
  pc <- [r \in Requests |-> Phase(r)],
  attempt <- [r \in Requests |-> IF Phase(r) = "idle" THEN 0 ELSE attempt[r]],
  Unreported <- {"rate_limited", "quota_elsewhere", "cancelled"}
ImplementsGate == Gate!Spec
=============================================================================
