---------------------------- MODULE ModelCircuit ----------------------------
(***************************************************************************)
(* One model's circuit under the concurrent attempts of many requests      *)
(* (src/src/router.rs, src/src/upstream.rs).                               *)
(*                                                                         *)
(* Selecting a route, taking the half-open slot, reporting the outcome and *)
(* dropping the guard are four separate critical sections of one attempt,  *)
(* with the upstream call awaited between the second and the third: other  *)
(* attempts get in between any two of them.                                *)
(***************************************************************************)
EXTENDS ModelEntry

CONSTANTS
  Attempts,   \* concurrent attempts
  Outcomes    \* what the environment lets an attempt end in

OutcomeKinds == {"answered", "failed", "missing", "other", "cancelled"}

ASSUME AttemptAssumption ==
  /\ IsFiniteSet(Attempts)
  /\ Outcomes \subseteq OutcomeKinds

VARIABLES
  model,     \* the entry
  pc,        \* "idle", "planned", "dialing", "answered" or "reported"
  group,     \* the quota group of each attempt's target
  holds,     \* attempts whose guard has holds_probe
  owing,     \* attempts about to increment model_circuit_open_total
  drift,     \* transitions into Open minus model_circuit_open_total
  failedAgo, \* ticks since the last reported failure of each group
  goneAgo    \* ticks since the last 404 of each group, if none served since

vars == <<model, pc, group, holds, owing, drift, failedAgo, goneAgo>>
history == <<failedAgo, goneAgo>>

TypeOK ==
  /\ model \in ModelType
  /\ pc \in [Attempts -> {"idle", "planned", "dialing", "answered", "reported"}]
  /\ group \in [Attempts -> Groups]
  /\ holds \subseteq Attempts
  /\ owing \subseteq Attempts
  /\ drift \in Nat
  /\ failedAgo \in [Groups -> 0 .. Forgotten(TripWindow)]
  /\ goneAgo \in [Groups -> 0 .. Forgotten(MissingWindow)]

Init ==
  /\ model = NewModel
  /\ pc = [a \in Attempts |-> "idle"]
  /\ group \in [Attempts -> Groups]
  /\ holds = {}
  /\ owing = {}
  /\ drift = 0
  /\ failedAgo = NoneFailing
  /\ goneAgo = NoneMissing

Step(a, from, to) == pc[a] = from /\ pc' = [pc EXCEPT ![a] = to]

(* A look at the entry that selects nothing: the scan passes the model by, *)
(* or readyz, metrics or usable_route_count() reads it.                    *)
Look ==
  /\ model' = Viewed(model)
  /\ UNCHANGED <<pc, group, holds, owing, drift, history>>

(* plan() selects a route of the model in group g. *)
Plan(a, g) ==
  /\ Step(a, "idle", "planned")
  /\ Selectable(Viewed(model))
  /\ model' = Viewed(model)
  /\ group' = [group EXCEPT ![a] = g]
  /\ UNCHANGED <<holds, owing, drift, history>>

(* The proxy-wide breaker refuses; or the plan was only a followup's.      *)
Abandon(a) ==
  /\ Step(a, "planned", "idle")
  /\ UNCHANGED <<model, group, holds, owing, drift, history>>

Begin(a) ==
  /\ Step(a, "planned", "dialing")
  /\ model' = AfterBegin(model)
  /\ holds' = IF TakesProbe(model) THEN holds \cup {a} ELSE holds
  /\ UNCHANGED <<group, owing, drift, history>>

(* The attempt is answered: note_success(), and then release_probe(). *)
Answered(a) ==
  /\ "answered" \in Outcomes
  /\ Step(a, "dialing", "answered")
  /\ model' = Served(model)
  /\ goneAgo' = NoneMissing
  /\ UNCHANGED <<group, holds, owing, drift, failedAgo>>

Release(a) ==
  /\ Step(a, "answered", "idle")
  /\ model' = IF a \in holds THEN Released(model) ELSE model
  /\ holds' = holds \ {a}
  /\ UNCHANGED <<group, owing, drift, history>>

(* note_rate_limited() or note_transient_failure(). *)
Failed(a) ==
  /\ "failed" \in Outcomes
  /\ Step(a, "dialing", "reported")
  /\ model' = AfterRouteFailure(model, group[a])
  /\ owing' = IF OpensCircuit(model, group[a]) THEN owing \cup {a} ELSE owing
  /\ drift' = IF model.state # "Open" /\ model'.state = "Open"
              THEN drift + 1 ELSE drift
  /\ failedAgo' = [failedAgo EXCEPT ![group[a]] = 0]
  /\ UNCHANGED <<group, holds, goneAgo>>

(* note_model_missing(). *)
Missing(a) ==
  /\ "missing" \in Outcomes
  /\ Step(a, "dialing", "reported")
  /\ model' = AfterMissing(model, group[a])
  /\ goneAgo' = [goneAgo EXCEPT ![group[a]] = 0]
  /\ UNCHANGED <<group, holds, owing, drift, failedAgo>>

(* A quota signal, 401, 403 or an unclassified status: the model's entry   *)
(* hears nothing of it.                                                    *)
Other(a) ==
  /\ "other" \in Outcomes
  /\ Step(a, "dialing", "reported")
  /\ UNCHANGED <<model, group, holds, owing, drift, history>>

(* The metric is incremented, and the guard of the finished attempt drops. *)
DropGuard(a) ==
  /\ model' = IF a \in holds THEN Dropped(model) ELSE model
  /\ holds' = holds \ {a}

Drop(a) ==
  /\ Step(a, "reported", "idle")
  /\ DropGuard(a)
  /\ owing' = owing \ {a}
  /\ drift' = IF a \in owing THEN drift - 1 ELSE drift
  /\ UNCHANGED <<group, history>>

(* The client disconnects while the attempt is awaited. *)
Cancel(a) ==
  /\ "cancelled" \in Outcomes
  /\ Step(a, "dialing", "idle")
  /\ DropGuard(a)
  /\ UNCHANGED <<group, owing, drift, history>>

Tick ==
  /\ model' = ModelAged(model)
  /\ failedAgo' = [g \in Groups |-> Older(failedAgo[g], TripWindow)]
  /\ goneAgo' = [g \in Groups |-> Older(goneAgo[g], MissingWindow)]
  /\ UNCHANGED <<pc, group, holds, owing, drift>>

Ends(a) == Answered(a) \/ Failed(a) \/ Missing(a) \/ Other(a)

Next ==
  \/ \E a \in Attempts :
       \/ \E g \in Groups : Plan(a, g)
       \/ Abandon(a) \/ Begin(a) \/ Ends(a) \/ Release(a) \/ Drop(a) \/ Cancel(a)
  \/ Look
  \/ Tick

Spec == Init /\ [][Next]_vars

(* Time passes; a handler runs on, and the connect, read and first-byte    *)
(* timeouts end every attempt.  Nothing obliges a request to come, or the  *)
(* scan to look at this model.                                             *)
FairSpec ==
  /\ Spec
  /\ WF_vars(Tick)
  /\ \A a \in Attempts :
       /\ WF_vars(Abandon(a) \/ Begin(a))
       /\ WF_vars(Ends(a))
       /\ WF_vars(Release(a) \/ Drop(a))

-----------------------------------------------------------------------------
(* The half-open slot always belongs to a guard still alive, so it is      *)
(* given back whatever becomes of the attempt: the model circuit does not  *)
(* wedge the way an unreported probe would wedge it.                       *)
ProbeSlotHeld ==
  model.probe => model.state = "HalfOpen" /\ holds # {}

(* Closed -> Open only on the evidence of TripGroups distinct quota groups *)
(* that failed within the window, one account never suffices for two       *)
(* (docs/routing.md:104: one failing account can never disable a model).   *)
OpensOnDistinctGroups ==
  [][model.state = "Closed" /\ model'.state = "Open"
       => Cardinality({g \in Groups : failedAgo'[g] <= TripWindow})
            >= TripGroups]_vars

(* A model becomes missing only after MissingGroups distinct accounts      *)
(* answered 404 within the window with no answer served in between.        *)
MissingOnDistinctGroups ==
  [][~model.disabled /\ model'.disabled
       => Cardinality({g \in Groups : goneAgo'[g] <= MissingWindow})
            >= MissingGroups]_vars

(* model_circuit_open_total is exact once the reporters have passed their  *)
(* increment: one per transition into Open (docs/routing.md:145-157).      *)
OpenCountedOnce == drift = Cardinality(owing)

(* Whatever fails, the model is selectable again and again: neither the    *)
(* open window, nor a lost probe, nor the missing state is for ever.       *)
SelectableAgain == []<>Selectable(Viewed(model))
=============================================================================
