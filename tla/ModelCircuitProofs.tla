------------------------- MODULE ModelCircuitProofs -------------------------
(***************************************************************************)
(* Safety of a model's circuit for any numbers of attempts and of quota    *)
(* groups, and for any thresholds, windows and cooldowns.                  *)
(***************************************************************************)
EXTENDS ModelCircuit, SharedProofs, FiniteSetTheorems

(* A guard holds the slot, or a reporter owes the metric an increment,     *)
(* only between the steps that give and take it; the evidence in the entry *)
(* is never fresher than what was reported.                                *)
Bookkeeping ==
  /\ IsFiniteSet(owing)
  /\ \A a \in owing : pc[a] = "reported"

EvidenceReported ==
  \A g \in Groups :
    model.failing[g] <= TripWindow => failedAgo[g] <= model.failing[g]

TypeInv == TypeOK /\ Bookkeeping /\ OpenCountedOnce

LEMMA TypeInvInit == Init => TypeInv
<1> SUFFICES ASSUME Init PROVE TypeInv
  OBVIOUS
<1> USE ModelAssumption DEF ModelAssumption, Init
<1>1. /\ NoneFailing \in [Groups -> 0 .. Forgotten(TripWindow)]
      /\ NoneMissing \in [Groups -> 0 .. Forgotten(MissingWindow)]
  BY DEF NoneFailing, NoneMissing, Forgotten
<1>2. TypeOK
  BY <1>1 DEF TypeOK, NewModel, ModelType
<1>3. IsFiniteSet(owing) /\ Cardinality(owing) = 0
  BY FS_EmptySet
<1> QED BY <1>2, <1>3 DEF TypeInv, Bookkeeping, OpenCountedOnce

(* The reporter that opened the circuit joins the debtors; it was not one. *)
LEMMA OwingGrows ==
  ASSUME TypeInv, NEW a \in Attempts, Failed(a)
  PROVE  /\ IsFiniteSet(owing') /\ drift' = Cardinality(owing')
         /\ drift' \in Nat
<1>1. model \in ModelType /\ group[a] \in Groups /\ a \notin owing
  BY DEF TypeInv, TypeOK, Bookkeeping, Failed, Step
<1>2. IsFiniteSet(owing) /\ drift = Cardinality(owing) /\ drift \in Nat
  BY DEF TypeInv, TypeOK, Bookkeeping, OpenCountedOnce
<1>3. /\ IsFiniteSet(owing \cup {a})
      /\ Cardinality(owing \cup {a}) = Cardinality(owing) + 1
  BY ONLY <1>1, <1>2, FS_AddElement
<1>4. OpensCircuit(model, group[a]) <=>
        model.state # "Open" /\ model'.state = "Open"
  BY <1>1, FailureMoves DEF Failed
<1> QED BY <1>2, <1>3, <1>4 DEF Failed

LEMMA OwingShrinks ==
  ASSUME TypeInv, NEW a \in Attempts, Drop(a)
  PROVE  /\ IsFiniteSet(owing') /\ drift' = Cardinality(owing')
         /\ drift' \in Nat
<1>1. IsFiniteSet(owing) /\ drift = Cardinality(owing) /\ drift \in Nat
  BY DEF TypeInv, TypeOK, Bookkeeping, OpenCountedOnce
<1>2. /\ IsFiniteSet(owing \ {a})
      /\ Cardinality(owing \ {a}) =
           IF a \in owing THEN Cardinality(owing) - 1 ELSE Cardinality(owing)
  BY ONLY <1>1, FS_RemoveElement
<1>3. Cardinality(owing \ {a}) \in Nat
  BY ONLY <1>2, FS_CardinalityType
<1> QED BY <1>1, <1>2, <1>3 DEF Drop

LEMMA TypeInvStep == TypeInv /\ [Next]_vars => TypeInv'
<1> SUFFICES ASSUME TypeInv, [Next]_vars PROVE TypeInv'
  OBVIOUS
<1> USE DEF TypeInv, TypeOK, Bookkeeping, OpenCountedOnce, history
<1>1. ASSUME NEW a \in Attempts, NEW g \in Groups, Plan(a, g) PROVE TypeInv'
  BY <1>1, EntryTyped DEF Plan, Step
<1>2. ASSUME NEW a \in Attempts, Abandon(a) PROVE TypeInv'
  BY <1>2 DEF Abandon, Step
<1>3. ASSUME NEW a \in Attempts, Begin(a) PROVE TypeInv'
  <2>1. model' \in ModelType
    BY <1>3, EntryTyped DEF Begin
  <2> QED BY <1>3, <2>1 DEF Begin, Step
<1>4. ASSUME NEW a \in Attempts, Answered(a) PROVE TypeInv'
  <2>1. model' \in ModelType
    BY <1>4, EntryTyped DEF Answered
  <2>2. NoneMissing \in [Groups -> 0 .. Forgotten(MissingWindow)]
    BY ModelAssumption DEF ModelAssumption, NoneMissing, Forgotten
  <2> QED BY <1>4, <2>1, <2>2 DEF Answered, Step
<1>5. ASSUME NEW a \in Attempts, Failed(a) PROVE TypeInv'
  <2>1. model' \in ModelType
    BY <1>5, EntryTyped DEF Failed
  <2>2. failedAgo' \in [Groups -> 0 .. Forgotten(TripWindow)]
    BY <1>5, ModelAssumption DEF Failed, ModelAssumption, Forgotten
  <2>3. owing' \subseteq owing \cup {a} /\ pc'[a] = "reported"
    BY <1>5 DEF Failed, Step
  <2> QED BY <1>5, <2>1, <2>2, <2>3, OwingGrows DEF Failed, Step
<1>6. ASSUME NEW a \in Attempts, Missing(a) PROVE TypeInv'
  <2>1. model' \in ModelType
    BY <1>6, EntryTyped DEF Missing
  <2>2. goneAgo' \in [Groups -> 0 .. Forgotten(MissingWindow)]
    BY <1>6, ModelAssumption DEF Missing, ModelAssumption, Forgotten
  <2> QED BY <1>6, <2>1, <2>2 DEF Missing, Step
<1>7. ASSUME NEW a \in Attempts, Other(a) PROVE TypeInv'
  BY <1>7 DEF Other, Step
<1>8. ASSUME NEW a \in Attempts, Release(a) PROVE TypeInv'
  <2>1. model' \in ModelType
    BY <1>8, EntryTyped DEF Release
  <2> QED BY <1>8, <2>1 DEF Release, Step
<1>9. ASSUME NEW a \in Attempts, Drop(a) PROVE TypeInv'
  <2>1. model' \in ModelType
    BY <1>9, EntryTyped DEF Drop, DropGuard
  <2> QED BY <1>9, <2>1, OwingShrinks DEF Drop, DropGuard, Step
<1>10. ASSUME NEW a \in Attempts, Cancel(a) PROVE TypeInv'
  <2>1. model' \in ModelType
    BY <1>10, EntryTyped DEF Cancel, DropGuard
  <2> QED BY <1>10, <2>1 DEF Cancel, DropGuard, Step
<1>11. CASE Look
  BY <1>11, EntryTyped DEF Look
<1>12. CASE Tick
  <2>1. model' \in ModelType
    BY <1>12, EntryTyped DEF Tick
  <2>2. /\ failedAgo' \in [Groups -> 0 .. Forgotten(TripWindow)]
        /\ goneAgo' \in [Groups -> 0 .. Forgotten(MissingWindow)]
    BY <1>12, ModelAssumption DEF Tick, ModelAssumption, Older, Forgotten
  <2> QED BY <1>12, <2>1, <2>2 DEF Tick
<1>13. CASE UNCHANGED vars
  BY <1>13 DEF vars
<1> QED
  BY <1>1, <1>2, <1>3, <1>4, <1>5, <1>6, <1>7, <1>8, <1>9, <1>10, <1>11,
     <1>12, <1>13 DEF Next, Ends

(* Program counters, reservations and evidence stay in their types, and    *)
(* model_circuit_open_total differs from the transitions into Open only by *)
(* the reporters that have not reached their increment yet.                *)
THEOREM TypeCorrect == Spec => []TypeOK
<1>1. TypeInv => TypeOK
  BY DEF TypeInv
<1> QED BY <1>1, TypeInvInit, TypeInvStep, PTL DEF Spec

(* The metric counts each transition into Open exactly once, whatever      *)
(* reports race each other (docs/routing.md:145-157).                      *)
THEOREM MetricExact == Spec => []OpenCountedOnce
<1>1. TypeInv => OpenCountedOnce
  BY DEF TypeInv
<1> QED BY <1>1, TypeInvInit, TypeInvStep, PTL DEF Spec

-----------------------------------------------------------------------------
(* The half-open slot belongs to a live guard: each way out of an attempt  *)
(* clears the slot together with the guard that holds it, and each way out *)
(* of HalfOpen clears it too.                                              *)
THEOREM SlotNeverLost == Spec => []ProbeSlotHeld
<1>1. Init => ProbeSlotHeld
  BY DEF Init, NewModel, ProbeSlotHeld
<1>2. TypeInv /\ ProbeSlotHeld /\ [Next]_vars => ProbeSlotHeld'
  <2> SUFFICES ASSUME TypeInv, ProbeSlotHeld, [Next]_vars
               PROVE ProbeSlotHeld'
    OBVIOUS
  <2> USE DEF ProbeSlotHeld
  <2>0. model \in ModelType /\ group \in [Attempts -> Groups]
    BY DEF TypeInv, TypeOK
  <2>1. CASE model'.probe = FALSE
    BY <2>1
  <2>2. ASSUME NEW a \in Attempts, NEW g \in Groups, Plan(a, g)
        PROVE ProbeSlotHeld'
    BY <2>0, <2>2, ViewMoves DEF Plan
  <2>3. ASSUME NEW a \in Attempts, Begin(a) PROVE ProbeSlotHeld'
    BY <2>0, <2>3, EntryMoves DEF Begin, TakesProbe
  <2>4. ASSUME NEW a \in Attempts, Answered(a) PROVE ProbeSlotHeld'
    BY <2>0, <2>4, EntryMoves DEF Answered
  <2>5. ASSUME NEW a \in Attempts, Failed(a) PROVE ProbeSlotHeld'
    BY <2>0, <2>5, FailureMoves DEF Failed
  <2>6. ASSUME NEW a \in Attempts, Missing(a) PROVE ProbeSlotHeld'
    BY <2>0, <2>6, EntryMoves DEF Missing
  <2>7. ASSUME NEW a \in Attempts, Release(a) PROVE ProbeSlotHeld'
    BY <2>0, <2>7, EntryMoves DEF Release
  <2>8. ASSUME NEW a \in Attempts, DropGuard(a) PROVE ProbeSlotHeld'
    BY <2>0, <2>8, EntryMoves DEF DropGuard
  <2>9. CASE Look
    BY <2>0, <2>9, ViewMoves DEF Look
  <2>10. CASE Tick
    BY <2>0, <2>10, EntryMoves DEF Tick
  <2>11. CASE UNCHANGED <<model, holds>>
    BY <2>11
  <2> QED
    BY <2>2, <2>3, <2>4, <2>5, <2>6, <2>7, <2>8, <2>9, <2>10, <2>11
    DEF Next, Ends, Abandon, Other, Drop, Cancel, vars
<1> QED BY <1>1, <1>2, TypeInvInit, TypeInvStep, PTL DEF Spec

-----------------------------------------------------------------------------
(* What an operation does to the failure evidence: it ages, a failure adds *)
(* its own group, and everything else keeps it or clears it.               *)
LEMMA EvidenceMoves ==
  ASSUME NEW m \in ModelType
  PROVE  /\ AfterBegin(m).failing = m.failing
         /\ Released(m).failing = m.failing
         /\ Dropped(m).failing = m.failing
         /\ \A g \in Groups : AfterMissing(m, g).failing = m.failing
         /\ Served(m).failing \in {m.failing, NoneFailing}
         /\ \A g \in Groups :
              AfterRouteFailure(m, g).failing
                \in {m.failing, WithFailing(m, g).failing, NoneFailing}
<1> USE DEF ModelType
<1>1. AfterBegin(m).failing = m.failing
  BY DEF AfterBegin
<1>2. Released(m).failing = m.failing /\ Dropped(m).failing = m.failing
  BY DEF Released, Dropped
<1>3. \A g \in Groups : AfterMissing(m, g).failing = m.failing
  BY DEF AfterMissing, WithMissing
<1>4. Served(m).failing \in {m.failing, NoneFailing}
  BY DEF Served
<1>5. ASSUME NEW g \in Groups
      PROVE AfterRouteFailure(m, g).failing
              \in {m.failing, WithFailing(m, g).failing, NoneFailing}
  <2>1. \A n \in ModelType : Opened(n).failing \in {n.failing, NoneFailing}
    BY DEF Opened
  <2>2. WithFailing(m, g) \in ModelType
    BY ModelAssumption DEF ModelAssumption, WithFailing, Forgotten
  <2> QED BY <2>1, <2>2 DEF AfterRouteFailure
<1> QED BY <1>1, <1>2, <1>3, <1>4, <1>5

LEMMA EvidenceStep ==
  TypeInv /\ EvidenceReported /\ [Next]_vars => EvidenceReported'
<1> SUFFICES ASSUME TypeInv, EvidenceReported, [Next]_vars
             PROVE EvidenceReported'
  OBVIOUS
<1> USE ModelAssumption DEF ModelAssumption
<1>0. /\ model \in ModelType /\ group \in [Attempts -> Groups]
      /\ failedAgo \in [Groups -> 0 .. Forgotten(TripWindow)]
      /\ model.failing \in [Groups -> 0 .. Forgotten(TripWindow)]
  BY DEF TypeInv, TypeOK, ModelType
<1>1. ASSUME UNCHANGED failedAgo,
             model'.failing \in {model.failing, NoneFailing}
      PROVE  EvidenceReported'
  BY <1>0, <1>1 DEF EvidenceReported, NoneFailing, Forgotten
<1>2. ASSUME NEW a \in Attempts, Failed(a) PROVE EvidenceReported'
  <2>1. group[a] \in Groups
    BY <1>0
  <2>2. model'.failing \in {model.failing, NoneFailing,
                            WithFailing(model, group[a]).failing}
    BY <1>0, <1>2, <2>1, EvidenceMoves DEF Failed
  <2>3. WithFailing(model, group[a]).failing =
          [model.failing EXCEPT ![group[a]] = 0]
    BY <1>0 DEF WithFailing, ModelType
  <2>4. failedAgo' = [failedAgo EXCEPT ![group[a]] = 0]
    BY <1>2 DEF Failed
  <2> QED
    BY <1>0, <2>1, <2>2, <2>3, <2>4 DEF EvidenceReported, NoneFailing, Forgotten
<1>3. CASE Tick
  <2>1. /\ failedAgo' = [g \in Groups |-> Older(failedAgo[g], TripWindow)]
        /\ model'.failing =
             [g \in Groups |-> Older(model.failing[g], TripWindow)]
    BY <1>0, <1>3 DEF Tick, ModelAged, ModelType
  <2> QED BY <1>0, <2>1 DEF EvidenceReported, Older, Forgotten
<1>4. ASSUME NEW a \in Attempts, NEW g \in Groups, Plan(a, g)
      PROVE EvidenceReported'
  BY <1>0, <1>1, <1>4, ViewMoves DEF Plan, history
<1>5. ASSUME NEW a \in Attempts, Begin(a) PROVE EvidenceReported'
  BY <1>0, <1>1, <1>5, EvidenceMoves DEF Begin, history
<1>6. ASSUME NEW a \in Attempts, Answered(a) PROVE EvidenceReported'
  BY <1>0, <1>1, <1>6, EvidenceMoves DEF Answered
<1>7. ASSUME NEW a \in Attempts, Missing(a) PROVE EvidenceReported'
  BY <1>0, <1>1, <1>7, EvidenceMoves DEF Missing
<1>8. ASSUME NEW a \in Attempts, Release(a) PROVE EvidenceReported'
  BY <1>0, <1>1, <1>8, EvidenceMoves DEF Release, history
<1>9. ASSUME NEW a \in Attempts, DropGuard(a), UNCHANGED history
      PROVE EvidenceReported'
  BY <1>0, <1>1, <1>9, EvidenceMoves DEF DropGuard, history
<1>10. CASE Look
  BY <1>0, <1>1, <1>10, ViewMoves DEF Look, history
<1>11. CASE UNCHANGED <<model, history>>
  BY <1>1, <1>11 DEF history
<1> QED
  BY <1>2, <1>3, <1>4, <1>5, <1>6, <1>7, <1>8, <1>9, <1>10, <1>11
  DEF Next, Ends, Abandon, Other, Drop, Cancel, vars, history

(* The Suspects that trip a closed circuit are groups that did fail within *)
(* the window.                                                             *)
LEMMA TripEvidence ==
  ASSUME TypeInv, EvidenceReported, NEW a \in Attempts, Failed(a),
         model.state = "Closed", model'.state = "Open"
  PROVE  Cardinality({g \in Groups : failedAgo'[g] <= TripWindow})
           >= TripGroups
<1> DEFINE S == Suspects(WithFailing(model, group[a]))
           F == {g \in Groups : failedAgo'[g] <= TripWindow}
<1>0. /\ model \in ModelType /\ group[a] \in Groups
      /\ failedAgo \in [Groups -> 0 .. Forgotten(TripWindow)]
      /\ model.failing \in [Groups -> 0 .. Forgotten(TripWindow)]
  BY DEF TypeInv, TypeOK, ModelType
<1>1. Trips(model, group[a])
  BY <1>0, FailureMoves DEF Failed, OpensCircuit
<1>2. Cardinality(S) >= TripGroups
  BY <1>1 DEF Trips
<1>3. S \subseteq F
  <2>1. WithFailing(model, group[a]).failing =
          [model.failing EXCEPT ![group[a]] = 0]
    BY <1>0 DEF WithFailing, ModelType
  <2>2. failedAgo' = [failedAgo EXCEPT ![group[a]] = 0]
    BY DEF Failed
  <2> QED
    BY <1>0, <2>1, <2>2, ModelAssumption
    DEF ModelAssumption, Suspects, EvidenceReported, Forgotten
<1>4. IsFiniteSet(F)
  <2>1. F \subseteq Groups
    OBVIOUS
  <2>2. IsFiniteSet(Groups)
    BY ModelAssumption DEF ModelAssumption
  <2> QED BY ONLY <2>1, <2>2, FS_Subset
<1>5. /\ Cardinality(S) <= Cardinality(F)
      /\ Cardinality(S) \in Nat /\ Cardinality(F) \in Nat
  BY ONLY <1>3, <1>4, FS_Subset, FS_CardinalityType
<1> QED
  BY <1>2, <1>5, ModelAssumption DEF ModelAssumption

(* One account cannot disable a model: a closed circuit opens only when    *)
(* TripGroups distinct groups failed within the window, for any number of  *)
(* accounts and attempts (README.md:281, docs/routing.md:410).             *)
THEOREM TripsOnDistinctGroups == Spec => OpensOnDistinctGroups
<1>1. Init => EvidenceReported
  BY ModelAssumption
  DEF ModelAssumption, Init, NewModel, EvidenceReported, NoneFailing, Forgotten
<1>2. TypeInv /\ EvidenceReported /\ [Next]_vars
        => [model.state = "Closed" /\ model'.state = "Open"
              => Cardinality({g \in Groups : failedAgo'[g] <= TripWindow})
                   >= TripGroups]_vars
  <2> SUFFICES ASSUME TypeInv, EvidenceReported, Next,
                      model.state = "Closed", model'.state = "Open"
               PROVE  Cardinality({g \in Groups : failedAgo'[g] <= TripWindow})
                        >= TripGroups
    BY DEF vars
  <2>0. model \in ModelType /\ group \in [Attempts -> Groups]
    BY DEF TypeInv, TypeOK
  <2>1. \E a \in Attempts : Failed(a)
    BY <2>0, EntryMoves, ViewMoves
    DEF Next, Ends, Plan, Abandon, Begin, Answered, Missing, Other, Release,
        Drop, Cancel, DropGuard, Look, Tick
  <2> QED BY <2>1, TripEvidence
<1> QED
  BY <1>1, <1>2, TypeInvInit, TypeInvStep, EvidenceStep, PTL
  DEF Spec, OpensOnDistinctGroups

-----------------------------------------------------------------------------
(* The 404s the entry remembers were answered, with nothing served since.  *)
GoneReported ==
  \A g \in Groups :
    model.missing[g] <= MissingWindow => goneAgo[g] <= model.missing[g]

LEMMA GoneMoves ==
  ASSUME NEW m \in ModelType
  PROVE  /\ AfterBegin(m).missing = m.missing
         /\ Released(m).missing = m.missing
         /\ Dropped(m).missing = m.missing
         /\ Viewed(m).missing \in {m.missing, NoneMissing}
         /\ Served(m).missing = NoneMissing
         /\ \A g \in Groups :
              /\ AfterRouteFailure(m, g).missing = m.missing
              /\ AfterMissing(m, g).missing
                   \in {WithMissing(m, g).missing, NoneMissing}
<1> USE DEF ModelType
<1>1. AfterBegin(m).missing = m.missing
  BY DEF AfterBegin
<1>2. Released(m).missing = m.missing /\ Dropped(m).missing = m.missing
  BY DEF Released, Dropped
<1>3. Viewed(m).missing \in {m.missing, NoneMissing}
  <2>1. HalfOpened(m) \in ModelType /\ HalfOpened(m).missing = m.missing
    BY DEF HalfOpened
  <2> QED BY <2>1 DEF Viewed, Recovered
<1>4. Served(m).missing = NoneMissing
  BY DEF Served
<1>5. ASSUME NEW g \in Groups
      PROVE  AfterRouteFailure(m, g).missing = m.missing
  <2>1. \A n \in ModelType : Opened(n).missing = n.missing
    BY DEF Opened
  <2>2. /\ WithFailing(m, g) \in ModelType
        /\ WithFailing(m, g).missing = m.missing
    BY ModelAssumption DEF ModelAssumption, WithFailing, Forgotten
  <2> QED BY <2>1, <2>2 DEF AfterRouteFailure
<1>6. \A g \in Groups : AfterMissing(m, g).missing
                          \in {WithMissing(m, g).missing, NoneMissing}
  BY DEF AfterMissing
<1> QED BY <1>1, <1>2, <1>3, <1>4, <1>5, <1>6

(* What an operation does to the missing state: only AfterMissing sets it. *)
LEMMA DisabledMoves ==
  ASSUME NEW m \in ModelType, ~m.disabled
  PROVE  /\ ~AfterBegin(m).disabled /\ ~Released(m).disabled
         /\ ~Dropped(m).disabled /\ ~Viewed(m).disabled
         /\ ~Served(m).disabled /\ ~ModelAged(m).disabled
         /\ \A g \in Groups : ~AfterRouteFailure(m, g).disabled
<1> USE DEF ModelType
<1>1. ~AfterBegin(m).disabled /\ ~Released(m).disabled
  BY DEF AfterBegin, Released
<1>2. ~Dropped(m).disabled /\ ~ModelAged(m).disabled
  BY DEF Dropped, ModelAged
<1>3. ~Viewed(m).disabled
  <2>1. HalfOpened(m) \in ModelType /\ ~HalfOpened(m).disabled
    BY DEF HalfOpened
  <2> QED BY <2>1 DEF Viewed, Recovered
<1>4. ~Served(m).disabled
  BY DEF Served
<1>5. ASSUME NEW g \in Groups PROVE ~AfterRouteFailure(m, g).disabled
  <2>1. \A n \in ModelType : Opened(n).disabled = n.disabled
    BY DEF Opened
  <2>2. WithFailing(m, g) \in ModelType /\ ~WithFailing(m, g).disabled
    BY ModelAssumption DEF ModelAssumption, WithFailing, Forgotten
  <2> QED BY <2>1, <2>2 DEF AfterRouteFailure
<1> QED BY <1>1, <1>2, <1>3, <1>4, <1>5

LEMMA GoneStep ==
  TypeInv /\ GoneReported /\ [Next]_vars => GoneReported'
<1> SUFFICES ASSUME TypeInv, GoneReported, [Next]_vars
             PROVE GoneReported'
  OBVIOUS
<1> USE ModelAssumption DEF ModelAssumption
<1>0. /\ model \in ModelType /\ group \in [Attempts -> Groups]
      /\ goneAgo \in [Groups -> 0 .. Forgotten(MissingWindow)]
      /\ model.missing \in [Groups -> 0 .. Forgotten(MissingWindow)]
  BY DEF TypeInv, TypeOK, ModelType
<1>1. ASSUME UNCHANGED goneAgo,
             model'.missing \in {model.missing, NoneMissing}
      PROVE  GoneReported'
  BY <1>0, <1>1 DEF GoneReported, NoneMissing, Forgotten
<1>2. ASSUME NEW a \in Attempts, Missing(a) PROVE GoneReported'
  <2>1. group[a] \in Groups
    BY <1>0
  <2>2. model'.missing \in {WithMissing(model, group[a]).missing, NoneMissing}
    BY <1>0, <1>2, <2>1, GoneMoves DEF Missing
  <2>3. WithMissing(model, group[a]).missing =
          [model.missing EXCEPT ![group[a]] = 0]
    BY <1>0 DEF WithMissing, ModelType
  <2>4. goneAgo' = [goneAgo EXCEPT ![group[a]] = 0]
    BY <1>2 DEF Missing
  <2> QED
    BY <1>0, <2>1, <2>2, <2>3, <2>4 DEF GoneReported, NoneMissing, Forgotten
<1>3. CASE Tick
  <2>1. /\ goneAgo' = [g \in Groups |-> Older(goneAgo[g], MissingWindow)]
        /\ model'.missing =
             [g \in Groups |-> Older(model.missing[g], MissingWindow)]
    BY <1>0, <1>3 DEF Tick, ModelAged, ModelType
  <2> QED BY <1>0, <2>1 DEF GoneReported, Older, Forgotten
<1>4. ASSUME NEW a \in Attempts, Answered(a) PROVE GoneReported'
  <2>1. model'.missing = NoneMissing /\ goneAgo' = NoneMissing
    BY <1>0, <1>4, GoneMoves DEF Answered
  <2> QED BY <2>1 DEF GoneReported, NoneMissing, Forgotten
<1>5. ASSUME NEW a \in Attempts, NEW g \in Groups, Plan(a, g)
      PROVE GoneReported'
  BY <1>0, <1>1, <1>5, GoneMoves DEF Plan, history
<1>6. ASSUME NEW a \in Attempts, Begin(a) PROVE GoneReported'
  BY <1>0, <1>1, <1>6, GoneMoves DEF Begin, history
<1>7. ASSUME NEW a \in Attempts, Failed(a) PROVE GoneReported'
  BY <1>0, <1>1, <1>7, GoneMoves DEF Failed
<1>8. ASSUME NEW a \in Attempts, Release(a) PROVE GoneReported'
  BY <1>0, <1>1, <1>8, GoneMoves DEF Release, history
<1>9. ASSUME NEW a \in Attempts, DropGuard(a), UNCHANGED history
      PROVE GoneReported'
  BY <1>0, <1>1, <1>9, GoneMoves DEF DropGuard, history
<1>10. CASE Look
  BY <1>0, <1>1, <1>10, GoneMoves DEF Look, history
<1>11. CASE UNCHANGED <<model, history>>
  BY <1>1, <1>11 DEF history
<1> QED
  BY <1>2, <1>3, <1>4, <1>5, <1>6, <1>7, <1>8, <1>9, <1>10, <1>11
  DEF Next, Ends, Abandon, Other, Drop, Cancel, vars, history

(* The Absentees that make a model missing did answer 404 within the       *)
(* window.                                                                 *)
LEMMA MissingEvidence ==
  ASSUME TypeInv, GoneReported, NEW a \in Attempts, Missing(a),
         ~model.disabled, model'.disabled
  PROVE  Cardinality({g \in Groups : goneAgo'[g] <= MissingWindow})
           >= MissingGroups
<1> DEFINE S == Absentees(WithMissing(model, group[a]))
           F == {g \in Groups : goneAgo'[g] <= MissingWindow}
<1>0. /\ model \in ModelType /\ group[a] \in Groups
      /\ goneAgo \in [Groups -> 0 .. Forgotten(MissingWindow)]
      /\ model.missing \in [Groups -> 0 .. Forgotten(MissingWindow)]
  BY DEF TypeInv, TypeOK, ModelType
<1>1. S \subseteq F
  <2>1. WithMissing(model, group[a]).missing =
          [model.missing EXCEPT ![group[a]] = 0]
    BY <1>0 DEF WithMissing, ModelType
  <2>2. goneAgo' = [goneAgo EXCEPT ![group[a]] = 0]
    BY DEF Missing
  <2> QED
    BY <1>0, <2>1, <2>2, ModelAssumption
    DEF ModelAssumption, Absentees, GoneReported, Forgotten
<1>2. IsFiniteSet(F)
  <2>1. F \subseteq Groups
    OBVIOUS
  <2>2. IsFiniteSet(Groups)
    BY ModelAssumption DEF ModelAssumption
  <2> QED BY ONLY <2>1, <2>2, FS_Subset
<1>3. /\ Cardinality(S) <= Cardinality(F)
      /\ Cardinality(S) \in Nat /\ Cardinality(F) \in Nat
  BY ONLY <1>1, <1>2, FS_Subset, FS_CardinalityType
<1>4. ~(Cardinality(S) < MissingGroups)
  <2>1. WithMissing(model, group[a]).disabled = model.disabled
    BY <1>0 DEF WithMissing, ModelType
  <2> QED BY <2>1 DEF Missing, AfterMissing
<1> QED
  BY <1>3, <1>4, ModelAssumption DEF ModelAssumption

(* A model becomes missing only after MissingGroups distinct accounts      *)
(* answered 404 within the window and none was served in between, for any  *)
(* number of accounts and attempts (router.rs:1231).                       *)
THEOREM MissingOnDistinct == Spec => MissingOnDistinctGroups
<1>1. Init => GoneReported
  BY ModelAssumption
  DEF ModelAssumption, Init, NewModel, GoneReported, NoneMissing, Forgotten
<1>2. TypeInv /\ GoneReported /\ [Next]_vars
        => [~model.disabled /\ model'.disabled
              => Cardinality({g \in Groups : goneAgo'[g] <= MissingWindow})
                   >= MissingGroups]_vars
  <2> SUFFICES ASSUME TypeInv, GoneReported, Next,
                      ~model.disabled, model'.disabled
               PROVE  Cardinality({g \in Groups : goneAgo'[g] <= MissingWindow})
                        >= MissingGroups
    BY DEF vars
  <2>0. model \in ModelType /\ group \in [Attempts -> Groups]
    BY DEF TypeInv, TypeOK
  <2>1. \E a \in Attempts : Missing(a)
    BY <2>0, DisabledMoves
    DEF Next, Ends, Plan, Abandon, Begin, Answered, Failed, Other, Release,
        Drop, Cancel, DropGuard, Look, Tick
  <2> QED BY <2>1, MissingEvidence
<1> QED
  BY <1>1, <1>2, TypeInvInit, TypeInvStep, GoneStep, PTL
  DEF Spec, MissingOnDistinctGroups
=============================================================================
