-------------------------- MODULE SelectionProofs --------------------------
(***************************************************************************)
(* The affinity map for any number of sessions and requests, any topology  *)
(* and any bounds.                                                         *)
(*                                                                         *)
(* Which candidate a plan takes does not matter here: what is proved holds *)
(* for any order of the candidates.                                        *)
(***************************************************************************)
EXTENDS Selection, SharedProofs

(* Progress has its type, and targets and pins their shape: where a target *)
(* lies is left to the order of the candidates.                            *)
Shapes ==
  /\ pc \in [Requests -> States]
  /\ first \in [Requests -> BOOLEAN]
  /\ target = [r \in Requests |-> target[r]]
  /\ affinity = [s \in DOMAIN affinity |->
                   [route |-> affinity[s].route, left |-> affinity[s].left]]
  /\ \A s \in DOMAIN affinity : affinity[s].left \in Nat

FinitelyPinned == IsFiniteSet(DOMAIN affinity)

(* A request about to pin has earned its pin. *)
AnswersEarned ==
  \A r \in Requests :
    pc[r] = "answered" => <<SessionOf[r], RouteOf(target[r])>> \in earned

PinInv == Shapes /\ FinitelyPinned /\ AffinityBounded /\ AnswersEarned /\ PinEarned

(* What most steps do to the map: take pins away. *)
OnlyDrops == \E S : affinity' = Without(S)

(* What most steps do to the requests: at most one moves, to anywhere but  *)
(* the point where it pins.                                                *)
Moves(r) ==
  /\ pc' = [pc EXCEPT ![r] = pc'[r]] /\ pc'[r] \in States \ {"answered"}
  /\ first' = [first EXCEPT ![r] = first'[r]] /\ first'[r] \in BOOLEAN
  /\ target' = [target EXCEPT ![r] = target'[r]]
  /\ UNCHANGED earned

Tame(r) == Moves(r) /\ (OnlyDrops \/ UNCHANGED affinity)

LEMMA TameSteps ==
  ASSUME Shapes, NEW r \in Requests,
         \/ Dial(r) \/ NothingReady(r) \/ Leave(r) \/ Decide(r) \/ GiveUp(r)
         \/ Fail(r) \/ Limited(r) \/ Rejected(r) \/ NotFound(r)
         \/ QuotaExhausted(r)
  PROVE  Tame(r)
<1> USE DEF Shapes, Tame, Moves, OnlyDrops, States, Return, LookUp
<1>1. CASE Dial(r)
  <2>1. target' = [target EXCEPT ![r] = target'[r]]
    BY <1>1 DEF Dial
  <2> QED
    BY <1>1, <2>1 DEF Dial
<1>2. CASE NothingReady(r)
  BY <1>2 DEF NothingReady
<1>3. CASE Leave(r)
  BY <1>3 DEF Leave
<1>4. CASE Decide(r)
  BY <1>4 DEF Decide, Break, Loop
<1>5. CASE GiveUp(r)
  BY <1>5 DEF GiveUp
<1>6. ASSUME NEW S, NEW d \in {"next_attempt", "next_elsewhere"}, Fails(r, d, S)
      PROVE  Tame(r)
  BY <1>6 DEF Fails, Break
<1> QED
  BY <1>1, <1>2, <1>3, <1>4, <1>5, <1>6
  DEF Fail, Limited, Rejected, NotFound, QuotaExhausted

LEMMA TameKeepsInv ==
  ASSUME PinInv, NEW r \in Requests, Tame(r)
  PROVE  PinInv'
<1> USE DEF PinInv, Tame, Moves
<1>1. /\ DOMAIN affinity' \subseteq DOMAIN affinity
      /\ \A s \in DOMAIN affinity' : affinity'[s] = affinity[s]
      /\ affinity' = [s \in DOMAIN affinity' |-> affinity'[s]]
  BY DEF OnlyDrops, Without, Shapes
<1>2. Shapes'
  <2>1. /\ pc' \in [Requests -> States]
        /\ first' \in [Requests -> BOOLEAN]
        /\ target' = [o \in Requests |-> target'[o]]
    BY DEF Shapes
  <2>2. \A s \in DOMAIN affinity' :
          /\ affinity'[s] = [route |-> affinity'[s].route,
                             left |-> affinity'[s].left]
          /\ affinity'[s].left \in Nat
    BY <1>1 DEF Shapes
  <2> QED
    BY <1>1, <2>1, <2>2 DEF Shapes
<1>3. FinitelyPinned' /\ AffinityBounded'
  <2>1. IsFiniteSet(DOMAIN affinity)
    BY DEF FinitelyPinned
  <2>2. /\ IsFiniteSet(DOMAIN affinity')
        /\ Cardinality(DOMAIN affinity') <= Cardinality(DOMAIN affinity)
    BY <1>1, <2>1, FS_Subset
  <2>3. /\ Cardinality(DOMAIN affinity) \in Nat
        /\ Cardinality(DOMAIN affinity') \in Nat
    BY <2>1, <2>2, FS_CardinalityType
  <2> QED
    BY <2>2, <2>3, SelectionAssumption
    DEF FinitelyPinned, AffinityBounded, SelectionAssumption
<1>4. AnswersEarned'
  BY DEF AnswersEarned, Shapes, RouteOf
<1>5. PinEarned'
  BY <1>1 DEF PinEarned
<1> QED
  BY <1>2, <1>3, <1>4, <1>5

(* An answer at the first try earns the session its route. *)
LEMMA SucceedKeepsInv ==
  ASSUME PinInv, NEW r \in Requests, Succeed(r)
  PROVE  PinInv'
<1> USE DEF PinInv
<1>1. UNCHANGED affinity /\ earned \subseteq earned'
  BY DEF Succeed
<1>2. Shapes'
  BY <1>1 DEF Shapes, Succeed, Return, States
<1>3. FinitelyPinned' /\ AffinityBounded' /\ PinEarned'
  BY <1>1 DEF FinitelyPinned, AffinityBounded, PinEarned
<1>4. AnswersEarned'
  BY <1>1 DEF AnswersEarned, Succeed, Return, Pinning, Shapes, States, RouteOf
<1> QED
  BY <1>2, <1>3, <1>4

(* The live pins are no more than the pins, and one of them makes room. *)
LEMMA LivePins ==
  ASSUME PinInv
  PROVE  /\ Live \subseteq DOMAIN affinity
         /\ IsFiniteSet(Live)
         /\ Cardinality(Live) \in Nat
         /\ Cardinality(Live) <= MaxAffinity
<1>1. Live \subseteq DOMAIN affinity
  BY DEF Live
<1>2. IsFiniteSet(DOMAIN affinity)
  BY DEF PinInv, FinitelyPinned
<1>3. IsFiniteSet(Live) /\ Cardinality(Live) <= Cardinality(DOMAIN affinity)
  BY <1>1, <1>2, FS_Subset
<1>4. Cardinality(Live) \in Nat /\ Cardinality(DOMAIN affinity) \in Nat
  BY <1>2, <1>3, FS_CardinalityType
<1> QED
  BY <1>1, <1>3, <1>4, SelectionAssumption
  DEF PinInv, AffinityBounded, SelectionAssumption

LEMMA NoteSessionRouteKeepsInv ==
  ASSUME PinInv, NEW r \in Requests, NoteSessionRoute(r)
  PROVE  PinInv'
<1> DEFINE s == SessionOf[r]
           pinned == [route |-> RouteOf(target[r]), left |-> AffinityTTL]
<1>1. PICK out \in IF FullFor(s) THEN {{o} : o \in Oldest} ELSE {{}} :
        affinity' = [o \in (Live \ out) \cup {s} |->
                       IF o = s THEN pinned ELSE affinity[o]]
  BY DEF NoteSessionRoute
<1>2. DOMAIN affinity' = (Live \ out) \cup {s}
  BY <1>1
<1>3. \A o \in DOMAIN affinity' :
        \/ o = s /\ affinity'[o] = pinned
        \/ o \in Live /\ affinity'[o] = affinity[o]
  BY <1>1
<1>4. AffinityTTL \in Nat /\ MaxAffinity \in Nat /\ MaxAffinity > 0
  BY SelectionAssumption DEF SelectionAssumption
<1>5. Shapes'
  <2>1. /\ pc' \in [Requests -> States]
        /\ first' \in [Requests -> BOOLEAN]
        /\ target' = [o \in Requests |-> target'[o]]
    BY DEF PinInv, Shapes, NoteSessionRoute, Return, States
  <2>2. \A o \in DOMAIN affinity' :
          /\ affinity'[o] = [route |-> affinity'[o].route,
                             left |-> affinity'[o].left]
          /\ affinity'[o].left \in Nat
    BY <1>3, <1>4, LivePins DEF PinInv, Shapes
  <2>3. affinity' = [o \in DOMAIN affinity' |-> affinity'[o]]
    BY <1>1
  <2> QED
    BY <2>1, <2>2, <2>3 DEF Shapes
<1>6. FinitelyPinned' /\ AffinityBounded'
  <2>1. IsFiniteSet(Live \ out) /\ Cardinality(Live \ out) \in Nat
    BY LivePins, FS_Subset, FS_CardinalityType
  <2>2. /\ IsFiniteSet((Live \ out) \cup {s})
        /\ Cardinality((Live \ out) \cup {s}) =
             IF s \in Live \ out THEN Cardinality(Live \ out)
             ELSE Cardinality(Live \ out) + 1
    BY <2>1, FS_AddElement
  <2>3. CASE FullFor(s)
    <3>1. PICK o \in Live : out = {o}
      BY <1>1, <2>3 DEF Oldest
    <3>2. Cardinality(Live \ {o}) = Cardinality(Live) - 1
      BY LivePins, FS_RemoveElement
    <3> QED
      BY <1>2, <1>4, <2>1, <2>2, <3>1, <3>2, LivePins
      DEF FinitelyPinned, AffinityBounded
  <2>4. CASE ~FullFor(s)
    <3>1. out = {} /\ Live \ out = Live
      BY <1>1, <2>4
    <3>2. s \in Live \/ Cardinality(Live) < MaxAffinity
      BY <1>4, <2>4, LivePins DEF FullFor
    <3> QED
      BY <1>2, <1>4, <2>1, <2>2, <3>1, <3>2, LivePins
      DEF FinitelyPinned, AffinityBounded
  <2> QED
    BY <2>3, <2>4
<1>7. AnswersEarned'
  BY DEF PinInv, AnswersEarned, NoteSessionRoute, Return, Shapes, RouteOf
<1>8. PinEarned'
  <2>1. pc[r] = "answered" /\ earned' = earned
    BY DEF NoteSessionRoute
  <2>2. <<s, RouteOf(target[r])>> \in earned
    BY <2>1 DEF PinInv, AnswersEarned
  <2> QED
    BY <1>3, <2>1, <2>2 DEF PinInv, PinEarned, Live
<1> QED
  BY <1>5, <1>6, <1>7, <1>8 DEF PinInv

LEMMA TickKeepsInv ==
  ASSUME PinInv, Tick
  PROVE  PinInv'
<1> USE DEF PinInv
<1>1. /\ DOMAIN affinity' = DOMAIN affinity
      /\ affinity' = [s \in DOMAIN affinity' |-> affinity'[s]]
      /\ \A s \in DOMAIN affinity' :
           affinity'[s] = [affinity[s] EXCEPT !.left = Decrement(@)]
  BY DEF Tick
<1>2. \A s \in DOMAIN affinity' :
        affinity'[s] = [route |-> affinity[s].route,
                        left |-> Decrement(affinity[s].left)]
  BY <1>1 DEF Shapes
<1>3. Shapes'
  <2>1. UNCHANGED <<pc, first, target>>
    BY DEF Tick
  <2>2. \A s \in DOMAIN affinity' :
          /\ affinity'[s] = [route |-> affinity'[s].route,
                             left |-> affinity'[s].left]
          /\ affinity'[s].left \in Nat
    BY <1>1, <1>2 DEF Shapes, Decrement
  <2> QED
    BY <1>1, <2>1, <2>2 DEF Shapes
<1>4. FinitelyPinned' /\ AffinityBounded'
  BY <1>1 DEF FinitelyPinned, AffinityBounded
<1>5. AnswersEarned'
  BY DEF AnswersEarned, RouteOf, Tick
<1>6. PinEarned'
  <2>1. earned' = earned
    BY DEF Tick
  <2>2. \A s \in DOMAIN affinity' :
          s \in DOMAIN affinity /\ affinity'[s].route = affinity[s].route
    BY <1>1, <1>2
  <2> QED
    BY <2>1, <2>2 DEF PinEarned
<1> QED
  BY <1>3, <1>4, <1>5, <1>6

LEMMA PinInvInit == Init => PinInv
<1> SUFFICES ASSUME Init PROVE PinInv
  OBVIOUS
<1>1. affinity = [s \in {} |-> [route |-> RouteOf(NoTarget), left |-> 0]]
  BY DEF Init
<1>2. DOMAIN affinity = {}
  BY <1>1
<1>3. Shapes
  BY <1>1, <1>2 DEF Init, Shapes, States
<1>4. FinitelyPinned /\ AffinityBounded
  BY <1>2, FS_EmptySet, SelectionAssumption
  DEF FinitelyPinned, AffinityBounded, SelectionAssumption
<1>5. AnswersEarned /\ PinEarned
  BY <1>2 DEF Init, AnswersEarned, PinEarned
<1> QED
  BY <1>3, <1>4, <1>5 DEF PinInv

LEMMA PinInvStep == PinInv /\ [Next]_vars => PinInv'
<1> SUFFICES ASSUME PinInv, [Next]_vars PROVE PinInv'
  OBVIOUS
<1>1. ASSUME NEW r \in Requests, Succeed(r) PROVE PinInv'
  BY <1>1, SucceedKeepsInv
<1>2. ASSUME NEW r \in Requests, NoteSessionRoute(r) PROVE PinInv'
  BY <1>2, NoteSessionRouteKeepsInv
<1>3. CASE Tick
  BY <1>3, TickKeepsInv
<1>4. ASSUME NEW r \in Requests,
             \/ Dial(r) \/ NothingReady(r) \/ Leave(r) \/ Decide(r) \/ GiveUp(r)
             \/ Fail(r) \/ Limited(r) \/ Rejected(r) \/ NotFound(r)
             \/ QuotaExhausted(r)
      PROVE  PinInv'
  <2>1. Tame(r)
    BY <1>4, TameSteps DEF PinInv
  <2> QED
    BY <2>1, TameKeepsInv
<1>5. CASE UNCHANGED vars
  BY <1>5
  DEF vars, PinInv, Shapes, FinitelyPinned, AffinityBounded, AnswersEarned,
      PinEarned
<1> QED
  BY <1>1, <1>2, <1>3, <1>4, <1>5 DEF Next

LEMMA PinInvAlways == Spec => []PinInv
  BY PinInvInit, PinInvStep, PTL DEF Spec

(* The affinity map stays within its bound, for any bound and whoever      *)
(* comes, expires or is evicted.                                           *)
THEOREM AffinityStaysBounded == Spec => []AffinityBounded
<1>1. PinInv => AffinityBounded
  BY DEF PinInv
<1> QED
  BY <1>1, PinInvAlways, PTL

(* No session is ever pinned to a route that did not answer it at once. *)
THEOREM PinsAreEarned == Spec => []PinEarned
<1>1. PinInv => PinEarned
  BY DEF PinInv
<1> QED
  BY <1>1, PinInvAlways, PTL

-----------------------------------------------------------------------------
Cause(s) ==
  \/ affinity[s].left = 0
  \/ \E r \in Requests : OwnFailure(r, s) \/ Condemns(r, s) \/ Displaces(r, s)

LEMMA FailureIsCause ==
  ASSUME PinInv, NEW r \in Requests, NEW s \in DOMAIN affinity \ DOMAIN affinity',
         \/ Fail(r) \/ Limited(r) \/ Rejected(r) \/ NotFound(r)
         \/ QuotaExhausted(r)
  PROVE  Cause(s)
<1>1. ASSUME NEW S, NEW d \in {"next_attempt", "next_elsewhere"}, Fails(r, d, S)
      PROVE  s \in S \/ OwnFailure(r, s)
  BY <1>1
  DEF Fails, Break, Without, OwnFailure, PinInv, Shapes
<1>2. CASE Fail(r) \/ Limited(r)
  BY <1>1, <1>2 DEF Fail, Limited, Cause
<1>3. CASE Rejected(r) \/ NotFound(r)
  <2>1. s \in OnRoute(target[r]) \/ OwnFailure(r, s)
    BY <1>1, <1>3 DEF Rejected, NotFound
  <2>2. CASE s \in OnRoute(target[r])
    BY <1>3, <2>2 DEF OnRoute, RouteOf, Condemns, Cause
  <2> QED
    BY <2>1, <2>2 DEF Cause
<1>4. CASE QuotaExhausted(r)
  <2>1. s \in OnGroup(target[r]) \/ OwnFailure(r, s)
    BY <1>1, <1>4 DEF QuotaExhausted
  <2>2. CASE s \in OnGroup(target[r])
    BY <1>4, <2>2 DEF OnGroup, Condemns, Cause
  <2> QED
    BY <2>1, <2>2 DEF Cause
<1> QED
  BY <1>2, <1>3, <1>4

LEMMA PlanIsCause ==
  ASSUME PinInv, NEW r \in Requests, NEW s \in DOMAIN affinity \ DOMAIN affinity',
         Dial(r) \/ NothingReady(r) \/ Decide(r)
  PROVE  Cause(s)
<1>1. ASSUME LookUp(r) PROVE Cause(s)
  BY <1>1 DEF LookUp, Without, Cause
<1>2. CASE Dial(r) \/ NothingReady(r)
  BY <1>1, <1>2 DEF Dial, NothingReady
<1>3. CASE Decide(r)
  <2>1. CASE pc[r] = "next_elsewhere"
    BY <1>1, <1>3, <2>1 DEF Decide
  <2>2. CASE pc[r] = "next_attempt" /\ Break(r, {})
    <3>1. SessionOf[r] = s
      BY <2>2 DEF Break, Without
    <3>2. pc'[r] = "routing"
      BY <1>3 DEF Decide, Loop, Return, PinInv, Shapes
    <3> QED
      BY <2>2, <3>1, <3>2 DEF OwnFailure, Cause
  <2> QED
    BY <1>3, <2>1, <2>2 DEF Decide
<1> QED
  BY <1>2, <1>3

LEMMA EvictionIsCause ==
  ASSUME PinInv, NEW r \in Requests, NEW s \in DOMAIN affinity \ DOMAIN affinity',
         NoteSessionRoute(r)
  PROVE  Cause(s)
<1>1. PICK out \in IF FullFor(SessionOf[r]) THEN {{o} : o \in Oldest} ELSE {{}} :
        DOMAIN affinity' = (Live \ out) \cup {SessionOf[r]}
  BY DEF NoteSessionRoute
<1>2. CASE s \notin Live
  BY <1>2 DEF Live, Cause, PinInv, Shapes
<1>3. CASE s \in Live
  <2>1. s \in out
    BY <1>1, <1>3
  <2>2. FullFor(SessionOf[r]) /\ s \in Oldest
    BY <1>1, <2>1
  <2>3. Cardinality(Live) = MaxAffinity
    BY <2>2, LivePins, SelectionAssumption DEF FullFor, SelectionAssumption
  <2> QED
    BY <2>2, <2>3 DEF FullFor, Displaces, Cause
<1> QED
  BY <1>2, <1>3

LEMMA LostForCause ==
  ASSUME PinInv, [Next]_vars, NEW s \in DOMAIN affinity \ DOMAIN affinity'
  PROVE  Cause(s)
<1>1. ASSUME NEW r \in Requests,
             Succeed(r) \/ Leave(r) \/ GiveUp(r)
      PROVE  Cause(s)
  BY <1>1 DEF Succeed, Leave, GiveUp
<1>2. CASE Tick
  BY <1>2 DEF Tick
<1>3. CASE UNCHANGED vars
  BY <1>3 DEF vars
<1> QED
  BY <1>1, <1>2, <1>3, FailureIsCause, PlanIsCause, EvictionIsCause DEF Next

(* A session keeps its pin until it expires, falls to a failure of its own  *)
(* or of its route or account, or is the oldest of a full map.             *)
THEOREM PinsAreLostForCause == Spec => PinLostForCause
<1>1. PinInv /\ [Next]_vars
        => [\A s \in DOMAIN affinity \ DOMAIN affinity' : Cause(s)]_vars
  BY LostForCause
<1> QED
  BY <1>1, PinInvAlways, PTL DEF Spec, PinLostForCause, Cause

-----------------------------------------------------------------------------
(* The topology: where targets lie, and that there are finitely many.      *)
LEMMA EnabledKeys ==
  /\ IsFiniteSet(Indexes) /\ Indexes \in SUBSET Nat
  /\ \A i \in Indexes : Pool[i] \in [group : Groups, enabled : BOOLEAN]
  /\ \A k \in Keys : Entries[k] \in Indexes
<1> DEFINE R == [group : Groups, enabled : BOOLEAN]
           E == {i \in Indexes : Pool[i].enabled}
<1>1. Pool \in Seq(R)
  BY TableAssumption DEF TableAssumption
<1> HIDE DEF R
<1>2. /\ IsFiniteSet(Indexes) /\ Indexes \in SUBSET Nat
      /\ \A i \in Indexes : Pool[i] \in R
  BY <1>1, FiniteList DEF Indexes
<1>3. E \in SUBSET Nat /\ E \in SUBSET Indexes /\ IsFiniteSet(E)
  BY <1>2, FS_Subset
<1>4. Entries = InOrder(E)
  BY DEF Entries
<1> HIDE DEF E
<1>5. Entries \in Seq(E)
  BY <1>3, <1>4, InOrderOf
<1>6. \A k \in Keys : Entries[k] \in E
  BY <1>5, FiniteList DEF Keys
<1> QED BY <1>2, <1>3, <1>6 DEF R

LEMMA NoTargetTyped == NoTarget \in Targets
<1>1. Models # {} /\ Pool # <<>>
  BY TableAssumption DEF TableAssumption
<1>2. PICK i \in Indexes : TRUE
  <2> DEFINE R == [group : Groups, enabled : BOOLEAN]
  <2>1. Pool \in Seq(R)
    BY TableAssumption DEF TableAssumption
  <2> HIDE DEF R
  <2>2. Len(Pool) # 0 /\ Len(Pool) \in Nat /\ Indexes = 1 .. Len(Pool)
    BY <1>1, <2>1 DEF Indexes
  <2> QED BY <2>2
<1>3. PICK m \in Models : TRUE
  BY <1>1
<1>4. [model |-> m, group |-> Pool[i].group, key |-> i] \in Targets
  BY EnabledKeys DEF Targets
<1> QED BY <1>4 DEF NoTarget

LEMMA TurnTaken ==
  ASSUME rotation \in 0 .. Period - 1
  PROVE  /\ rotation \in Nat
         /\ (rotation + 1) % Period \in 0 .. Period - 1
         /\ 0 \in 0 .. Period - 1
<1>1. Period \in Nat \ {0}
  BY TableAssumption DEF TableAssumption
<1>2. \A n \in Nat : n % Period \in 0 .. Period - 1
  BY <1>1
<1>3. rotation \in Nat /\ rotation + 1 \in Nat
  BY <1>1
<1> QED BY <1>1, <1>2, <1>3

(* The candidates of a tier: its models, at their places in it, on the     *)
(* accounts.                                                               *)
LEMMA Candidates ==
  ASSUME NEW i \in DOMAIN Tiers,
         NEW ready \in SUBSET (Range(Tiers[i]) \X Groups)
  PROVE  /\ IsFiniteSet(ready)
         /\ \A c \in ready : /\ c[1] \in Models /\ c[2] \in Groups
                             /\ Ordinal(Tiers[i], c) \in Nat
<1> DEFINE tier == Tiers[i]
<1>1. tier \in Seq(Models)
  BY TableAssumption DEF TableAssumption
<1> HIDE DEF tier
<1>2. /\ DOMAIN tier \in SUBSET Nat
      /\ Range(tier) \in SUBSET Models /\ IsFiniteSet(Range(tier))
  BY <1>1, FiniteList
<1>3. IsFiniteSet(ready)
  <2>1. IsFiniteSet(Range(tier) \X Groups)
    BY <1>2, ModelAssumption, FS_Product DEF ModelAssumption
  <2> QED BY <2>1, FS_Subset DEF tier
<1>4. ASSUME NEW c \in ready
      PROVE  c[1] \in Models /\ c[2] \in Groups /\ Ordinal(tier, c) \in Nat
  <2>1. c[1] \in Range(tier) /\ c[2] \in Groups
    BY DEF tier
  <2> DEFINE places == {o \in DOMAIN tier : tier[o] = c[1]}
  <2>2. places \in SUBSET Nat /\ places # {}
    BY <1>2, <2>1 DEF Range
  <2>3. Ordinal(tier, c) = Min(places)
    BY DEF Ordinal
  <2> HIDE DEF places
  <2> QED BY <1>2, <2>1, <2>2, <2>3, MinIn
<1> QED BY <1>3, <1>4 DEF tier

LEMMA ScoreTyped ==
  ASSUME IsFiniteSet(Attempting), streak \in [Keys -> Nat], NEW c
  PROVE  Score(c) \in Nat
<1>1. ASSUME NEW k \in Keys PROVE Weight(k) \in Nat
  <2>1. IsFiniteSet({r \in Attempting : target[r].key = k})
    BY FS_Subset
  <2>2. InFlight(k) \in Nat
    BY <2>1, FS_CardinalityType DEF InFlight
  <2> QED BY <2>2 DEF Weight
<1> DEFINE choices == KeyChoices(c[2], rotation)
           Load(i) == IF i \in DOMAIN choices /\ InTable(choices[i])
                      THEN Weight(choices[i]) ELSE 0
<1>2. Load(1) \in Nat /\ Load(2) \in Nat
  BY <1>1 DEF InTable
<1>3. Score(c) = Load(1) + Load(2)
  BY Zenon DEF Score
<1> HIDE DEF Load
<1> QED BY <1>2, <1>3

(* Some candidate comes first, whatever is ready and whatever is pinned.   *)
LEMMA ForemostIsReady ==
  ASSUME IsFiniteSet(Attempting), streak \in [Keys -> Nat], rotation \in Nat,
         NEW i \in DOMAIN Tiers,
         NEW ready \in SUBSET (Range(Tiers[i]) \X Groups), ready # {}, NEW pin
  PROVE  Foremost(Tiers[i], ready, pin) \in ready
<1> DEFINE tier == Tiers[i]
           turn(c) == (Cardinality({d \in ready : Before(tier, d, c)}) + rotation)
                        % Cardinality(ready)
           preferred == IF ready \cap pin # {} THEN ready \cap pin ELSE ready
           score == [c \in ready |-> Score(c)]
           place == [c \in ready |-> Ordinal(tier, c)]
           turns == [c \in ready |-> turn(c)]
           A == {c \in preferred : \A d \in preferred : score[c] <= score[d]}
           B == {c \in A : \A d \in A : place[c] <= place[d]}
           C == {c \in B : \A d \in B : turns[c] <= turns[d]}
<1>1. IsFiniteSet(ready) /\ \A c \in ready : Ordinal(tier, c) \in Nat
  BY Candidates
<1>2. \A c \in ready : score[c] \in Nat
  BY ScoreTyped
<1>3. \A c \in ready : place[c] \in Nat
  BY <1>1
<1>4. \A c \in ready : turns[c] \in Nat
  <2>1. Cardinality(ready) \in Nat \ {0}
    BY <1>1, FS_CardinalityType, FS_EmptySet
  <2>2. ASSUME NEW c \in ready PROVE turn(c) \in Nat
    <3> DEFINE before == {d \in ready : Before(tier, d, c)}
               n == Cardinality(before)
               size == Cardinality(ready)
    <3>1. IsFiniteSet(before)
      BY <1>1, FS_Subset
    <3>2. n \in Nat
      <4> HIDE DEF before
      <4> QED BY <3>1, FS_CardinalityType
    <3>3. turn(c) = (n + rotation) % size
      OBVIOUS
    <3>4. size \in Nat \ {0}
      BY <2>1
    <3> HIDE DEF n, size, turn
    <3>5. n + rotation \in Nat
      BY <3>2
    <3> QED BY <3>3, <3>4, <3>5
  <2> HIDE DEF turn
  <2> QED BY <2>2
<1>5. preferred # {} /\ preferred \in SUBSET ready
  OBVIOUS
<1>6. Foremost(tier, ready, pin) = CHOOSE c \in C : TRUE
  <2>1. A = Least(preferred, Score)
    BY <1>5 DEF Least
  <2> DEFINE Place(c) == Ordinal(tier, c)
             Turn(c) == turn(c)
  <2> HIDE DEF A
  <2>2. B = Least(A, Place)
    BY <1>5, <2>1 DEF Least
  <2> HIDE DEF B
  <2>3. C = Least(B, Turn)
    BY <1>5, <2>1, <2>2 DEF Least
  <2> QED BY <2>1, <2>2, <2>3, Zenon DEF Foremost
<1> HIDE DEF score, place, turns, preferred
<1>7. A # {} /\ A \in SUBSET ready
  <2>1. preferred # {} /\ \A c \in preferred : score[c] \in Nat
    BY <1>2, <1>5
  <2>2. {c \in preferred : \A d \in preferred : score[c] <= score[d]} # {}
    BY <2>1, LeastCost
  <2> QED BY <1>5, <2>2
<1> HIDE DEF A
<1>8. B # {} /\ B \in SUBSET ready
  <2>1. A # {} /\ \A c \in A : place[c] \in Nat
    BY <1>3, <1>7
  <2>2. {c \in A : \A d \in A : place[c] <= place[d]} # {}
    BY <2>1, LeastCost
  <2> QED BY <1>7, <2>2
<1> HIDE DEF B
<1>9. C # {} /\ C \in SUBSET ready
  <2>1. B # {} /\ \A c \in B : turns[c] \in Nat
    BY <1>4, <1>8
  <2>2. {c \in B : \A d \in B : turns[c] <= turns[d]} # {}
    BY <2>1, LeastCost
  <2> QED BY <1>8, <2>2
<1> HIDE DEF C
<1>10. (CHOOSE c \in C : TRUE) \in ready
  BY <1>9
<1> QED BY <1>6, <1>10 DEF tier

(* The types, that only finitely many guards live at a time, and that      *)
(* whoever is about to pin has a session.                                  *)
SelectInv ==
  /\ PinInv
  /\ TypeOK
  /\ IsFiniteSet(Attempting)
  /\ \A r \in Requests : pc[r] = "answered" => SessionOf[r] \in SessionNames

Pins == [route : Routes, left : 0 .. AffinityTTL]

LEMMA AttemptingStep ==
  ASSUME SelectInv, NEW r \in Requests, NEW s, pc' = [pc EXCEPT ![r] = s]
  PROVE  IsFiniteSet(Attempting')
<1>1. Attempting' \subseteq Attempting \cup {r}
  BY DEF Attempting, SelectInv, TypeOK
<1>2. IsFiniteSet(Attempting \cup {r})
  BY FS_AddElement DEF SelectInv
<1> QED BY <1>1, <1>2, FS_Subset

LEMMA TameTyped ==
  ASSUME SelectInv, NEW r \in Requests, Tame(r), target'[r] \in Targets,
         streak' \in [Keys -> Nat], rotation' \in 0 .. Period - 1
  PROVE  SelectInv'
<1> USE DEF SelectInv, Tame, Moves
<1>1. PinInv'
  BY TameKeepsInv
<1>2. /\ pc' \in [Requests -> States] /\ first' \in [Requests -> BOOLEAN]
      /\ target' \in [Requests -> Targets] /\ earned' = earned
      /\ \A q \in Requests : pc'[q] = "answered" => pc[q] = "answered"
  BY DEF TypeOK
<1>3. /\ DOMAIN affinity' \subseteq SessionNames
      /\ affinity' \in [DOMAIN affinity' -> Pins]
  <2>1. affinity \in [DOMAIN affinity -> Pins] /\ DOMAIN affinity \subseteq SessionNames
    BY DEF TypeOK, Pins
  <2> HIDE DEF Pins
  <2> QED BY <2>1 DEF OnlyDrops, Without
<1>4. IsFiniteSet(Attempting')
  BY AttemptingStep
<1>5. TypeOK'
  BY <1>2, <1>3 DEF TypeOK, Pins
<1> QED BY <1>1, <1>2, <1>4, <1>5

LEMMA StreakTyped ==
  ASSUME streak \in [Keys -> Nat], NEW k, NEW n \in Nat, WithStreak(k, n)
  PROVE  streak' \in [Keys -> Nat]
BY DEF WithStreak

LEMMA DialTyped ==
  ASSUME SelectInv, NEW r \in Requests, Dial(r)
  PROVE  target'[r] \in Targets
<1>1. /\ IsFiniteSet(Attempting) /\ streak \in [Keys -> Nat] /\ rotation \in Nat
      /\ target \in [Requests -> Targets]
  BY TurnTaken DEF SelectInv, TypeOK
<1> DEFINE Chosen(c) == \E k \in Range(KeyChoices(c[2], rotation)) \cap Keys :
                          target' = [target EXCEPT ![r] =
                                       [model |-> c[1], group |-> c[2],
                                        key |-> Entries[k]]]
<1>2. PICK i \in DOMAIN Tiers :
        \E ready \in SUBSET (Range(Tiers[i]) \X Groups) :
          ready # {} /\ Chosen(Foremost(Tiers[i], ready, Pin(r)))
  BY Zenon DEF Dial
<1> HIDE DEF Chosen
<1>7. PICK ready :
        /\ ready \in SUBSET (Range(Tiers[i]) \X Groups) /\ ready # {}
        /\ Chosen(Foremost(Tiers[i], ready, Pin(r)))
  BY <1>2
<1> DEFINE c == Foremost(Tiers[i], ready, Pin(r))
<1>3. c \in ready
  BY <1>1, <1>7, ForemostIsReady
<1>4. PICK k \in Keys :
        target' = [target EXCEPT ![r] =
                     [model |-> c[1], group |-> c[2], key |-> Entries[k]]]
  BY <1>7 DEF Chosen
<1> HIDE DEF c
<1>5. c[1] \in Models /\ c[2] \in Groups
  BY <1>3, <1>7, Candidates
<1>6. Entries[k] \in Indexes
  BY EnabledKeys
<1> QED BY <1>1, <1>4, <1>5, <1>6 DEF Targets

LEMMA TameStepsTyped ==
  ASSUME SelectInv, NEW r \in Requests,
         \/ Dial(r) \/ NothingReady(r) \/ Leave(r) \/ Decide(r) \/ GiveUp(r)
         \/ Fail(r) \/ Limited(r) \/ Rejected(r) \/ NotFound(r)
         \/ QuotaExhausted(r)
  PROVE  SelectInv'
<1> DEFINE Rest == /\ target'[r] \in Targets
                   /\ streak' \in [Keys -> Nat]
                   /\ rotation' \in 0 .. Period - 1
<1>1. /\ target \in [Requests -> Targets] /\ streak \in [Keys -> Nat]
      /\ rotation \in 0 .. Period - 1
  BY DEF SelectInv, TypeOK
<1>2. (rotation + 1) % Period \in 0 .. Period - 1
  BY <1>1, TurnTaken
<1>3. ASSUME Dial(r) PROVE Rest
  BY <1>1, <1>2, <1>3, DialTyped DEF Dial, NextRotation
<1>4. ASSUME Return(r) PROVE target'[r] \in Targets
  BY <1>1, <1>4, NoTargetTyped DEF Return
<1>5. ASSUME Loop(r) PROVE target'[r] \in Targets
  BY <1>1, <1>5, NoTargetTyped DEF Loop
<1>6. ASSUME NothingReady(r) \/ Leave(r) \/ GiveUp(r) PROVE Rest
  BY <1>1, <1>4, <1>6 DEF NothingReady, Leave, GiveUp
<1>7. ASSUME Decide(r) PROVE Rest
  BY <1>1, <1>2, <1>4, <1>5, <1>7 DEF Decide, NextRotation
<1>8. ASSUME NEW d, NEW S, Fails(r, d, S)
      PROVE  target'[r] \in Targets /\ rotation' = rotation
  BY <1>1, <1>8 DEF Fails
<1>9. ASSUME Fail(r) \/ Rejected(r) \/ NotFound(r) \/ QuotaExhausted(r) PROVE Rest
  BY <1>1, <1>8, <1>9 DEF Fail, Rejected, NotFound, QuotaExhausted
<1>10. ASSUME Limited(r) PROVE Rest
  <2>1. PICK n \in {0} \cup {streak[k] : k \in Keys \cap {target[r].key}} :
          WithStreak(target[r].key, n + 1)
    BY <1>10 DEF Limited
  <2>2. n + 1 \in Nat
    BY <1>1, <2>1
  <2>3. streak' \in [Keys -> Nat]
    BY <1>1, <2>1, <2>2, StreakTyped
  <2> QED BY <1>1, <1>8, <1>10, <2>3 DEF Limited
<1>11. Rest
  BY <1>3, <1>6, <1>7, <1>9, <1>10
<1>12. Tame(r)
  BY TameSteps DEF SelectInv, PinInv
<1> QED BY <1>11, <1>12, TameTyped

LEMMA SucceedTyped ==
  ASSUME SelectInv, NEW r \in Requests, Succeed(r)
  PROVE  SelectInv'
<1>1. PinInv'
  BY SucceedKeepsInv DEF SelectInv
<1>2. TypeOK /\ SessionOf \in [Requests -> SessionNames \cup {Anonymous}]
  BY SelectionAssumption DEF SelectInv, SelectionAssumption
<1>3. streak' \in [Keys -> Nat]
  BY <1>2, StreakTyped DEF Succeed, TypeOK
<1>4. /\ pc' \in [Requests -> States] /\ first' \in [Requests -> BOOLEAN]
      /\ target' \in [Requests -> Targets]
      /\ \E s : pc' = [pc EXCEPT ![r] = s]
  BY <1>2, NoTargetTyped DEF Succeed, Return, TypeOK, States
<1>5. \A q \in Requests : pc'[q] = "answered" => SessionOf[q] \in SessionNames
  BY <1>2 DEF Succeed, Return, Pinning, TypeOK, SelectInv
<1>6. earned' \subseteq SessionNames \X Routes
  <2>1. RouteOf(target[r]) \in Routes
    BY <1>2 DEF TypeOK, Targets, RouteOf, Routes
  <2> QED BY <1>2, <2>1 DEF Succeed, TypeOK
<1>7. TypeOK'
  BY <1>2, <1>3, <1>4, <1>6 DEF Succeed, TypeOK
<1>8. IsFiniteSet(Attempting')
  BY <1>4, AttemptingStep
<1> QED BY <1>1, <1>5, <1>7, <1>8 DEF SelectInv

LEMMA PinTyped ==
  ASSUME SelectInv, NEW r \in Requests, NoteSessionRoute(r)
  PROVE  SelectInv'
<1> DEFINE s == SessionOf[r]
           pinned == [route |-> RouteOf(target[r]), left |-> AffinityTTL]
<1>1. PinInv'
  BY NoteSessionRouteKeepsInv DEF SelectInv
<1>2. TypeOK /\ AffinityTTL \in Nat /\ s \in SessionNames
  BY SelectionAssumption DEF SelectInv, SelectionAssumption, NoteSessionRoute
<1>3. /\ pc' \in [Requests -> States] /\ first' \in [Requests -> BOOLEAN]
      /\ target' \in [Requests -> Targets]
      /\ pc' = [pc EXCEPT ![r] = "routing"]
  BY <1>2, NoTargetTyped DEF NoteSessionRoute, Return, TypeOK, States
<1>4. pinned \in Pins
  <2>1. RouteOf(target[r]) \in Routes
    BY <1>2 DEF TypeOK, Targets, RouteOf, Routes
  <2> QED BY <1>2, <2>1 DEF Pins
<1>5. /\ DOMAIN affinity' \subseteq SessionNames
      /\ affinity' \in [DOMAIN affinity' -> Pins]
  <2>1. PICK out : affinity' = [o \in (Live \ out) \cup {s} |->
                                  IF o = s THEN pinned ELSE affinity[o]]
    BY DEF NoteSessionRoute
  <2>2. /\ affinity \in [DOMAIN affinity -> Pins]
        /\ DOMAIN affinity \subseteq SessionNames
    BY <1>2 DEF TypeOK, Pins
  <2>3. Live \subseteq DOMAIN affinity
    BY DEF Live
  <2> HIDE DEF Pins, pinned
  <2> QED BY <1>2, <1>4, <2>1, <2>2, <2>3
<1>6. TypeOK'
  BY <1>2, <1>3, <1>5 DEF NoteSessionRoute, TypeOK, Pins
<1>7. IsFiniteSet(Attempting')
  BY <1>3, AttemptingStep
<1> QED BY <1>1, <1>2, <1>3, <1>6, <1>7 DEF SelectInv, TypeOK

LEMMA SelectInvInit == Init => SelectInv
<1> SUFFICES ASSUME Init PROVE SelectInv
  OBVIOUS
<1>1. PinInv
  BY PinInvInit
<1>2. Attempting = {}
  BY DEF Init, Attempting
<1>3. 0 \in 0 .. Period - 1
  BY TableAssumption DEF TableAssumption
<1>4. TypeOK
  BY <1>3, NoTargetTyped DEF Init, TypeOK, States
<1> QED BY <1>1, <1>2, <1>4, FS_EmptySet DEF SelectInv, Init

LEMMA SelectInvStep == SelectInv /\ [Next]_vars => SelectInv'
<1> SUFFICES ASSUME SelectInv, [Next]_vars PROVE SelectInv'
  OBVIOUS
<1>1. CASE Tick
  <2>1. PinInv'
    BY <1>1, TickKeepsInv DEF SelectInv
  <2>2. TypeOK /\ AffinityTTL \in Nat
    BY SelectionAssumption DEF SelectInv, SelectionAssumption
  <2>3. affinity' \in [DOMAIN affinity' -> Pins]
    <3>1. affinity \in [DOMAIN affinity -> Pins]
      BY <2>2 DEF TypeOK, Pins
    <3>2. \A p \in Pins : [p EXCEPT !.left = Decrement(@)] \in Pins
      BY <2>2 DEF Pins, Decrement
    <3> HIDE DEF Pins
    <3> QED BY <1>1, <3>1, <3>2 DEF Tick
  <2>4. DOMAIN affinity' = DOMAIN affinity
    BY <1>1 DEF Tick
  <2>5. TypeOK'
    BY <1>1, <2>2, <2>3, <2>4 DEF Tick, TypeOK, Pins
  <2>6. Attempting' = Attempting
    BY <1>1 DEF Tick, Attempting
  <2> QED BY <1>1, <2>1, <2>5, <2>6 DEF SelectInv, Tick
<1>2. CASE UNCHANGED vars
  <2>1. PinInv'
    BY <1>2, PinInvStep DEF SelectInv
  <2> QED BY <1>2, <2>1 DEF SelectInv, vars, TypeOK, Attempting
<1> QED
  BY <1>1, <1>2, TameStepsTyped, SucceedTyped, PinTyped DEF Next

(* A selection always finds a candidate, and it is one of the tier, on an  *)
(* account of the configuration, with an enabled key: whatever is in       *)
(* flight, whatever streaks there are and whatever is pinned, for any      *)
(* topology (order(), router.rs:1682).                                      *)
THEOREM TypeCorrect == Spec => []TypeOK
<1>1. SelectInv => TypeOK
  BY DEF SelectInv
<1> QED BY <1>1, SelectInvInit, SelectInvStep, PTL DEF Spec
=============================================================================
