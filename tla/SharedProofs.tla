---------------------------- MODULE SharedProofs ----------------------------
(***************************************************************************)
(* What the proofs of several components rest on: that numbers have a      *)
(* least among them and finite sets of them an order, and what holds of    *)
(* the entry of one model wherever it is kept, for any thresholds, windows *)
(* and cooldowns.                                                          *)
(***************************************************************************)
EXTENDS ModelEntry, Ordering, Sequences, FiniteSetsExt, FiniteSetTheorems,
        FunctionTheorems, TLAPS

(* Every nonempty set of natural numbers has a least member.  Whatever     *)
(* holds of a number if it holds of those before it holds of all: the      *)
(* least counterexample would be none.                                     *)
LEMMA LeastNatural ==
  ASSUME NEW T \in SUBSET Nat, T # {}
  PROVE  \E n \in T : \A m \in T : n <= m
<1> DEFINE C == {1 .. n : n \in T}
<1>1. C \subseteq FiniteSubsetsOf(Nat)
  <2> SUFFICES ASSUME NEW n \in T PROVE 1 .. n \in FiniteSubsetsOf(Nat)
    OBVIOUS
  <2> QED BY FS_Interval DEF FiniteSubsetsOf
<1>2. C # {}
  OBVIOUS
<1>3. PICK X \in C : \A Y \in C : <<Y, X>> \notin StrictSubsetOrdering(Nat)
  <2> HIDE DEF C
  <2>1. IsWellFoundedOn(StrictSubsetOrdering(Nat), FiniteSubsetsOf(Nat))
    BY FS_StrictSubsetOrderingWellFounded
  <2> QED BY <1>1, <1>2, <2>1, WFMin
<1>4. PICK n \in T : X = 1 .. n
  OBVIOUS
<1>5. ASSUME NEW m \in T, m < n PROVE FALSE
  <2>1. 1 .. m \in C
    OBVIOUS
  <2>2. 1 .. m \subseteq 1 .. n /\ 1 .. m # 1 .. n
    <3>1. n \in 1 .. n /\ n \notin 1 .. m
      BY <1>5
    <3> QED BY <1>5, <3>1
  <2>3. <<1 .. m, 1 .. n>> \in StrictSubsetOrdering(Nat)
    BY <2>2 DEF StrictSubsetOrdering
  <2> QED BY <1>3, <1>4, <2>1, <2>3
<1> QED BY <1>5

(* The least of some numbers is one of them. *)
LEMMA MinIn ==
  ASSUME NEW S \in SUBSET Nat, S # {}
  PROVE  Min(S) \in S /\ \A n \in S : Min(S) <= n
<1>1. \E n \in S : \A m \in S : n <= m
  BY LeastNatural
<1> QED BY <1>1 DEF Min

(* Among things with a cost, some cost the least. *)
LEMMA LeastCost ==
  ASSUME NEW S, S # {}, NEW f, \A c \in S : f[c] \in Nat
  PROVE  {c \in S : \A d \in S : f[c] <= f[d]} # {}
<1> DEFINE costs == {f[c] : c \in S}
<1>1. costs \in SUBSET Nat /\ costs # {}
  OBVIOUS
<1> HIDE DEF costs
<1>2. PICK n \in costs : \A m \in costs : n <= m
  BY <1>1, LeastNatural
<1> QED BY <1>2 DEF costs

(* The indexes of a list, and its members. *)
LEMMA FiniteList ==
  ASSUME NEW T, NEW s \in Seq(T)
  PROVE  /\ DOMAIN s = 1 .. Len(s) /\ Len(s) \in Nat
         /\ IsFiniteSet(DOMAIN s) /\ DOMAIN s \in SUBSET Nat
         /\ \A i \in DOMAIN s : s[i] \in T
         /\ Range(s) \in SUBSET T /\ IsFiniteSet(Range(s))
<1>1. DOMAIN s = 1 .. Len(s) /\ Len(s) \in Nat /\ s \in [DOMAIN s -> T]
  OBVIOUS
<1>2. IsFiniteSet(DOMAIN s)
  <2>1. 1 \in Int /\ Len(s) \in Int
    BY <1>1
  <2> QED BY <1>1, <2>1, FS_Interval
<1>3. Range(s) \in SUBSET T /\ s \in Surjection(DOMAIN s, Range(s))
  BY <1>1, Fun_RangeProperties
<1>4. IsFiniteSet(Range(s))
  BY <1>2, <1>3, FS_Surjection
<1> QED BY <1>1, <1>2, <1>3, <1>4

(* InOrder(S) lists each member of S once, each at its rank.               *)
LEMMA InOrderOf ==
  ASSUME NEW S \in SUBSET Nat, IsFiniteSet(S)
  PROVE  /\ InOrder(S) \in Seq(S)
         /\ Len(InOrder(S)) = Cardinality(S)
         /\ Cardinality(S) \in Nat
         /\ \A n \in 1 .. Cardinality(S) :
              /\ InOrder(S)[n] \in S
              /\ Cardinality({j \in S : j < InOrder(S)[n]}) = n - 1
         /\ \A i \in S : \E n \in 1 .. Cardinality(S) : InOrder(S)[n] = i
<1> DEFINE Below(i) == {j \in S : j < i}
           rank == [i \in S |-> Cardinality(Below(i))]
           places == 0 .. Cardinality(S) - 1
<1>1. Cardinality(S) \in Nat /\ IsFiniteSet(places) /\ Cardinality(places) = Cardinality(S)
  <2>1. Cardinality(S) \in Nat
    BY FS_CardinalityType
  <2>2. 0 \in Int /\ Cardinality(S) - 1 \in Int
    BY <2>1
  <2>3. IsFiniteSet(places)
        /\ Cardinality(places) = IF 0 > Cardinality(S) - 1 THEN 0
                                 ELSE Cardinality(S) - 1 - 0 + 1
    BY <2>2, FS_Interval
  <2> QED BY <2>1, <2>3
<1>2. ASSUME NEW i \in S
      PROVE  IsFiniteSet(Below(i)) /\ Cardinality(Below(i)) \in places
  <2>1. Below(i) \in SUBSET (S \ {i})
    OBVIOUS
  <2>2. IsFiniteSet(S \ {i}) /\ Cardinality(S \ {i}) = Cardinality(S) - 1
    BY FS_RemoveElement
  <2>3. IsFiniteSet(Below(i)) /\ Cardinality(Below(i)) <= Cardinality(S \ {i})
    BY <2>1, <2>2, FS_Subset
  <2>4. Cardinality(Below(i)) \in Nat
    BY <2>3, FS_CardinalityType
  <2> QED BY <1>1, <2>2, <2>3, <2>4
<1>3. ASSUME NEW i \in S, NEW k \in S, i < k
      PROVE  rank[i] # rank[k]
  <2>1. i \in Nat /\ k \in Nat /\ \A j \in S : j \in Nat
    OBVIOUS
  <2>2. \A j \in Below(i) : j \in Below(k)
    BY <1>3, <2>1
  <2>3. i \in Below(k) /\ i \notin Below(i)
    BY <1>3, <2>1
  <2>4. Below(i) \in SUBSET Below(k) /\ Below(i) # Below(k)
    BY <2>2, <2>3
  <2>5. IsFiniteSet(Below(k))
    BY <1>2
  <2>6. Cardinality(Below(i)) # Cardinality(Below(k))
    <3> HIDE DEF Below
    <3> QED BY <2>4, <2>5, FS_Subset
  <2> QED BY <2>6
<1>4. rank \in Injection(S, places)
  <2>1. rank \in [S -> places]
    BY <1>2
  <2>2. ASSUME NEW i \in S, NEW k \in S, rank[i] = rank[k] PROVE i = k
    BY <1>3, <2>2
  <2> HIDE DEF rank
  <2> QED BY <2>1, <2>2, Fun_IsInj
<1>5. rank \in Surjection(S, places)
  <2> HIDE DEF rank
  <2> QED BY <1>1, <1>4, FS_Injection
<1>10. \A p \in places : \E i \in S : rank[i] = p
  <2> HIDE DEF rank, places
  <2> QED BY <1>5, Fun_SurjectionProperties
<1>6. ASSUME NEW n \in 1 .. Cardinality(S)
      PROVE  /\ InOrder(S)[n] \in S
             /\ Cardinality(Below(InOrder(S)[n])) = n - 1
  <2>1. n - 1 \in places
    BY <1>1
  <2>2. \E i \in S : rank[i] = n - 1
    BY <1>10, <2>1
  <2>3. \E i \in S : Cardinality(Below(i)) = n - 1
    BY <2>2
  <2>4. InOrder(S)[n] = CHOOSE i \in S : Cardinality(Below(i)) = n - 1
    BY DEF InOrder
  <2> HIDE DEF Below
  <2> QED BY <2>3, <2>4
<1>7. InOrder(S) \in [1 .. Cardinality(S) -> S]
  BY <1>6 DEF InOrder
<1>8. InOrder(S) \in Seq(S) /\ Len(InOrder(S)) = Cardinality(S)
  BY <1>1, <1>7
<1>9. ASSUME NEW i \in S
      PROVE  \E n \in 1 .. Cardinality(S) : InOrder(S)[n] = i
  <2> DEFINE n == rank[i] + 1
  <2>1. n \in 1 .. Cardinality(S) /\ n - 1 = rank[i]
    BY <1>1, <1>2
  <2>2. rank[InOrder(S)[n]] = rank[i] /\ InOrder(S)[n] \in S
    BY <1>6, <2>1
  <2>3. InOrder(S)[n] = i
    <3> HIDE DEF n, rank
    <3> QED BY <1>4, <2>2, Fun_InjectionProperties
  <2> QED BY <2>1, <2>3
<1> QED BY <1>1, <1>6, <1>8, <1>9

-----------------------------------------------------------------------------
LEMMA NewModelTyped == NewModel \in ModelType
BY ModelAssumption
DEF ModelAssumption, ModelType, NewModel, NoneFailing, NoneMissing, Forgotten

(* The operations keep the entry's type, whatever its state is. *)
LEMMA EntryTyped ==
  ASSUME NEW m \in ModelType
  PROVE  /\ ModelAged(m) \in ModelType
         /\ Viewed(m) \in ModelType
         /\ AfterBegin(m) \in ModelType
         /\ \A g : AfterRouteFailure(m, g) \in ModelType
         /\ Served(m) \in ModelType
         /\ \A g : AfterMissing(m, g) \in ModelType
         /\ Released(m) \in ModelType
         /\ Dropped(m) \in ModelType
<1> USE ModelAssumption DEF ModelAssumption, ModelType
<1>1. /\ NoneFailing \in [Groups -> 0 .. Forgotten(TripWindow)]
      /\ NoneMissing \in [Groups -> 0 .. Forgotten(MissingWindow)]
  BY DEF NoneFailing, NoneMissing, Forgotten
<1>2. ModelAged(m) \in ModelType
  <2>1. [h \in Groups |-> Older(m.failing[h], TripWindow)]
          \in [Groups -> 0 .. Forgotten(TripWindow)]
    BY DEF Older, Forgotten
  <2>2. [h \in Groups |-> Older(m.missing[h], MissingWindow)]
          \in [Groups -> 0 .. Forgotten(MissingWindow)]
    BY DEF Older, Forgotten
  <2>3. Decrement(m.timer) \in Nat /\ Decrement(m.back) \in Nat
    BY DEF Decrement
  <2> QED BY <2>1, <2>2, <2>3 DEF ModelAged
<1>3. Viewed(m) \in ModelType
  <2>1. HalfOpened(m) \in ModelType
    BY DEF HalfOpened
  <2> QED BY <1>1, <2>1 DEF Viewed, Recovered
<1>4. \A g : WithFailing(m, g) \in ModelType
  BY DEF WithFailing, Forgotten
<1>5. \A n \in ModelType : Opened(n) \in ModelType
  BY <1>1 DEF Opened
<1>6. \A g : AfterRouteFailure(m, g) \in ModelType
  BY <1>4, <1>5 DEF AfterRouteFailure
<1>7. Served(m) \in ModelType
  BY <1>1 DEF Served
<1>8. \A g : AfterMissing(m, g) \in ModelType
  <2>1. \A g : WithMissing(m, g) \in ModelType
    BY DEF WithMissing, Forgotten
  <2> QED BY <1>1, <2>1 DEF AfterMissing
<1>9. AfterBegin(m) \in ModelType /\ Released(m) \in ModelType
  BY DEF AfterBegin, Released
<1>10. Dropped(m) \in ModelType
  BY DEF Dropped
<1> QED BY <1>2, <1>3, <1>6, <1>7, <1>8, <1>9, <1>10

(* What each operation does to the state and to the half-open slot: only a *)
(* failure opens, only Begin takes the slot, and only in HalfOpen.         *)
LEMMA EntryMoves ==
  ASSUME NEW m \in ModelType
  PROVE  /\ ModelAged(m).state = m.state /\ ModelAged(m).probe = m.probe
         /\ \A g : /\ AfterMissing(m, g).state = m.state
                     /\ AfterMissing(m, g).probe = m.probe
         /\ Released(m).state = m.state /\ ~Released(m).probe
         /\ Dropped(m).state = "Open" <=> m.state = "Open"
         /\ ~Dropped(m).probe
         /\ Served(m).state = "Closed"
         /\ Served(m).probe => m.probe /\ m.state = "Closed"
         /\ AfterBegin(m).state = m.state
         /\ AfterBegin(m).probe => m.probe \/ TakesProbe(m)
<1> USE DEF ModelType
<1>1. ModelAged(m).state = m.state /\ ModelAged(m).probe = m.probe
  BY DEF ModelAged
<1>2. \A g : /\ AfterMissing(m, g).state = m.state
                /\ AfterMissing(m, g).probe = m.probe
  BY DEF AfterMissing, WithMissing
<1>3. Released(m).state = m.state /\ ~Released(m).probe
  BY DEF Released
<1>4. (Dropped(m).state = "Open" <=> m.state = "Open") /\ ~Dropped(m).probe
  BY DEF Dropped
<1>5. /\ Served(m).state = "Closed"
      /\ Served(m).probe => m.probe /\ m.state = "Closed"
  BY DEF Served
<1>6. /\ AfterBegin(m).state = m.state
      /\ AfterBegin(m).probe => m.probe \/ TakesProbe(m)
  BY DEF AfterBegin
<1> QED BY <1>1, <1>2, <1>3, <1>4, <1>5, <1>6

LEMMA ViewMoves ==
  ASSUME NEW m \in ModelType
  PROVE  /\ Viewed(m).state = "Open" => m.state = "Open"
         /\ m.state # "Open" => Viewed(m).state = m.state
         /\ Viewed(m).probe => m.probe /\ Viewed(m).state = m.state
         /\ Viewed(m).failing = m.failing
<1>1. /\ HalfOpened(m).state = "Open" => m.state = "Open"
      /\ m.state # "Open" => HalfOpened(m).state = m.state
      /\ HalfOpened(m).probe => m.probe /\ HalfOpened(m).state = m.state
      /\ HalfOpened(m).failing = m.failing
      /\ HalfOpened(m) \in ModelType
  BY DEF ModelType, HalfOpened
<1>2. \A n \in ModelType : /\ Recovered(n).state = n.state
                           /\ Recovered(n).probe = n.probe
                           /\ Recovered(n).failing = n.failing
  BY DEF ModelType, Recovered
<1> QED BY <1>1, <1>2 DEF Viewed

LEMMA FailureMoves ==
  ASSUME NEW m \in ModelType, NEW g
  PROVE  /\ OpensCircuit(m, g)
              <=> m.state # "Open" /\ AfterRouteFailure(m, g).state = "Open"
         /\ AfterRouteFailure(m, g).probe => m.probe /\ m.state # "HalfOpen"
         /\ m.state = "Open" => AfterRouteFailure(m, g).state = "Open"
         /\ m.state = "Closed" =>
              AfterRouteFailure(m, g).state \in {"Closed", "Open"}
<1> USE DEF ModelType
<1>1. /\ WithFailing(m, g).state = m.state
      /\ WithFailing(m, g).probe = m.probe
      /\ WithFailing(m, g) \in ModelType
  BY ModelAssumption DEF ModelAssumption, WithFailing, Forgotten
<1>2. \A n \in ModelType : /\ Opened(n).state = "Open"
                           /\ Opened(n).probe => n.probe /\ n.state = "Open"
  BY DEF Opened
<1>3. CASE m.state = "HalfOpen"
  BY <1>2, <1>3 DEF AfterRouteFailure, OpensCircuit, Trips
<1>4. CASE m.state # "HalfOpen" /\ Trips(m, g)
  BY <1>1, <1>2, <1>4 DEF AfterRouteFailure, OpensCircuit
<1>5. CASE m.state # "HalfOpen" /\ ~Trips(m, g)
  BY <1>1, <1>5 DEF AfterRouteFailure, OpensCircuit
<1> QED BY <1>3, <1>4, <1>5

(* A slot taken in HalfOpen outlasts no change of the state: whatever      *)
(* becomes of the entry, short of a new attempt, the slot is given up or   *)
(* the entry is half open still.                                           *)
LEMMA SlotKept ==
  ASSUME NEW m \in ModelType, m.probe => m.state = "HalfOpen",
         NEW n,
         \/ n \in {m, ModelAged(m), Viewed(m), Served(m), Dropped(m)}
         \/ \E g : n \in {AfterRouteFailure(m, g), AfterMissing(m, g)}
  PROVE  n.probe => m.probe /\ n.state = "HalfOpen"
BY EntryMoves, ViewMoves, FailureMoves

-----------------------------------------------------------------------------
(* An entry m becomes n at the charge of the accounts of G, which are one  *)
(* or none: no evidence of another account gets younger, and the circuit   *)
(* leaves Closed, or the model goes missing, only if one of G completes    *)
(* the evidence there was.                                                 *)
Charged(m, n, G) ==
  /\ m \in ModelType /\ n \in ModelType
  /\ \A h \in Groups \ G :
       m.failing[h] <= n.failing[h] /\ m.missing[h] <= n.missing[h]
  /\ m.state = "Closed" /\ n.state # "Closed" =>
       \E g \in G : Cardinality(Suspects(m) \cup {g}) >= TripGroups
  /\ ~m.disabled /\ n.disabled =>
       \E g \in G : Cardinality(Absentees(m) \cup {g}) >= MissingGroups

LEMMA ChargedMore ==
  ASSUME NEW m, NEW n, NEW G, NEW H, Charged(m, n, G), G \subseteq H
  PROVE  Charged(m, n, H)
BY DEF Charged

(* More evidence completes what less evidence does. *)
LEMMA Completes ==
  ASSUME NEW A, A \subseteq Groups, NEW B, NEW g, B \subseteq A \cup {g},
         NEW k \in Nat,
         Cardinality(B \cup {g}) >= k
  PROVE  Cardinality(A \cup {g}) >= k
<1>1. IsFiniteSet(A)
  BY ModelAssumption, FS_Subset DEF ModelAssumption
<1>2. IsFiniteSet(A \cup {g})
  BY <1>1, FS_AddElement
<1>3. B \cup {g} \subseteq A \cup {g}
  OBVIOUS
<1>4. /\ IsFiniteSet(B \cup {g})
      /\ Cardinality(B \cup {g}) <= Cardinality(A \cup {g})
  BY <1>2, <1>3, FS_Subset
<1>5. Cardinality(B \cup {g}) \in Nat /\ Cardinality(A \cup {g}) \in Nat
  BY <1>2, <1>4, FS_CardinalityType
<1> QED BY <1>4, <1>5

LEMMA ChargedThen ==
  ASSUME NEW m, NEW n, NEW k, NEW G, \A g, h \in G : g = h,
         Charged(m, n, G), Charged(n, k, G)
  PROVE  Charged(m, k, G)
<1>1. /\ m \in ModelType /\ n \in ModelType /\ k \in ModelType
      /\ TripWindow \in Nat /\ MissingWindow \in Nat
      /\ TripGroups \in Nat /\ MissingGroups \in Nat
  BY ModelAssumption DEF ModelAssumption, Charged
<1>2. \A e \in ModelType : \A h \in Groups :
        e.failing[h] \in Nat /\ e.missing[h] \in Nat
  BY <1>1 DEF ModelType, Forgotten
<1>3. \A h \in Groups \ G :
        m.failing[h] <= n.failing[h] /\ m.missing[h] <= n.missing[h]
  BY DEF Charged
<1>4. \A h \in Groups \ G :
        n.failing[h] <= k.failing[h] /\ n.missing[h] <= k.missing[h]
  BY DEF Charged
<1>5. \A h \in Groups \ G :
        m.failing[h] <= k.failing[h] /\ m.missing[h] <= k.missing[h]
  BY <1>1, <1>2, <1>3, <1>4
<1>6. \A g \in G : /\ Suspects(n) \subseteq Suspects(m) \cup {g}
                   /\ Absentees(n) \subseteq Absentees(m) \cup {g}
  BY <1>1, <1>2, <1>3 DEF Suspects, Absentees
<1>7. Suspects(m) \subseteq Groups /\ Absentees(m) \subseteq Groups
  BY DEF Suspects, Absentees
<1>8. m.state = "Closed" /\ k.state # "Closed" =>
        \E g \in G : Cardinality(Suspects(m) \cup {g}) >= TripGroups
  BY <1>1, <1>6, <1>7, Completes DEF Charged
<1>9. ~m.disabled /\ k.disabled =>
        \E g \in G : Cardinality(Absentees(m) \cup {g}) >= MissingGroups
  BY <1>1, <1>6, <1>7, Completes DEF Charged
<1> QED BY <1>1, <1>5, <1>8, <1>9 DEF Charged

LEMMA ChargedSelf ==
  ASSUME NEW m \in ModelType
  PROVE  Charged(m, m, {})
BY ModelAssumption DEF ModelAssumption, Charged, ModelType, Forgotten

(* Time, looks, the guard and an answer charge nobody; a failure charges   *)
(* the account it was met on.                                              *)
LEMMA EntryCharged ==
  ASSUME NEW m \in ModelType
  PROVE  /\ Charged(m, ModelAged(m), {})
         /\ Charged(m, Viewed(m), {})
         /\ Charged(m, AfterBegin(m), {})
         /\ Charged(m, Served(m), {})
         /\ Charged(m, Dropped(m), {})
         /\ \A g : Charged(m, AfterRouteFailure(m, g), {g})
         /\ \A g : Charged(m, AfterMissing(m, g), {g})
<1>1. /\ TripWindow \in Nat /\ MissingWindow \in Nat
      /\ TripGroups \in Nat /\ MissingGroups \in Nat
  BY ModelAssumption DEF ModelAssumption
<1>2. \A h \in Groups : /\ m.failing[h] \in 0 .. Forgotten(TripWindow)
                        /\ m.missing[h] \in 0 .. Forgotten(MissingWindow)
  BY DEF ModelType
<1>3. \A h \in Groups : /\ m.failing[h] <= NoneFailing[h]
                        /\ m.missing[h] <= NoneMissing[h]
                        /\ m.failing[h] <= m.failing[h]
                        /\ m.missing[h] <= m.missing[h]
  BY <1>1, <1>2 DEF NoneFailing, NoneMissing, Forgotten
<1>4. Charged(m, ModelAged(m), {})
  <2>1. /\ ModelAged(m).state = m.state
        /\ ModelAged(m).disabled = m.disabled
        /\ \A h \in Groups :
             /\ ModelAged(m).failing[h] = Older(m.failing[h], TripWindow)
             /\ ModelAged(m).missing[h] = Older(m.missing[h], MissingWindow)
    BY DEF ModelAged, ModelType
  <2>2. \A h \in Groups :
          /\ m.failing[h] <= Older(m.failing[h], TripWindow)
          /\ m.missing[h] <= Older(m.missing[h], MissingWindow)
    BY <1>1, <1>2 DEF Older, Forgotten
  <2> QED BY <2>1, <2>2, EntryTyped DEF Charged
<1>5. Charged(m, Viewed(m), {})
  <2>1. /\ HalfOpened(m) \in ModelType
        /\ HalfOpened(m).state # m.state => m.state = "Open"
        /\ HalfOpened(m).disabled = m.disabled
        /\ HalfOpened(m).failing = m.failing /\ HalfOpened(m).missing = m.missing
    BY DEF HalfOpened, ModelType
  <2>2. /\ Viewed(m).state = HalfOpened(m).state
        /\ Viewed(m).disabled => HalfOpened(m).disabled
        /\ Viewed(m).failing = HalfOpened(m).failing
        /\ Viewed(m).missing \in {HalfOpened(m).missing, NoneMissing}
    BY <2>1 DEF Viewed, Recovered, ModelType
  <2> QED BY <1>3, <2>1, <2>2, EntryTyped DEF Charged
<1>6. Charged(m, AfterBegin(m), {})
  <2>1. /\ AfterBegin(m).state = m.state
        /\ AfterBegin(m).disabled = m.disabled
        /\ AfterBegin(m).failing = m.failing /\ AfterBegin(m).missing = m.missing
    BY DEF AfterBegin, ModelType
  <2> QED BY <1>3, <2>1, EntryTyped DEF Charged
<1>7. Charged(m, Served(m), {})
  <2>1. /\ Served(m).state = "Closed" /\ ~Served(m).disabled
        /\ Served(m).failing \in {m.failing, NoneFailing}
        /\ Served(m).missing = NoneMissing
    BY DEF Served, ModelType
  <2> QED BY <1>3, <2>1, EntryTyped DEF Charged
<1>8. Charged(m, Dropped(m), {})
  <2>1. /\ m.state = "Closed" => Dropped(m).state = "Closed"
        /\ Dropped(m).disabled = m.disabled
        /\ Dropped(m).failing = m.failing /\ Dropped(m).missing = m.missing
    BY DEF Dropped, ModelType
  <2> QED BY <1>3, <2>1, EntryTyped DEF Charged
<1>9. ASSUME NEW g PROVE Charged(m, AfterRouteFailure(m, g), {g})
  <2> DEFINE w == WithFailing(m, g)
             n == AfterRouteFailure(m, g)
  <2>1. /\ w \in ModelType
        /\ w.state = m.state /\ w.disabled = m.disabled /\ w.missing = m.missing
        /\ \A h \in Groups \ {g} : w.failing[h] = m.failing[h]
    BY ModelAssumption DEF ModelAssumption, WithFailing, ModelType, Forgotten
  <2>2. Suspects(w) \subseteq Suspects(m) \cup {g}
    BY <2>1 DEF Suspects
  <2>3. \A e \in ModelType :
          /\ Opened(e).disabled = e.disabled /\ Opened(e).missing = e.missing
          /\ Opened(e).failing \in {e.failing, NoneFailing}
    BY DEF Opened, ModelType
  <2>4. n \in {Opened(m), Opened(w), w}
    BY DEF AfterRouteFailure
  <2>5. m.state = "Closed" /\ n.state # "Closed" =>
          Cardinality(Suspects(w)) >= TripGroups
    BY <2>1 DEF AfterRouteFailure, Trips
  <2>6. n.disabled = m.disabled /\ n.missing = m.missing
    BY <2>1, <2>3, <2>4
  <2>7. n.failing \in {m.failing, w.failing, NoneFailing}
    BY <2>1, <2>3, <2>4
  <2>8. n \in ModelType
    BY EntryTyped
  <2> HIDE DEF n, w
  <2>9. \A h \in Groups \ {g} :
          m.failing[h] <= n.failing[h] /\ m.missing[h] <= n.missing[h]
    BY <1>3, <2>1, <2>6, <2>7
  <2>10. m.state = "Closed" /\ n.state # "Closed" =>
           Cardinality(Suspects(m) \cup {g}) >= TripGroups
    <3>1. Suspects(m) \subseteq Groups /\ Suspects(w) \subseteq Groups
      BY DEF Suspects
    <3>2. IsFiniteSet(Suspects(m))
      BY <3>1, ModelAssumption, FS_Subset DEF ModelAssumption
    <3>3. IsFiniteSet(Suspects(m) \cup {g})
      BY <3>2, FS_AddElement
    <3>4. /\ Cardinality(Suspects(w)) <= Cardinality(Suspects(m) \cup {g})
          /\ Cardinality(Suspects(w)) \in Nat
          /\ Cardinality(Suspects(m) \cup {g}) \in Nat
      BY <2>2, <3>3, FS_Subset, FS_CardinalityType
    <3> QED BY <1>1, <2>5, <3>4
  <2>11. Charged(m, n, {g})
    BY <2>6, <2>8, <2>9, <2>10 DEF Charged
  <2> QED BY <2>11 DEF n
<1>10. ASSUME NEW g PROVE Charged(m, AfterMissing(m, g), {g})
  <2> DEFINE w == WithMissing(m, g)
             n == AfterMissing(m, g)
  <2>1. /\ w \in ModelType
        /\ w.state = m.state /\ w.disabled = m.disabled /\ w.failing = m.failing
        /\ \A h \in Groups \ {g} : w.missing[h] = m.missing[h]
    BY ModelAssumption DEF ModelAssumption, WithMissing, ModelType, Forgotten
  <2>2. Absentees(w) \subseteq Absentees(m) \cup {g}
    BY <2>1 DEF Absentees
  <2>3. /\ n.state = m.state /\ n.failing = m.failing
        /\ n.missing \in {w.missing, NoneMissing}
    BY <2>1 DEF AfterMissing, ModelType
  <2>4. ~m.disabled /\ n.disabled =>
          ~(Cardinality(Absentees(w)) < MissingGroups)
    BY <2>1 DEF AfterMissing
  <2>5. n \in ModelType
    BY EntryTyped
  <2> HIDE DEF n, w
  <2>6. \A h \in Groups \ {g} :
          m.failing[h] <= n.failing[h] /\ m.missing[h] <= n.missing[h]
    BY <1>3, <2>1, <2>3
  <2>7. ~m.disabled /\ n.disabled =>
          Cardinality(Absentees(m) \cup {g}) >= MissingGroups
    <3>1. Absentees(m) \subseteq Groups
      BY DEF Absentees
    <3>2. IsFiniteSet(Absentees(m))
      BY <3>1, ModelAssumption, FS_Subset DEF ModelAssumption
    <3>3. IsFiniteSet(Absentees(m) \cup {g})
      BY <3>2, FS_AddElement
    <3>4. /\ Cardinality(Absentees(w)) <= Cardinality(Absentees(m) \cup {g})
          /\ Cardinality(Absentees(w)) \in Nat
          /\ Cardinality(Absentees(m) \cup {g}) \in Nat
      BY <2>2, <3>3, FS_Subset, FS_CardinalityType
    <3> QED BY <1>1, <2>4, <3>4
  <2>8. Charged(m, n, {g})
    BY <2>3, <2>5, <2>6, <2>7 DEF Charged
  <2> QED BY <2>8 DEF n
<1> QED BY <1>4, <1>5, <1>6, <1>7, <1>8, <1>9, <1>10
=============================================================================
