--------------------------- MODULE AdmissionProofs ---------------------------
(***************************************************************************)
(* Safety of local admission for every number of handlers, permits, queue  *)
(* places and worker threads, and its implementation of BoundedSlots.      *)
(***************************************************************************)
EXTENDS Admission, FiniteSetTheorems, TLAPS

(* The handlers whose progress under f is in S, and how their number       *)
(* changes when one handler moves.                                         *)
InOf(f, S) == {r \in Requests : f[r] \in S}

SameBut(f, g, r) == \A q \in Requests \ {r} : g[q] = f[q]

LEMMA InOfFinite ==
  ASSUME NEW f, NEW S
  PROVE  IsFiniteSet(InOf(f, S)) /\ Cardinality(InOf(f, S)) \in Nat
BY AdmissionAssumption, FS_Subset, FS_CardinalityType
DEF AdmissionAssumption, InOf

LEMMA Moved ==
  ASSUME NEW f, NEW g, NEW r \in Requests, SameBut(f, g, r), NEW S
  PROVE  /\ f[r] \notin S /\ g[r] \in S =>
              Cardinality(InOf(g, S)) = Cardinality(InOf(f, S)) + 1
         /\ f[r] \in S /\ g[r] \notin S =>
              Cardinality(InOf(g, S)) = Cardinality(InOf(f, S)) - 1
         /\ (f[r] \in S <=> g[r] \in S) =>
              Cardinality(InOf(g, S)) = Cardinality(InOf(f, S))
<1>1. IsFiniteSet(InOf(f, S))
  BY InOfFinite
<1>2. f[r] \notin S /\ g[r] \in S =>
        InOf(g, S) = InOf(f, S) \cup {r} /\ r \notin InOf(f, S)
  BY DEF InOf, SameBut
<1>3. f[r] \in S /\ g[r] \notin S =>
        InOf(g, S) = InOf(f, S) \ {r} /\ r \in InOf(f, S)
  BY DEF InOf, SameBut
<1>4. (f[r] \in S <=> g[r] \in S) => InOf(g, S) = InOf(f, S)
  BY DEF InOf, SameBut
<1>5. f[r] \notin S /\ g[r] \in S =>
        Cardinality(InOf(g, S)) = Cardinality(InOf(f, S)) + 1
  BY <1>1, <1>2, FS_AddElement
<1>6. f[r] \in S /\ g[r] \notin S =>
        Cardinality(InOf(g, S)) = Cardinality(InOf(f, S)) - 1
  BY <1>1, <1>3, FS_RemoveElement
<1> QED BY <1>4, <1>5, <1>6

-----------------------------------------------------------------------------
(* A worker runs at most one handler, and a check that passes saw a        *)
(* counter below the capacity: what bounds the overrun is that handlers    *)
(* between the check and the increment already count against it.           *)
Checked == In({"checked"})
WorkersSuffice == Cardinality(OnWorker) <= Workers
OverrunWithChecked ==
  waiting + Cardinality(Checked) <= QueueCapacity + Workers - 1

IInv ==
  /\ TypeOK
  /\ PermitsConserved
  /\ CounterExact
  /\ NoIdlePermit
  /\ QueueIsWaiters
  /\ WorkersSuffice
  /\ OverrunWithChecked

(* The sets the invariant counts, and the change of their sizes when one   *)
(* handler takes one step.                                                 *)
LEMMA Counts ==
  ASSUME TypeOK
  PROVE  /\ Owners = InOf(pc, {"granted", "holding"})
         /\ Registered = InOf(pc, {"counted", "waiting", "granted"})
         /\ OnWorker = InOf(pc, {"arrived", "saturated", "checked", "counted"})
         /\ Checked = InOf(pc, {"checked"})
         /\ Cardinality(Owners) \in Nat
         /\ Cardinality(Registered) \in Nat
         /\ Cardinality(OnWorker) \in Nat
         /\ Cardinality(Checked) \in Nat
<1>1. /\ Owners = InOf(pc, {"granted", "holding"})
      /\ Registered = InOf(pc, {"counted", "waiting", "granted"})
      /\ OnWorker = InOf(pc, {"arrived", "saturated", "checked", "counted"})
      /\ Checked = InOf(pc, {"checked"})
  BY DEF Owners, Registered, OnWorker, Checked, In, InOf
<1> QED BY <1>1, InOfFinite

LEMMA CheckedAmongRunning ==
  ASSUME NEW f
  PROVE  Cardinality(InOf(f, {"checked"}))
           <= Cardinality(InOf(f, {"arrived", "saturated", "checked", "counted"}))
<1> DEFINE running == InOf(f, {"arrived", "saturated", "checked", "counted"})
<1>1. InOf(f, {"checked"}) \subseteq running
  BY DEF InOf
<1>2. IsFiniteSet(running)
  BY InOfFinite
<1> QED BY <1>1, <1>2, FS_Subset

LEMMA StepCounts ==
  ASSUME TypeOK, NEW r \in Requests, NEW from, NEW to \in States,
         Step(r, from, to)
  PROVE  LET change(S) == (IF to \in S THEN 1 ELSE 0)
                          - (IF from \in S THEN 1 ELSE 0)
         IN  /\ pc' \in [Requests -> States]
             /\ Cardinality(Owners)' =
                  Cardinality(Owners) + change({"granted", "holding"})
             /\ Cardinality(Registered)' =
                  Cardinality(Registered)
                  + change({"counted", "waiting", "granted"})
             /\ Cardinality(OnWorker)' =
                  Cardinality(OnWorker)
                  + change({"arrived", "saturated", "checked", "counted"})
             /\ Cardinality(Checked)' =
                  Cardinality(Checked) + change({"checked"})
<1>1. /\ Owners' = InOf(pc', {"granted", "holding"})
      /\ Registered' = InOf(pc', {"counted", "waiting", "granted"})
      /\ OnWorker' = InOf(pc', {"arrived", "saturated", "checked", "counted"})
      /\ Checked' = InOf(pc', {"checked"})
  BY DEF Owners, Registered, OnWorker, Checked, In, InOf
<1>2. /\ pc \in [Requests -> States]
      /\ pc[r] = from
      /\ pc' = [pc EXCEPT ![r] = to]
  BY DEF TypeOK, Step
<1>3. SameBut(pc, pc', r)
  BY <1>2 DEF SameBut
<1>5. pc[r] = from /\ pc'[r] = to
  BY <1>2
<1>6. ASSUME NEW S
      PROVE  /\ pc[r] \notin S /\ pc'[r] \in S =>
                  Cardinality(InOf(pc', S)) = Cardinality(InOf(pc, S)) + 1
             /\ pc[r] \in S /\ pc'[r] \notin S =>
                  Cardinality(InOf(pc', S)) = Cardinality(InOf(pc, S)) - 1
             /\ (pc[r] \in S <=> pc'[r] \in S) =>
                  Cardinality(InOf(pc', S)) = Cardinality(InOf(pc, S))
  BY ONLY <1>3, Moved
<1>4. pc' \in [Requests -> States]
  BY <1>2
<1> QED BY <1>1, <1>4, <1>5, <1>6, Counts

-----------------------------------------------------------------------------
(* Two moves at once: r goes idle and the first waiter h is granted. *)
LEMMA HandOverCounts ==
  ASSUME TypeOK, NEW r \in Requests, NEW h \in Requests,
         pc[r] \in {"granted", "holding"}, pc[h] = "waiting",
         pc' = [pc EXCEPT ![r] = "idle", ![h] = "granted"]
  PROVE  /\ pc' \in [Requests -> States]
         /\ Cardinality(Owners)' = Cardinality(Owners)
         /\ Cardinality(Registered)' =
              Cardinality(Registered) - (IF pc[r] = "granted" THEN 1 ELSE 0)
         /\ Cardinality(OnWorker)' = Cardinality(OnWorker)
         /\ Cardinality(Checked)' = Cardinality(Checked)
<1>0. PICK f : f = [pc EXCEPT ![r] = "idle"]
  OBVIOUS
<1>3. SameBut(pc, f, r) /\ SameBut(f, pc', h)
  BY <1>0 DEF TypeOK, States, SameBut
<1>1. /\ f[r] = "idle" /\ f[h] = "waiting" /\ pc'[h] = "granted"
      /\ pc' \in [Requests -> States]
  BY <1>0 DEF TypeOK, States
<1>2. /\ Owners' = InOf(pc', {"granted", "holding"})
      /\ Registered' = InOf(pc', {"counted", "waiting", "granted"})
      /\ OnWorker' = InOf(pc', {"arrived", "saturated", "checked", "counted"})
      /\ Checked' = InOf(pc', {"checked"})
  BY DEF Owners, Registered, OnWorker, Checked, In, InOf
<1>4. ASSUME NEW S
      PROVE  /\ pc[r] \notin S /\ f[r] \in S =>
                  Cardinality(InOf(f, S)) = Cardinality(InOf(pc, S)) + 1
             /\ pc[r] \in S /\ f[r] \notin S =>
                  Cardinality(InOf(f, S)) = Cardinality(InOf(pc, S)) - 1
             /\ (pc[r] \in S <=> f[r] \in S) =>
                  Cardinality(InOf(f, S)) = Cardinality(InOf(pc, S))
  BY ONLY <1>3, Moved
<1>5. ASSUME NEW S
      PROVE  /\ f[h] \notin S /\ pc'[h] \in S =>
                  Cardinality(InOf(pc', S)) = Cardinality(InOf(f, S)) + 1
             /\ f[h] \in S /\ pc'[h] \notin S =>
                  Cardinality(InOf(pc', S)) = Cardinality(InOf(f, S)) - 1
             /\ (f[h] \in S <=> pc'[h] \in S) =>
                  Cardinality(InOf(pc', S)) = Cardinality(InOf(f, S))
  BY ONLY <1>3, Moved
<1>6. /\ Cardinality(InOf(f, {"granted", "holding"})) \in Nat
      /\ Cardinality(InOf(f, {"counted", "waiting", "granted"})) \in Nat
      /\ Cardinality(InOf(f, {"arrived", "saturated", "checked", "counted"}))
           \in Nat
      /\ Cardinality(InOf(f, {"checked"})) \in Nat
  BY InOfFinite
<1>7. Cardinality(Owners)' = Cardinality(Owners)
  <2> DEFINE S == {"granted", "holding"}
  <2>1. Cardinality(InOf(f, S)) = Cardinality(InOf(pc, S)) - 1
    BY <1>1, <1>4
  <2>2. Cardinality(InOf(pc', S)) = Cardinality(InOf(f, S)) + 1
    BY <1>1, <1>5
  <2> QED BY <1>2, <1>6, <2>1, <2>2, Counts
<1>8. Cardinality(Registered)' =
        Cardinality(Registered) - (IF pc[r] = "granted" THEN 1 ELSE 0)
  <2> DEFINE S == {"counted", "waiting", "granted"}
  <2>1. /\ pc[r] = "granted" =>
             Cardinality(InOf(f, S)) = Cardinality(InOf(pc, S)) - 1
        /\ pc[r] # "granted" =>
             Cardinality(InOf(f, S)) = Cardinality(InOf(pc, S))
    BY <1>1, <1>4
  <2>2. Cardinality(InOf(pc', S)) = Cardinality(InOf(f, S))
    BY <1>1, <1>5
  <2> QED BY <1>2, <1>6, <2>1, <2>2, Counts
<1>9. /\ Cardinality(OnWorker)' = Cardinality(OnWorker)
      /\ Cardinality(Checked)' = Cardinality(Checked)
  BY <1>1, <1>2, <1>4, <1>5, <1>6, Counts
<1> QED BY <1>1, <1>7, <1>8, <1>9

(* A waiter that gives up is in the queue, and only it leaves. *)
LEMMA WithoutOne ==
  ASSUME TypeOK, QueueIsWaiters, NEW r \in Requests, pc[r] = "waiting"
  PROVE  /\ Without(r) \in Seq(Requests)
         /\ queue # << >>
         /\ \A q \in Requests :
              (\E i \in DOMAIN Without(r) : Without(r)[i] = q)
                <=> q # r /\ (\E i \in DOMAIN queue : queue[i] = q)
         /\ \A i, j \in DOMAIN Without(r) :
              Without(r)[i] = Without(r)[j] => i = j
<1> USE DEF TypeOK
<1> DEFINE n == Len(queue)
           k == CHOOSE i \in DOMAIN queue : queue[i] = r
<1>1. k \in 1 .. n /\ queue[k] = r /\ n \in Nat /\ DOMAIN queue = 1 .. n
  BY DEF QueueIsWaiters
<1>2. Without(r) =
        [j \in 1 .. n - 1 |-> IF j < k THEN queue[j] ELSE queue[j + 1]]
  BY DEF Without
<1> HIDE DEF k
<1>3. Without(r) \in Seq(Requests) /\ DOMAIN Without(r) = 1 .. n - 1
  BY <1>1, <1>2
<1>4. \A j \in 1 .. n - 1 :
        Without(r)[j] = IF j < k THEN queue[j] ELSE queue[j + 1]
  BY <1>2
<1>5. \A i, j \in 1 .. n : queue[i] = queue[j] => i = j
  BY <1>1 DEF QueueIsWaiters
<1>6. \A i, j \in 1 .. n - 1 : Without(r)[i] = Without(r)[j] => i = j
  BY <1>1, <1>4, <1>5
<1>7. ASSUME NEW q \in Requests, q # r, NEW i \in 1 .. n, queue[i] = q
      PROVE  \E j \in 1 .. n - 1 : Without(r)[j] = q
  <2>1. CASE i < k
    BY <1>1, <1>4, <1>7, <2>1
  <2>2. CASE i > k
    <3>1. i - 1 \in 1 .. n - 1 /\ ~(i - 1 < k) /\ (i - 1) + 1 = i
      BY <1>1, <2>2
    <3> QED BY <1>4, <1>7, <3>1
  <2> QED BY <1>1, <1>7, <2>1, <2>2
<1>8. ASSUME NEW q \in Requests, NEW j \in 1 .. n - 1, Without(r)[j] = q
      PROVE  q # r /\ \E i \in 1 .. n : queue[i] = q
  BY <1>1, <1>4, <1>5, <1>8
<1>9. queue # << >>
  BY <1>1
<1> QED BY <1>1, <1>3, <1>6, <1>7, <1>8, <1>9

(* A step of a handler that is not a waiter before or after it leaves the  *)
(* queue in agreement with the waiters.                                    *)
LEMMA QueueUntouched ==
  ASSUME TypeOK, QueueIsWaiters, NEW r \in Requests,
         NEW from \in States \ {"waiting"}, NEW to \in States \ {"waiting"},
         Step(r, from, to), UNCHANGED queue
  PROVE  QueueIsWaiters'
BY DEF TypeOK, QueueIsWaiters, Step

-----------------------------------------------------------------------------
LEMMA IInvInit == Init => IInv
<1> SUFFICES ASSUME Init PROVE IInv
  OBVIOUS
<1>1. TypeOK
  BY AdmissionAssumption DEF AdmissionAssumption, Init, TypeOK, States
<1>2. /\ Owners = {} /\ Registered = {} /\ OnWorker = {} /\ Checked = {}
  BY DEF Init, Owners, Registered, OnWorker, Checked, In
<1>3. Cardinality({}) = 0
  BY FS_EmptySet
<1>4. QueueIsWaiters /\ NoIdlePermit
  BY DEF Init, QueueIsWaiters, NoIdlePermit
<1> QED
  BY <1>1, <1>2, <1>3, <1>4, AdmissionAssumption
  DEF AdmissionAssumption, Init, IInv, PermitsConserved, CounterExact,
      WorkersSuffice, OverrunWithChecked

(* The parts of the invariant that count, from the changes of the counts.  *)
Counting ==
  /\ PermitsConserved
  /\ CounterExact
  /\ WorkersSuffice
  /\ OverrunWithChecked

(* A permit given back by r, to the pool or to the first waiter. *)
LEMMA GiveBackStep ==
  ASSUME IInv, NEW r \in Requests, pc[r] \in {"granted", "holding"},
         GiveBack(r),
         waiting' = waiting - (IF pc[r] = "granted" THEN 1 ELSE 0)
  PROVE  IInv'
<1>1. /\ TypeOK /\ QueueIsWaiters /\ NoIdlePermit
      /\ PermitsConserved /\ CounterExact
      /\ WorkersSuffice /\ OverrunWithChecked
  BY DEF IInv
<1>2. waiting' \in Nat
  <2>1. pc[r] = "granted" => Registered # {}
    BY <1>1 DEF Registered, In
  <2>2. IsFiniteSet(Registered) /\ waiting = Cardinality(Registered)
    BY <1>1, Counts, InOfFinite DEF CounterExact
  <2>3. pc[r] = "granted" => waiting # 0
    BY <2>1, <2>2, FS_EmptySet
  <2> QED BY <1>1, <2>3 DEF TypeOK
<1>3. CASE queue = << >>
  <2>1. Step(r, pc[r], "idle") /\ permits' = permits + 1 /\ UNCHANGED queue
    BY <1>3 DEF GiveBack, Step
  <2>2. /\ pc' \in [Requests -> States]
        /\ Cardinality(Owners)' = Cardinality(Owners) - 1
        /\ Cardinality(Registered)' =
             Cardinality(Registered) - (IF pc[r] = "granted" THEN 1 ELSE 0)
        /\ Cardinality(OnWorker)' = Cardinality(OnWorker)
        /\ Cardinality(Checked)' = Cardinality(Checked)
    BY <1>1, <2>1, StepCounts, Counts DEF States
  <2>3. permits' \in 0 .. Limit
    <3>1. r \in Owners /\ IsFiniteSet(Owners)
      BY <1>1, Counts, InOfFinite DEF Owners, In
    <3>2. Cardinality(Owners) >= 1
      BY <3>1, Counts, <1>1, FS_EmptySet
    <3> QED BY <1>1, <2>1, <3>2, Counts, AdmissionAssumption
        DEF AdmissionAssumption, PermitsConserved, TypeOK
  <2>4. QueueIsWaiters'
    BY <1>1, <2>1, QueueUntouched DEF States
  <2>5. NoIdlePermit'
    BY <1>3, <2>1 DEF NoIdlePermit
  <2>6. TypeOK'
    BY <1>1, <1>2, <2>1, <2>2, <2>3 DEF TypeOK
  <2>7. Counting'
    BY <1>1, <2>1, <2>2, Counts, AdmissionAssumption
    DEF AdmissionAssumption, Counting, PermitsConserved, CounterExact, WorkersSuffice,
        OverrunWithChecked, TypeOK
  <2> QED BY <2>4, <2>5, <2>6, <2>7 DEF IInv, Counting
<1>4. CASE queue # << >>
  <2> DEFINE h == Head(queue)
  <2>1. /\ pc' = [pc EXCEPT ![r] = "idle", ![h] = "granted"]
        /\ queue' = Tail(queue)
        /\ permits' = permits
    BY <1>4 DEF GiveBack
  <2>2. /\ h \in Requests /\ h = queue[1] /\ Len(queue) \in Nat \ {0}
        /\ 1 \in DOMAIN queue
    BY <1>1, <1>4 DEF TypeOK
  <2>3. pc[h] = "waiting"
    BY <1>1, <2>2 DEF QueueIsWaiters
  <2> HIDE DEF h
  <2>4. /\ pc' \in [Requests -> States]
        /\ Cardinality(Owners)' = Cardinality(Owners)
        /\ Cardinality(Registered)' =
             Cardinality(Registered) - (IF pc[r] = "granted" THEN 1 ELSE 0)
        /\ Cardinality(OnWorker)' = Cardinality(OnWorker)
        /\ Cardinality(Checked)' = Cardinality(Checked)
    BY <1>1, <2>1, <2>2, <2>3, HandOverCounts
  <2>5. TypeOK'
    BY <1>1, <1>2, <1>4, <2>1, <2>4 DEF TypeOK
  <2>6. NoIdlePermit'
    BY <1>1, <1>4, <2>1 DEF NoIdlePermit
  <2>7. QueueIsWaiters'
    <3> DEFINE n == Len(queue)
    <3>1. /\ n \in Nat \ {0} /\ DOMAIN queue = 1 .. n
          /\ DOMAIN queue' = 1 .. n - 1
          /\ \A j \in 1 .. n - 1 : queue'[j] = queue[j + 1]
      BY <1>1, <1>4, <2>1, <2>2 DEF TypeOK
    <3>2. \A i, j \in 1 .. n : queue[i] = queue[j] => i = j
      BY <1>1, <3>1 DEF QueueIsWaiters
    <3>3. \A i, j \in DOMAIN queue' : queue'[i] = queue'[j] => i = j
      BY <3>1, <3>2
    <3>4. ASSUME NEW q \in Requests
          PROVE  (\E j \in DOMAIN queue' : queue'[j] = q)
                   <=> q # h /\ \E i \in DOMAIN queue : queue[i] = q
      <4>1. ASSUME NEW i \in 1 .. n, queue[i] = q, q # h
            PROVE  \E j \in 1 .. n - 1 : queue'[j] = q
        <5>1. i # 1
          BY <2>2, <4>1
        <5>2. i - 1 \in 1 .. n - 1 /\ (i - 1) + 1 = i
          BY <3>1, <5>1
        <5> QED BY <3>1, <4>1, <5>2
      <4>2. ASSUME NEW j \in 1 .. n - 1, queue'[j] = q
            PROVE  q # h /\ \E i \in 1 .. n : queue[i] = q
        <5>1. j + 1 \in 1 .. n /\ j + 1 # 1
          BY <3>1
        <5> QED BY <2>2, <3>1, <3>2, <4>2, <5>1
      <4> QED BY <3>1, <4>1, <4>2
    <3>5. ASSUME NEW q \in Requests
          PROVE  pc'[q] = "waiting" <=> pc[q] = "waiting" /\ q # h
      BY <1>1, <2>1, <2>2, <2>3 DEF TypeOK
    <3>6. \A q \in Requests :
            pc[q] = "waiting" <=> \E i \in DOMAIN queue : queue[i] = q
      BY <1>1 DEF QueueIsWaiters
    <3> QED BY <3>3, <3>4, <3>5, <3>6 DEF QueueIsWaiters
  <2>8. Counting'
    BY <1>1, <2>1, <2>4, Counts, AdmissionAssumption
    DEF AdmissionAssumption, Counting, PermitsConserved, CounterExact, WorkersSuffice,
        OverrunWithChecked, TypeOK
  <2> QED BY <2>5, <2>6, <2>7, <2>8 DEF IInv, Counting
<1> QED BY <1>3, <1>4

(* One step of one handler preserves the invariant: per action, how the    *)
(* counts change and why the queue keeps agreeing with the waiters.        *)
LEMMA IInvStep == IInv /\ [Next]_vars => IInv'
<1> SUFFICES ASSUME IInv, [Next]_vars PROVE IInv'
  OBVIOUS
<1>1. /\ TypeOK /\ QueueIsWaiters /\ NoIdlePermit
      /\ PermitsConserved /\ CounterExact
      /\ WorkersSuffice /\ OverrunWithChecked
  BY DEF IInv
<1>2. /\ Limit \in Nat \ {0} /\ QueueCapacity \in Nat \ {0}
      /\ Workers \in Nat \ {0}
  BY AdmissionAssumption DEF AdmissionAssumption
<1>3. /\ permits + Cardinality(Owners) = Limit
      /\ waiting = Cardinality(Registered)
      /\ Cardinality(OnWorker) <= Workers
      /\ waiting + Cardinality(Checked) <= QueueCapacity + Workers - 1
      /\ permits \in 0 .. Limit /\ waiting \in Nat
      /\ Cardinality(Checked) <= Cardinality(OnWorker)
  BY <1>1, Counts, CheckedAmongRunning
  DEF PermitsConserved, CounterExact, WorkersSuffice, OverrunWithChecked,
      TypeOK
<1>4. ASSUME TypeOK', QueueIsWaiters', NoIdlePermit',
             permits' + Cardinality(Owners)' = Limit,
             waiting' = Cardinality(Registered)',
             Cardinality(OnWorker)' <= Workers,
             waiting' + Cardinality(Checked)' <= QueueCapacity + Workers - 1
      PROVE  IInv'
  BY <1>4 DEF IInv, PermitsConserved, CounterExact, WorkersSuffice,
              OverrunWithChecked
<1>5. ASSUME NEW r \in Requests, Arrive(r) PROVE IInv'
  <2>1. Step(r, "idle", "arrived") /\ UNCHANGED <<permits, queue, waiting>>
        /\ Cardinality(OnWorker) < Workers
    BY <1>5 DEF Arrive
  <2>2. /\ pc' \in [Requests -> States]
        /\ Cardinality(Owners)' = Cardinality(Owners)
        /\ Cardinality(Registered)' = Cardinality(Registered)
        /\ Cardinality(OnWorker)' = Cardinality(OnWorker) + 1
        /\ Cardinality(Checked)' = Cardinality(Checked)
    BY <1>1, <2>1, StepCounts, Counts DEF States
  <2>3. QueueIsWaiters'
    BY <1>1, <2>1, QueueUntouched DEF States
  <2> QED
    BY <1>1, <1>2, <1>3, <1>4, <2>1, <2>2, <2>3, Counts
    DEF TypeOK, NoIdlePermit
<1>6. ASSUME NEW r \in Requests, TryAcquire(r) PROVE IInv'
  <2>1. CASE permits > 0 /\ permits' = permits - 1
             /\ Step(r, "arrived", "holding") /\ UNCHANGED <<queue, waiting>>
    <3>1. /\ pc' \in [Requests -> States]
          /\ Cardinality(Owners)' = Cardinality(Owners) + 1
          /\ Cardinality(Registered)' = Cardinality(Registered)
          /\ Cardinality(OnWorker)' = Cardinality(OnWorker) - 1
          /\ Cardinality(Checked)' = Cardinality(Checked)
      BY <1>1, <2>1, StepCounts, Counts DEF States
    <3>2. QueueIsWaiters'
      BY <1>1, <2>1, QueueUntouched DEF States
    <3>3. NoIdlePermit'
      BY <1>1, <2>1 DEF NoIdlePermit
    <3> QED
      BY <1>1, <1>2, <1>3, <1>4, <2>1, <3>1, <3>2, <3>3, Counts DEF TypeOK
  <2>2. CASE Step(r, "arrived", "saturated")
             /\ UNCHANGED <<permits, queue, waiting>>
    <3>1. /\ pc' \in [Requests -> States]
          /\ Cardinality(Owners)' = Cardinality(Owners)
          /\ Cardinality(Registered)' = Cardinality(Registered)
          /\ Cardinality(OnWorker)' = Cardinality(OnWorker)
          /\ Cardinality(Checked)' = Cardinality(Checked)
      BY <1>1, <2>2, StepCounts, Counts DEF States
    <3>2. QueueIsWaiters'
      BY <1>1, <2>2, QueueUntouched DEF States
    <3> QED
      BY <1>1, <1>2, <1>3, <1>4, <2>2, <3>1, <3>2, Counts
      DEF TypeOK, NoIdlePermit
  <2> QED BY <1>6, <2>1, <2>2 DEF TryAcquire
<1>7. ASSUME NEW r \in Requests, QueueFull(r) PROVE IInv'
  <2>1. Step(r, "saturated", "idle") /\ UNCHANGED <<permits, queue, waiting>>
    BY <1>7 DEF QueueFull
  <2>2. /\ pc' \in [Requests -> States]
        /\ Cardinality(Owners)' = Cardinality(Owners)
        /\ Cardinality(Registered)' = Cardinality(Registered)
        /\ Cardinality(OnWorker)' = Cardinality(OnWorker) - 1
        /\ Cardinality(Checked)' = Cardinality(Checked)
    BY <1>1, <2>1, StepCounts, Counts DEF States
  <2>3. QueueIsWaiters'
    BY <1>1, <2>1, QueueUntouched DEF States
  <2> QED
    BY <1>1, <1>2, <1>3, <1>4, <2>1, <2>2, <2>3, Counts
    DEF TypeOK, NoIdlePermit
<1>8. ASSUME NEW r \in Requests, Check(r) PROVE IInv'
  <2>1. Step(r, "saturated", "checked") /\ UNCHANGED <<permits, queue, waiting>>
        /\ waiting < QueueCapacity
    BY <1>8 DEF Check
  <2>2. /\ pc' \in [Requests -> States]
        /\ Cardinality(Owners)' = Cardinality(Owners)
        /\ Cardinality(Registered)' = Cardinality(Registered)
        /\ Cardinality(OnWorker)' = Cardinality(OnWorker)
        /\ Cardinality(Checked)' = Cardinality(Checked) + 1
    BY <1>1, <2>1, StepCounts, Counts DEF States
  <2>3. QueueIsWaiters'
    BY <1>1, <2>1, QueueUntouched DEF States
  <2>4. TypeOK'
    BY <1>1, <2>1, <2>2 DEF TypeOK
  <2>5. Cardinality(Checked)' <= Workers
    <3>1. Cardinality(Checked)' <= Cardinality(OnWorker)'
      BY CheckedAmongRunning DEF Checked, OnWorker, In, InOf
    <3> QED BY <1>1, <1>2, <1>3, <2>2, <3>1, Counts
  <2> QED
    BY <1>1, <1>2, <1>3, <1>4, <2>1, <2>2, <2>3, <2>4, <2>5, Counts
    DEF NoIdlePermit
<1>9. ASSUME NEW r \in Requests, Count(r) PROVE IInv'
  <2>1. Step(r, "checked", "counted") /\ UNCHANGED <<permits, queue>>
        /\ waiting' = waiting + 1
    BY <1>9 DEF Count
  <2>2. /\ pc' \in [Requests -> States]
        /\ Cardinality(Owners)' = Cardinality(Owners)
        /\ Cardinality(Registered)' = Cardinality(Registered) + 1
        /\ Cardinality(OnWorker)' = Cardinality(OnWorker)
        /\ Cardinality(Checked)' = Cardinality(Checked) - 1
    BY <1>1, <2>1, StepCounts, Counts DEF States
  <2>3. QueueIsWaiters'
    BY <1>1, <2>1, QueueUntouched DEF States
  <2> QED
    BY <1>1, <1>2, <1>3, <1>4, <2>1, <2>2, <2>3, Counts
    DEF TypeOK, NoIdlePermit
<1>10. ASSUME NEW r \in Requests, Enqueue(r) PROVE IInv'
  <2>1. CASE permits > 0 /\ Step(r, "counted", "holding")
             /\ permits' = permits - 1 /\ waiting' = waiting - 1
             /\ UNCHANGED queue
    <3>1. /\ pc' \in [Requests -> States]
          /\ Cardinality(Owners)' = Cardinality(Owners) + 1
          /\ Cardinality(Registered)' = Cardinality(Registered) - 1
          /\ Cardinality(OnWorker)' = Cardinality(OnWorker) - 1
          /\ Cardinality(Checked)' = Cardinality(Checked)
      BY <1>1, <2>1, StepCounts, Counts DEF States
    <3>2. QueueIsWaiters'
      BY <1>1, <2>1, QueueUntouched DEF States
    <3>3. NoIdlePermit'
      BY <1>1, <2>1 DEF NoIdlePermit
    <3>4. waiting' \in Nat
      <4>1. Cardinality(Registered)' \in Nat
        BY InOfFinite DEF Registered, In, InOf
      <4> QED BY <1>3, <2>1, <3>1, <4>1, Counts
    <3>5. TypeOK'
      <4>1. permits \in 0 .. Limit /\ queue \in Seq(Requests) /\ Limit \in Nat
        BY <1>1, AdmissionAssumption DEF TypeOK, AdmissionAssumption
      <4>2. permits' \in 0 .. Limit
        BY <2>1, <4>1
      <4>3. queue' \in Seq(Requests)
        BY <2>1, <4>1
      <4> QED BY <3>1, <3>4, <4>2, <4>3 DEF TypeOK
    <3> QED
      BY <1>1, <1>2, <1>3, <1>4, <2>1, <3>1, <3>2, <3>3, <3>5, Counts
  <2>2. CASE permits = 0 /\ Step(r, "counted", "waiting")
             /\ queue' = Append(queue, r) /\ UNCHANGED <<permits, waiting>>
    <3>1. /\ pc' \in [Requests -> States]
          /\ Cardinality(Owners)' = Cardinality(Owners)
          /\ Cardinality(Registered)' = Cardinality(Registered)
          /\ Cardinality(OnWorker)' = Cardinality(OnWorker) - 1
          /\ Cardinality(Checked)' = Cardinality(Checked)
      BY <1>1, <2>2, StepCounts, Counts DEF States
    <3>2. QueueIsWaiters'
      BY <1>1, <2>2 DEF QueueIsWaiters, TypeOK, Step
    <3>3. TypeOK' /\ NoIdlePermit'
      BY <1>1, <2>2, <3>1 DEF TypeOK, NoIdlePermit
    <3> QED
      BY <1>1, <1>2, <1>3, <1>4, <2>2, <3>1, <3>2, <3>3, Counts
  <2> QED BY <1>10, <2>1, <2>2 DEF Enqueue
<1>11. ASSUME NEW r \in Requests, Resume(r) PROVE IInv'
  <2>1. Step(r, "granted", "holding") /\ UNCHANGED <<permits, queue>>
        /\ waiting' = waiting - 1
    BY <1>11 DEF Resume
  <2>2. /\ pc' \in [Requests -> States]
        /\ Cardinality(Owners)' = Cardinality(Owners)
        /\ Cardinality(Registered)' = Cardinality(Registered) - 1
        /\ Cardinality(OnWorker)' = Cardinality(OnWorker)
        /\ Cardinality(Checked)' = Cardinality(Checked)
    BY <1>1, <2>1, StepCounts, Counts DEF States
  <2>3. QueueIsWaiters'
    BY <1>1, <2>1, QueueUntouched DEF States
  <2>4. Cardinality(Registered)' \in Nat
    BY InOfFinite DEF Registered, In, InOf
  <2> QED
    BY <1>1, <1>2, <1>3, <1>4, <2>1, <2>2, <2>3, <2>4, Counts
    DEF TypeOK, NoIdlePermit
<1>12. ASSUME NEW r \in Requests, GiveUp(r) PROVE IInv'
  <2>1. Step(r, "waiting", "idle") /\ UNCHANGED permits
        /\ queue' = Without(r) /\ waiting' = waiting - 1
    BY <1>12 DEF GiveUp
  <2>2. /\ pc' \in [Requests -> States]
        /\ Cardinality(Owners)' = Cardinality(Owners)
        /\ Cardinality(Registered)' = Cardinality(Registered) - 1
        /\ Cardinality(OnWorker)' = Cardinality(OnWorker)
        /\ Cardinality(Checked)' = Cardinality(Checked)
    BY <1>1, <2>1, StepCounts, Counts DEF States
  <2>3. pc[r] = "waiting" /\ pc' = [pc EXCEPT ![r] = "idle"]
    BY <2>1 DEF Step
  <2>4. /\ queue' \in Seq(Requests)
        /\ queue # << >>
        /\ \A q \in Requests :
             (\E i \in DOMAIN queue' : queue'[i] = q)
               <=> q # r /\ (\E i \in DOMAIN queue : queue[i] = q)
        /\ \A i, j \in DOMAIN queue' : queue'[i] = queue'[j] => i = j
    BY <1>1, <2>1, <2>3, WithoutOne
  <2>5. \A q \in Requests : pc'[q] = "waiting" <=> q # r /\ pc[q] = "waiting"
    BY <1>1, <2>3 DEF TypeOK
  <2>6. QueueIsWaiters'
    BY <1>1, <2>4, <2>5 DEF QueueIsWaiters
  <2>7. NoIdlePermit'
    BY <1>1, <2>1, <2>4 DEF NoIdlePermit
  <2>8. Cardinality(Registered)' \in Nat
    BY InOfFinite DEF Registered, In, InOf
  <2>9. TypeOK'
    BY <1>1, <1>3, <2>1, <2>2, <2>4, <2>8 DEF TypeOK
  <2> QED
    BY <1>1, <1>2, <1>3, <1>4, <2>1, <2>2, <2>6, <2>7, <2>9, Counts
<1>13. ASSUME NEW r \in Requests, CancelGranted(r) PROVE IInv'
  BY <1>1, <1>13, GiveBackStep DEF CancelGranted
<1>14. ASSUME NEW r \in Requests, Finish(r) PROVE IInv'
  BY <1>1, <1>3, <1>14, GiveBackStep DEF Finish
<1>15. CASE UNCHANGED vars
  BY <1>15, <1>1
  DEF vars, IInv, TypeOK, PermitsConserved, CounterExact, NoIdlePermit,
      QueueIsWaiters, WorkersSuffice, OverrunWithChecked, Owners, Registered,
      OnWorker, Checked, In
<1> QED
  BY <1>5, <1>6, <1>7, <1>8, <1>9, <1>10, <1>11, <1>12, <1>13, <1>14, <1>15
  DEF Next

LEMMA Invariant == Spec => []IInv
BY IInvInit, IInvStep, PTL DEF Spec

(* The semaphore, its queue, the counter and the handlers keep their types. *)
THEOREM TypeCorrect == Spec => []TypeOK
<1>1. IInv => TypeOK
  BY DEF IInv
<1> QED BY <1>1, Invariant, PTL

(* No permit is lost or duplicated whatever way a handler leaves acquire() *)
(* or its exchange.                                                        *)
THEOREM NoPermitLost == Spec => []PermitsConserved
<1>1. IInv => PermitsConserved
  BY DEF IInv
<1> QED BY <1>1, Invariant, PTL

(* No lost wake-up: a free permit and a waiter never coexist.              *)
THEOREM NoLostWakeup == Spec => []NoIdlePermit
<1>1. IInv => NoIdlePermit
  BY DEF IInv
<1> QED BY <1>1, Invariant, PTL

(* The semaphore's queue is the waiting handlers, each once: nobody who    *)
(* timed out or disconnected is handed a permit.                           *)
THEOREM QueueExact == Spec => []QueueIsWaiters
<1>1. IInv => QueueIsWaiters
  BY DEF IInv
<1> QED BY <1>1, Invariant, PTL

(* The counter the capacity check reads is the number of live guards.      *)
THEOREM CounterMatches == Spec => []CounterExact
<1>1. IInv => CounterExact
  BY DEF IInv
<1> QED BY <1>1, Invariant, PTL

(* The race between the check and the increment overruns the capacity by   *)
(* less than the number of worker threads.                                 *)
THEOREM QueueBounded == Spec => []OverrunBounded
<1>1. IInv => OverrunBounded
  <2> SUFFICES ASSUME IInv PROVE OverrunBounded
    OBVIOUS
  <2>1. Cardinality(Checked) \in Nat
    BY Counts DEF IInv
  <2> QED
    BY <2>1, AdmissionAssumption
    DEF IInv, AdmissionAssumption, OverrunWithChecked, OverrunBounded, TypeOK
<1> QED BY <1>1, Invariant, PTL

(* Admission implements the abstract slots: an exchange enters only when   *)
(* fewer than Limit others are inside.                                     *)
THEOREM Refinement == Spec => ImplementsSlots
<1>1. Init => Slots!Init
  BY DEF Init, Slots!Init, Holders, In
<1>2. IInv /\ [Next]_vars => [Slots!Next]_Holders
  <2> SUFFICES ASSUME IInv, [Next]_vars PROVE Slots!Next \/ UNCHANGED Holders
    OBVIOUS
  <2>1. /\ pc \in [Requests -> States]
        /\ permits + Cardinality(Owners) = Limit
        /\ permits \in 0 .. Limit /\ Cardinality(Owners) \in Nat
        /\ IsFiniteSet(Owners) /\ Holders \subseteq Owners
        /\ Limit \in Nat
    <3>1. /\ pc \in [Requests -> States]
          /\ permits + Cardinality(Owners) = Limit
          /\ permits \in 0 .. Limit
      BY DEF IInv, TypeOK, PermitsConserved
    <3>4. Limit \in Nat
      BY AdmissionAssumption DEF AdmissionAssumption
    <3>2. IsFiniteSet(Owners) /\ Cardinality(Owners) \in Nat
      <4>1. Owners = InOf(pc, {"granted", "holding"})
        BY DEF Owners, In, InOf
      <4> QED BY <4>1, InOfFinite
    <3>3. Holders \subseteq Owners
      BY DEF Holders, Owners, In
    <3> QED BY <3>1, <3>2, <3>3, <3>4
  <2>2. IsFiniteSet(Holders) /\ Cardinality(Holders) \in Nat
        /\ Cardinality(Holders) <= Cardinality(Owners)
    BY <2>1, FS_Subset, FS_CardinalityType
  <2>3. ASSUME NEW r \in Requests, NEW from \in States \ {"holding"},
               Step(r, from, "holding"), Cardinality(Holders) < Limit
        PROVE  Slots!Next
    <3>1. r \notin Holders /\ Holders' = Holders \cup {r}
      BY <2>1, <2>3 DEF Step, Holders, In
    <3>2. Slots!Cardinality(Holders) = Cardinality(Holders)
      BY DEF Slots!Cardinality, Cardinality
    <3> QED BY <2>3, <3>1, <3>2 DEF Slots!Next, Slots!Enter
  <2>4. ASSUME NEW r \in Requests, NEW from \in States \ {"holding"},
               NEW to \in States \ {"holding"}, Step(r, from, to)
        PROVE  UNCHANGED Holders
    BY <2>1, <2>4 DEF Step, Holders, In
  <2>5. ASSUME NEW r \in Requests, TryAcquire(r) \/ Enqueue(r)
        PROVE  Slots!Next \/ UNCHANGED Holders
    <3>1. CASE permits > 0
      BY <2>1, <2>2, <2>3, <2>4, <2>5, <3>1 DEF TryAcquire, Enqueue, States
    <3>2. CASE permits = 0
      BY <2>4, <2>5, <3>2 DEF TryAcquire, Enqueue, States
    <3> QED BY <2>1, <3>1, <3>2
  <2>6. ASSUME NEW r \in Requests, Resume(r) PROVE Slots!Next
    <3>1. r \in Owners /\ Holders \subseteq Owners \ {r}
      BY <2>1, <2>6 DEF Resume, Step, Owners, Holders, In
    <3>2. IsFiniteSet(Owners \ {r})
          /\ Cardinality(Owners \ {r}) = Cardinality(Owners) - 1
      BY <2>1, <3>1, FS_RemoveElement
    <3>3. Cardinality(Holders) <= Cardinality(Owners) - 1
      BY <3>1, <3>2, FS_Subset
    <3>4. Cardinality(Holders) < Limit
      BY <2>1, <2>2, <3>3
    <3>5. Step(r, "granted", "holding")
      BY <2>6 DEF Resume
    <3> QED BY <2>3, <3>4, <3>5 DEF States
  <2>7. ASSUME NEW r \in Requests,
               Arrive(r) \/ QueueFull(r) \/ Check(r) \/ Count(r) \/ GiveUp(r)
        PROVE  UNCHANGED Holders
    BY <2>4, <2>7 DEF Arrive, QueueFull, Check, Count, GiveUp, States
  <2>8. ASSUME NEW r \in Requests, GiveBack(r)
        PROVE  Holders' = Holders \ {r}
    <3>1. CASE queue = << >>
      BY <2>1, <2>8, <3>1 DEF GiveBack, Holders, In
    <3>2. CASE queue # << >>
      <4>1. Head(queue) \in Requests /\ pc[Head(queue)] = "waiting"
        BY <3>2 DEF IInv, TypeOK, QueueIsWaiters
      <4> QED BY <2>1, <2>8, <3>2, <4>1 DEF GiveBack, Holders, In
    <3> QED BY <3>1, <3>2
  <2>9. ASSUME NEW r \in Requests, CancelGranted(r) PROVE UNCHANGED Holders
    BY <2>8, <2>9 DEF CancelGranted, Holders, In
  <2>10. ASSUME NEW r \in Requests, Finish(r) PROVE Slots!Next
    BY <2>8, <2>10 DEF Finish, Holders, In, Slots!Next, Slots!Exit
  <2>11. CASE UNCHANGED vars
    BY <2>11 DEF vars, Holders, In
  <2> QED
    BY <2>5, <2>6, <2>7, <2>9, <2>10, <2>11 DEF Next
<1> QED BY <1>1, <1>2, Invariant, PTL DEF Spec, ImplementsSlots, Slots!Spec
=============================================================================
