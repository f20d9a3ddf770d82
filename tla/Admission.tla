------------------------------ MODULE Admission ------------------------------
(***************************************************************************)
(* Local admission control (src/src/concurrency.rs): a semaphore of Limit  *)
(* permits behind a counter of waiters that is checked against             *)
(* QueueCapacity before a handler joins the wait.                          *)
(*                                                                         *)
(* acquire() awaits only in the semaphore's queue, so up to that point a   *)
(* handler keeps a worker thread; the try, the load and the increment are  *)
(* separate atomic operations, and other workers run in between.           *)
(*                                                                         *)
(* The semaphore is tokio's: first in, first out, and a permit given back  *)
(* goes to the first waiter, who owns it before his task is polled again.  *)
(***************************************************************************)
EXTENDS Integers, Sequences, FiniteSets

CONSTANTS
  Requests,        \* request handlers
  Limit,           \* concurrency.initial: permits of the semaphore
  QueueCapacity,   \* concurrency.queue_capacity
  Workers          \* worker threads of the runtime

ASSUME AdmissionAssumption ==
  /\ IsFiniteSet(Requests)
  /\ Limit \in Nat \ {0}
  /\ QueueCapacity \in Nat \ {0}
  /\ Workers \in Nat \ {0}

VARIABLES
  pc,        \* progress of each handler, see States
  permits,   \* permits nobody owns
  queue,     \* the semaphore's waiters, first in first out
  waiting    \* the AtomicUsize checked against the capacity

vars == <<pc, permits, queue, waiting>>

States ==
  {"idle",       \* no request
   "arrived",    \* about to try_acquire
   "saturated",  \* no permit was free; about to load the counter
   "checked",    \* the load was below the capacity; about to increment
   "counted",    \* incremented; about to poll the semaphore
   "waiting",    \* in the queue, under the timeout
   "granted",    \* owns a permit, task not polled yet
   "holding"}    \* owns a permit until the response is complete or dropped

In(S) == {r \in Requests : pc[r] \in S}

OnWorker == In({"arrived", "saturated", "checked", "counted"})
Owners == In({"granted", "holding"})
Holders == In({"holding"})
Registered == In({"counted", "waiting", "granted"})

TypeOK ==
  /\ pc \in [Requests -> States]
  /\ permits \in 0 .. Limit
  /\ queue \in Seq(Requests)
  /\ waiting \in Nat

Init ==
  /\ pc = [r \in Requests |-> "idle"]
  /\ permits = Limit
  /\ queue = << >>
  /\ waiting = 0

Step(r, from, to) == pc[r] = from /\ pc' = [pc EXCEPT ![r] = to]

(* The queue after the waiter r gave up. *)
Without(r) ==
  LET i == CHOOSE i \in DOMAIN queue : queue[i] = r
  IN  [j \in 1 .. Len(queue) - 1 |-> IF j < i THEN queue[j] ELSE queue[j + 1]]

(* A permit comes back from r: to the first waiter if there is one. *)
GiveBackToPool(r) ==
  /\ permits' = permits + 1
  /\ pc' = [pc EXCEPT ![r] = "idle"]
  /\ UNCHANGED queue
GiveBackTwice(r) ==
  /\ permits' = permits + 1
  /\ pc' = IF queue = << >> THEN [pc EXCEPT ![r] = "idle"]
           ELSE [pc EXCEPT ![r] = "idle", ![Head(queue)] = "granted"]
  /\ queue' = IF queue = << >> THEN queue ELSE Tail(queue)
GiveBack(r) ==
  IF queue = << >>
  THEN /\ permits' = permits + 1
       /\ pc' = [pc EXCEPT ![r] = "idle"]
       /\ UNCHANGED queue
  ELSE /\ pc' = [pc EXCEPT ![r] = "idle", ![Head(queue)] = "granted"]
       /\ queue' = Tail(queue)
       /\ UNCHANGED permits

Arrive(r) ==
  /\ Cardinality(OnWorker) < Workers
  /\ Step(r, "idle", "arrived")
  /\ UNCHANGED <<permits, queue, waiting>>

TryAcquire(r) ==
  /\ \/ permits > 0 /\ permits' = permits - 1 /\ Step(r, "arrived", "holding")
     \/ permits = 0 /\ Step(r, "arrived", "saturated") /\ UNCHANGED permits
  /\ UNCHANGED <<queue, waiting>>

QueueFull(r) ==
  /\ waiting >= QueueCapacity
  /\ Step(r, "saturated", "idle")
  /\ UNCHANGED <<permits, queue, waiting>>

CheckOffByOne(r) ==
  /\ waiting <= QueueCapacity
  /\ Step(r, "saturated", "checked")
  /\ UNCHANGED <<permits, queue, waiting>>
Check(r) ==
  /\ waiting < QueueCapacity
  /\ Step(r, "saturated", "checked")
  /\ UNCHANGED <<permits, queue, waiting>>

Count(r) ==
  /\ Step(r, "checked", "counted")
  /\ waiting' = waiting + 1
  /\ UNCHANGED <<permits, queue>>

(* The first poll of acquire_owned(): a permit freed meanwhile is taken    *)
(* and the guard dropped, or the handler joins the queue.                  *)
Enqueue(r) ==
  \/ /\ permits > 0
     /\ Step(r, "counted", "holding")
     /\ permits' = permits - 1
     /\ waiting' = waiting - 1
     /\ UNCHANGED queue
  \/ /\ permits = 0
     /\ Step(r, "counted", "waiting")
     /\ queue' = Append(queue, r)
     /\ UNCHANGED <<permits, waiting>>

(* The task of a handler that was given a permit runs: acquire() returns. *)
Resume(r) ==
  /\ Step(r, "granted", "holding")
  /\ waiting' = waiting - 1
  /\ UNCHANGED <<permits, queue>>

(* queue_timeout elapses, or the client disconnects, before a permit came. *)
GiveUpForgettingGuard(r) ==
  /\ Step(r, "waiting", "idle")
  /\ queue' = Without(r)
  /\ UNCHANGED <<permits, waiting>>
GiveUpStayingQueued(r) ==
  /\ Step(r, "waiting", "idle")
  /\ waiting' = waiting - 1
  /\ UNCHANGED <<permits, queue>>
GiveUp(r) ==
  /\ Step(r, "waiting", "idle")
  /\ queue' = Without(r)
  /\ waiting' = waiting - 1
  /\ UNCHANGED permits

(* The client disconnects between the grant and the poll: the dropped      *)
(* future hands its permit on, the guard decrements.                       *)
CancelLeakingPermit(r) ==
  /\ Step(r, "granted", "idle")
  /\ waiting' = waiting - 1
  /\ UNCHANGED <<permits, queue>>
CancelGranted(r) ==
  /\ pc[r] = "granted"
  /\ GiveBack(r)
  /\ waiting' = waiting - 1

(* The response is complete, or the client disconnects: the Permit drops. *)
Finish(r) ==
  /\ pc[r] = "holding"
  /\ GiveBack(r)
  /\ UNCHANGED waiting

Next ==
  \E r \in Requests :
    \/ Arrive(r) \/ TryAcquire(r) \/ QueueFull(r) \/ Check(r) \/ Count(r)
    \/ Enqueue(r) \/ Resume(r) \/ GiveUp(r) \/ CancelGranted(r) \/ Finish(r)

Spec == Init /\ [][Next]_vars

-----------------------------------------------------------------------------
(* No permit is lost or duplicated on any path, a handler dropped between  *)
(* grant and poll included (concurrency.rs:55-57).                         *)
PermitsConserved == permits + Cardinality(Owners) = Limit

(* The counter that admission is decided by equals the handlers registered *)
(* for the wait, whatever way they leave it (concurrency.rs:71-72).        *)
CounterExact == waiting = Cardinality(Registered)

(* No lost wake-up: a handler queues only while every permit is owned, so  *)
(* a latecomer never overtakes the queue with a free permit.               *)
NoIdlePermit == queue # << >> => permits = 0

(* The queue holds exactly the handlers that wait, each once.              *)
QueueIsWaiters ==
  /\ \A r \in Requests :
       pc[r] = "waiting" <=> \E i \in DOMAIN queue : queue[i] = r
  /\ \A i, j \in DOMAIN queue : queue[i] = queue[j] => i = j

(* The capacity can be overrun, because the load and the increment are two *)
(* operations, but only by the handlers that were between them: at most    *)
(* one for each further worker thread.                                     *)
OverrunBounded == waiting <= QueueCapacity + Workers - 1

(* Admission implements the bounded slots, a slot being a held permit.     *)
Slots == INSTANCE BoundedSlots WITH inside <- Holders
ImplementsSlots == Slots!Spec
=============================================================================
