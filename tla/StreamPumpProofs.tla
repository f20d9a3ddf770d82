-------------------------- MODULE StreamPumpProofs --------------------------
(***************************************************************************)
(* The pump and the accounting of requests, for any number of requests and *)
(* permits and streams of any length.                                      *)
(***************************************************************************)
EXTENDS StreamPump, FiniteSetTheorems, TLAPS

Noticed == {"protocol_error", "stream_interrupted", "unexpected_eof"}

Verdict(r) ==
  \/ outcome[r] = "complete" /\ client[r].stop /\ client[r].frames = 0
  \/ /\ outcome[r] = "upstream_error_event"
     /\ client[r].error /\ client[r].frames = 0
  \/ outcome[r] \in Noticed /\ client[r].frames = 1

Live == {"sending", "committed", "forwarded", "pumping"}

(* What holds of one request, by its progress: its scope is open until the *)
(* pump notices an end, the frame it then owes is still to come, and only  *)
(* a client that left makes it skip the frame.                             *)
Progress(r) ==
  /\ pc[r] \in Live =>
       outcome[r] = "open" /\ client[r].frames = 0 /\ ~client[r].gone
  /\ pc[r] = "framing" =>
       outcome[r] \in Noticed /\ client[r].frames = 0 /\ ~client[r].gone
  /\ pc[r] = "ending" => Verdict(r) /\ ~client[r].gone
  /\ pc[r] = "dropping" => client[r].gone \/ Verdict(r)
  /\ pc[r] \in {"idle", "returning"} => outcome[r] # "open"
  /\ outcome[r] = "client_disconnected" => client[r].gone
  /\ pc[r] = "forwarded" =>
       /\ "stop" \in Range(batch[r]) => client[r].stop
       /\ "error" \in Range(batch[r]) => client[r].error

Typed ==
  /\ pc \in [Requests -> States]
  /\ outcome \in [Requests -> Classes \cup {"none", "open"}]
  /\ batch \in [Requests -> SeqOf(Kinds, MaxEvents)]
  /\ pending \in [Requests -> BOOLEAN]
  /\ left \in [Requests -> 0 .. MaxChunks]
  /\ client \in [Requests -> ClientType]

ProgressInv == Typed /\ \A r \in Requests : Progress(r)

(* A step of one request leaves the others alone. *)
Untouched(r) ==
  \A q \in Requests \ {r} :
    /\ pc'[q] = pc[q]
    /\ outcome'[q] = outcome[q]
    /\ batch'[q] = batch[q]
    /\ client'[q] = client[q]

(* What the client has been sent after a chunk, and after a frame. *)
LEMMA FatalIsSent ==
  ASSUME NEW es, NEW kind, FirstFatal(es, kind)
  PROVE  kind \in Range(es)
BY DEF FirstFatal, Range

LEMMA SentKeeps ==
  ASSUME Typed, NEW r \in Requests, NEW es, Sent(r, es)
  PROVE  /\ client' \in [Requests -> ClientType]
         /\ client'[r].frames = client[r].frames
         /\ client'[r].gone = client[r].gone
         /\ client'[r].stop = (client[r].stop \/ "stop" \in Range(es))
         /\ client'[r].error = (client[r].error \/ "error" \in Range(es))
         /\ \A q \in Requests \ {r} : client'[q] = client[q]
<1>1. client \in [Requests -> ClientType]
  BY DEF Typed
<1>2. /\ client[r] \in ClientType
      /\ client[r].stop \in BOOLEAN /\ client[r].error \in BOOLEAN
      /\ client[r].frames \in 0 .. 1
      /\ client[r].spliced \in BOOLEAN /\ client[r].gone \in BOOLEAN
  BY <1>1 DEF ClientType
<1>3. PICK stop \in BOOLEAN, error \in BOOLEAN :
        /\ stop = (client[r].stop \/ "stop" \in Range(es))
        /\ error = (client[r].error \/ "error" \in Range(es))
        /\ client' = [client EXCEPT ![r].stop = stop, ![r].error = error]
  BY DEF Sent
<1>4. client'[r] = [client[r] EXCEPT !.stop = stop, !.error = error]
  BY <1>1, <1>3
<1>5. \A q \in Requests \ {r} : client'[q] = client[q]
  BY <1>1, <1>3
<1>6. client'[r] \in ClientType
  BY <1>2, <1>4 DEF ClientType
<1>7. client' \in [Requests -> ClientType]
  BY <1>1, <1>3, <1>5, <1>6
<1>8. /\ client'[r].frames = client[r].frames
      /\ client'[r].gone = client[r].gone
      /\ client'[r].stop = stop
      /\ client'[r].error = error
  BY <1>2, <1>4 DEF ClientType
<1> QED
  BY <1>3, <1>5, <1>7, <1>8

LEMMA FrameKeeps ==
  ASSUME Typed, NEW r \in Requests, Frame(r), client[r].frames = 0
  PROVE  /\ client' \in [Requests -> ClientType]
         /\ client'[r].frames = 1
         /\ client'[r].gone = client[r].gone
         /\ \A q \in Requests \ {r} : client'[q] = client[q]
<1>1. client \in [Requests -> ClientType] /\ pending[r] \in BOOLEAN
  BY DEF Typed
<1>2. /\ client[r] \in ClientType
      /\ client[r].stop \in BOOLEAN /\ client[r].error \in BOOLEAN
      /\ client[r].frames \in 0 .. 1
      /\ client[r].spliced \in BOOLEAN /\ client[r].gone \in BOOLEAN
  BY <1>1 DEF ClientType
<1>3. PICK frames, spliced :
        /\ frames = client[r].frames + 1
        /\ spliced = (client[r].spliced \/ pending[r])
        /\ client' = [client EXCEPT ![r].frames = frames,
                                    ![r].spliced = spliced]
  BY DEF Frame
<1>4. frames = 1 /\ frames \in 0 .. 1 /\ spliced \in BOOLEAN
  BY <1>3
<1>5. client'[r] = [client[r] EXCEPT !.frames = frames, !.spliced = spliced]
  BY <1>1, <1>3
<1>6. \A q \in Requests \ {r} : client'[q] = client[q]
  BY <1>1, <1>3
<1>7. client'[r] \in ClientType
  BY <1>2, <1>4, <1>5 DEF ClientType
<1>8. client' \in [Requests -> ClientType]
  BY <1>1, <1>3, <1>6, <1>7
<1>9. client'[r].frames = frames /\ client'[r].gone = client[r].gone
  BY <1>2, <1>5 DEF ClientType
<1> QED
  BY <1>4, <1>6, <1>8, <1>9

LEMMA EmptyBatch == <<>> \in SeqOf(Kinds, MaxEvents)
<1>1. <<>> \in [1 .. 0 -> Kinds]
  OBVIOUS
<1>2. 0 \in 0 .. MaxEvents
  BY PumpAssumption DEF PumpAssumption
<1> QED
  BY <1>1, <1>2 DEF SeqOf

(* process_events ends the pump with a verdict that is true of the events  *)
(* forwarded, or with a frame to come.                                     *)
LEMMA Concluded ==
  ASSUME ProgressInv, NEW r \in Requests, outcome[r] = "open",
         NEW es, Conclude(r, es)
  PROVE  /\ pc' \in [Requests -> States]
         /\ outcome' \in [Requests -> Classes \cup {"none", "open"}]
         /\ \A q \in Requests \ {r} :
              pc'[q] = pc[q] /\ outcome'[q] = outcome[q]
         /\ \/ pc'[r] = "framing" /\ outcome'[r] = "protocol_error"
            \/ /\ pc'[r] = "ending" /\ outcome'[r] = "upstream_error_event"
               /\ "error" \in Range(es)
            \/ /\ pc'[r] = "ending" /\ outcome'[r] = "complete"
               /\ "stop" \in Range(es)
<1> USE DEF Finish, Goto, ProgressInv, Typed, States, Classes
<1>1. CASE FirstFatal(es, "bad") /\ Finish(r, "protocol_error")
             /\ Goto(r, "framing")
  BY <1>1
<1>2. CASE FirstFatal(es, "error") /\ Finish(r, "upstream_error_event")
             /\ Goto(r, "ending")
  BY <1>2, FatalIsSent
<1>3. CASE "stop" \in Range(es) /\ Finish(r, "complete") /\ Goto(r, "ending")
  BY <1>3
<1> QED
  BY <1>1, <1>2, <1>3 DEF Conclude

LEMMA ProgressInvInit == Init => ProgressInv
<1> SUFFICES ASSUME Init PROVE ProgressInv
  OBVIOUS
<1>1. 0 \in 0 .. MaxChunks
  BY PumpAssumption DEF PumpAssumption
<1>2. Typed
  BY <1>1, EmptyBatch DEF Init, Typed, States, ClientType, NewClient
<1>3. \A r \in Requests : Progress(r)
  BY DEF Init, Progress, NewClient, Live
<1> QED
  BY <1>2, <1>3 DEF ProgressInv

LEMMA ProgressInvStep == ProgressInv /\ [Next]_vars => ProgressInv'
<1> SUFFICES ASSUME ProgressInv, [Next]_vars PROVE ProgressInv'
  OBVIOUS
<1> USE PumpAssumption DEF PumpAssumption
<1> DEFINE Kept(r) == Typed' /\ Progress(r)' /\ Untouched(r)
<1>1. ASSUME NEW r \in Requests, Kept(r) PROVE ProgressInv'
  <2>1. ASSUME NEW q \in Requests \ {r} PROVE Progress(q)'
    BY <1>1, <2>1 DEF ProgressInv, Progress, Untouched, Verdict
  <2> QED
    BY <1>1, <2>1 DEF ProgressInv
<1>2. ASSUME NEW r \in Requests, Accept(r) PROVE Kept(r)
  BY <1>2, EmptyBatch
  DEF Accept, Goto, ProgressInv, Typed, States, Classes, ClientType,
      NewClient, Untouched, Progress, Live
<1>3. ASSUME NEW r \in Requests, Respond(r) \/ Commit(r) PROVE Kept(r)
  BY <1>3
  DEF Respond, Commit, Finish, Goto, ProgressInv, Typed, States, Classes,
      Untouched, Progress, Live
<1>4. ASSUME NEW r \in Requests, Forward(r) PROVE Kept(r)
  <2>1. pc[r] \in {"committed", "pumping"}
    BY <1>4 DEF Forward, Receives
  <2>2. PICK c \in Chunk :
          /\ Sent(r, c.events)
          /\ batch' = [batch EXCEPT ![r] = c.events]
          /\ pending' = [pending EXCEPT ![r] = c.cut]
    BY <1>4 DEF Forward
  <2>3. c.events \in SeqOf(Kinds, MaxEvents) /\ c.cut \in BOOLEAN
    BY DEF Chunk
  <2>4. left' \in [Requests -> 0 .. MaxChunks]
    BY <1>4 DEF Forward, Receives, ProgressInv, Typed
  <2>5. Typed'
    BY <1>4, <2>2, <2>3, <2>4, SentKeeps
    DEF Forward, Goto, ProgressInv, Typed, States
  <2>6. /\ outcome[r] = "open" /\ client[r].frames = 0 /\ ~client[r].gone
    BY <2>1 DEF ProgressInv, Progress, Live
  <2>7. Progress(r)'
    BY <1>4, <2>2, <2>3, <2>6, SentKeeps
    DEF Forward, Goto, ProgressInv, Typed, Progress, Live
  <2>8. Untouched(r)
    BY <1>4, <2>2, SentKeeps DEF Forward, Goto, ProgressInv, Typed, Untouched
  <2> QED
    BY <2>5, <2>7, <2>8
<1>5. ASSUME NEW r \in Requests, Overflow(r) PROVE Kept(r)
  <2>1. pc[r] \in {"committed", "pumping"}
    BY <1>5 DEF Overflow, Receives
  <2>2. /\ outcome[r] = "open" /\ client[r].frames = 0 /\ ~client[r].gone
    BY <2>1 DEF ProgressInv, Progress, Live
  <2> DEFINE Sending == /\ client' \in [Requests -> ClientType]
                        /\ client'[r].frames = 0 /\ ~client'[r].gone
                        /\ pending' \in [Requests -> BOOLEAN]
                        /\ \A q \in Requests \ {r} : client'[q] = client[q]
  <2>3. Sending
    <3>1. CASE UNCHANGED <<client, pending>>
      BY <2>2, <3>1 DEF ProgressInv, Typed
    <3>2. ASSUME NEW c \in Chunk,
                 Sent(r, c.events), pending' = [pending EXCEPT ![r] = c.cut]
          PROVE  Sending
      BY <2>2, <3>2, SentKeeps DEF Chunk, ProgressInv, Typed
    <3> QED
      BY <1>5, <3>1, <3>2 DEF Overflow
  <2>4. left' \in [Requests -> 0 .. MaxChunks]
    BY <1>5 DEF Overflow, Receives, ProgressInv, Typed
  <2>5. /\ outcome' = [outcome EXCEPT ![r] = "protocol_error"]
        /\ pc' = [pc EXCEPT ![r] = "framing"]
        /\ UNCHANGED batch
    BY <1>5, <2>2 DEF Overflow, Finish, Goto
  <2> QED
    BY <2>3, <2>4, <2>5
    DEF ProgressInv, Typed, States, Classes, Untouched, Progress, Live, Noticed
<1>6. ASSUME NEW r \in Requests, Process(r) PROVE Kept(r)
  <2>1. /\ outcome[r] = "open" /\ client[r].frames = 0 /\ ~client[r].gone
        /\ "stop" \in Range(batch[r]) => client[r].stop
        /\ "error" \in Range(batch[r]) => client[r].error
    BY <1>6 DEF Process, ProgressInv, Progress, Live
  <2>2. batch' \in [Requests -> SeqOf(Kinds, MaxEvents)]
    BY <1>6, EmptyBatch DEF Process, ProgressInv, Typed
  <2>3. CASE Conclude(r, batch[r])
    BY <1>6, <2>1, <2>2, <2>3, Concluded
    DEF Process, ProgressInv, Typed, Untouched, Progress, Live, Verdict,
        Noticed
  <2>4. CASE Goto(r, "pumping") /\ UNCHANGED outcome
    BY <1>6, <2>1, <2>2, <2>4
    DEF Process, Goto, ProgressInv, Typed, States, Untouched, Progress, Live
  <2> QED
    BY <1>6, <2>3, <2>4 DEF Process
<1>7. ASSUME NEW r \in Requests, Interrupt(r) PROVE Kept(r)
  BY <1>7
  DEF Interrupt, Finish, Goto, ProgressInv, Typed, States, Classes, Untouched,
      Progress, Live, Noticed
<1>8. ASSUME NEW r \in Requests, EndOfStream(r) PROVE Kept(r)
  <2>1. /\ outcome[r] = "open" /\ client[r].frames = 0 /\ ~client[r].gone
    BY <1>8 DEF EndOfStream, ProgressInv, Progress, Live
  <2>2. PICK es \in Trailing(r) :
          /\ Sent(r, es)
          /\ \/ Conclude(r, es)
             \/ Finish(r, "unexpected_eof") /\ Goto(r, "framing")
    BY <1>8 DEF EndOfStream
  <2>3. /\ client' \in [Requests -> ClientType]
        /\ client'[r].frames = 0 /\ ~client'[r].gone
        /\ "stop" \in Range(es) => client'[r].stop
        /\ "error" \in Range(es) => client'[r].error
        /\ \A q \in Requests \ {r} : client'[q] = client[q]
    BY <2>1, <2>2, SentKeeps DEF ProgressInv
  <2>4. UNCHANGED <<batch, pending, left>>
    BY <1>8 DEF EndOfStream
  <2>5. CASE Conclude(r, es)
    BY <2>1, <2>3, <2>4, <2>5, Concluded
    DEF ProgressInv, Typed, Untouched, Progress, Live, Verdict, Noticed
  <2>6. CASE Finish(r, "unexpected_eof") /\ Goto(r, "framing")
    BY <2>1, <2>3, <2>4, <2>6
    DEF Finish, Goto, ProgressInv, Typed, States, Classes, Untouched,
        Progress, Live, Noticed
  <2> QED
    BY <2>2, <2>5, <2>6
<1>9. ASSUME NEW r \in Requests, KeepAlive(r) PROVE Kept(r)
  BY <1>9
  DEF KeepAlive, ProgressInv, Typed, ClientType, Untouched, Progress, Live
<1>10. ASSUME NEW r \in Requests, Frame(r) PROVE Kept(r)
  <2>1. outcome[r] \in Noticed /\ client[r].frames = 0 /\ ~client[r].gone
    BY <1>10 DEF Frame, ProgressInv, Progress
  <2>2. /\ client' \in [Requests -> ClientType]
        /\ client'[r].frames = 1 /\ ~client'[r].gone
        /\ \A q \in Requests \ {r} : client'[q] = client[q]
    BY <1>10, <2>1, FrameKeeps DEF ProgressInv
  <2> QED
    BY <1>10, <2>1, <2>2
    DEF Frame, Goto, ProgressInv, Typed, States, Untouched, Progress, Live,
        Verdict, Noticed
<1>11. ASSUME NEW r \in Requests, EndBody(r) \/ DropPermit(r) PROVE Kept(r)
  BY <1>11
  DEF EndBody, DropPump, DropPermit, Goto, ProgressInv, Typed, States,
      Untouched, Progress, Live, Verdict
<1>12. ASSUME NEW r \in Requests, DropScope(r) PROVE Kept(r)
  BY <1>12
  DEF DropScope, Finish, Goto, ProgressInv, Typed, States, Classes, Untouched,
      Progress, Live, Verdict, Noticed
<1>13. ASSUME NEW r \in Requests, Disconnect(r) PROVE Kept(r)
  <2>1. /\ client' \in [Requests -> ClientType]
        /\ client'[r].gone
        /\ \A q \in Requests \ {r} : client'[q] = client[q]
    <3>1. client \in [Requests -> ClientType]
      BY DEF ProgressInv, Typed
    <3>2. client' = [client EXCEPT ![r].gone = TRUE]
      BY <1>13 DEF Disconnect, Leaves
    <3> QED BY <3>1, <3>2 DEF ClientType
  <2>2. CASE pc[r] = "sending" /\ Finish(r, "client_disconnected")
               /\ Goto(r, "returning") /\ UNCHANGED <<batch, pending, left>>
    BY <2>1, <2>2
    DEF Finish, Goto, ProgressInv, Typed, States, Classes, Untouched, Progress,
        Live
  <2>3. CASE DropPump(r)
    BY <2>1, <2>3
    DEF DropPump, Goto, ProgressInv, Typed, States, Untouched, Progress, Live
  <2> QED
    BY <1>13, <2>2, <2>3 DEF Disconnect
<1>14. CASE UNCHANGED vars
  BY <1>14 DEF vars, ProgressInv, Typed, Progress, Verdict
<1> QED
  BY <1>1, <1>2, <1>3, <1>4, <1>5, <1>6, <1>7, <1>8, <1>9, <1>10, <1>11,
     <1>12, <1>13, <1>14
  DEF Next, Pump, Release

(* Whatever chunks, splits, failures and disconnects a stream goes         *)
(* through, the class it is counted under is the end its client saw.       *)
THEOREM HonestVerdict == Spec => []VerdictMatchesStream
<1>1. ProgressInv => VerdictMatchesStream
  BY DEF ProgressInv, Progress, VerdictMatchesStream, Over, Verdict, Noticed
<1> QED
  BY <1>1, ProgressInvInit, ProgressInvStep, PTL DEF Spec

(* The pump never ends without having finished its scope. *)
THEOREM NoFalseDisconnect == Spec => []DisconnectsAreReal
<1>1. ProgressInv => DisconnectsAreReal
  BY DEF ProgressInv, Progress, DisconnectsAreReal
<1> QED
  BY <1>1, ProgressInvInit, ProgressInvStep, PTL DEF Spec

-----------------------------------------------------------------------------
(* Counting.  How the number of requests with a property changes when one  *)
(* of them gains or loses it.                                              *)
LEMMA Counted ==
  ASSUME NEW S, NEW T, S \subseteq Requests, NEW r \in Requests,
         S \ {r} = T \ {r}
  PROVE  /\ Cardinality(S) \in Nat /\ Cardinality(S) <= Cardinality(Requests)
         /\ r \in S /\ r \notin T => Cardinality(T) = Cardinality(S) - 1
         /\ r \notin S /\ r \in T => Cardinality(T) = Cardinality(S) + 1
         /\ (r \in S <=> r \in T) => Cardinality(T) = Cardinality(S)
<1>1. IsFiniteSet(S) /\ Cardinality(S) <= Cardinality(Requests)
  BY PumpAssumption, FS_Subset DEF PumpAssumption
<1>2. r \in S /\ r \notin T => T = S \ {r}
  OBVIOUS
<1>3. r \notin S /\ r \in T => T = S \cup {r}
  OBVIOUS
<1>4. (r \in S <=> r \in T) => T = S
  OBVIOUS
<1>5. r \in S /\ r \notin T => Cardinality(T) = Cardinality(S) - 1
  BY <1>1, <1>2, FS_RemoveElement
<1>6. r \notin S /\ r \in T => Cardinality(T) = Cardinality(S) + 1
  BY <1>1, <1>3, FS_AddElement
<1> QED
  BY <1>1, <1>4, <1>5, <1>6, FS_CardinalityType

Open == {r \in Requests : outcome[r] = "open"}

CountInv ==
  /\ ProgressInv
  /\ active \in Int /\ CountedOnce
  /\ permits \in Nat /\ PermitsConserved

LEMMA CountInvInit == Init => CountInv
<1> SUFFICES ASSUME Init PROVE CountInv
  OBVIOUS
<1>1. {r \in Requests : outcome[r] = "open"} = {} /\ Occupied = {}
  BY DEF Init, Occupied
<1>2. Cardinality({}) = 0
  BY FS_EmptySet
<1>3. active = 0 /\ permits = Limit /\ Limit \in Nat
  BY PumpAssumption DEF Init, PumpAssumption
<1>4. CountedOnce
  BY <1>1, <1>2, <1>3 DEF CountedOnce
<1>5. PermitsConserved
  BY <1>1, <1>2, <1>3 DEF PermitsConserved
<1> QED
  BY <1>3, <1>4, <1>5, ProgressInvInit DEF CountInv

(* The first to finish a scope takes it out of the gauge. *)
LEMMA FinishCounts ==
  ASSUME CountInv, NEW r \in Requests, NEW class \in Classes,
         Finish(r, class)
  PROVE  active' \in Int /\ CountedOnce'
<1>1. CASE outcome[r] = "open"
  <2>1. /\ r \in Open /\ r \notin Open'
        /\ Open \subseteq Requests /\ Open \ {r} = Open' \ {r}
    BY <1>1 DEF Finish, Open, Classes, CountInv, ProgressInv, Typed
  <2>2. Cardinality(Open') = Cardinality(Open) - 1
    BY <2>1, Counted
  <2> QED
    BY <1>1, <2>2 DEF Finish, CountInv, CountedOnce, Open
<1>2. CASE outcome[r] # "open"
  BY <1>2 DEF Finish, CountInv, CountedOnce
<1> QED
  BY <1>1, <1>2

(* A permit is taken and given back with the place in Occupied. *)
LEMMA StepKeepsPermits ==
  ASSUME CountInv, NEW r \in Requests, NEW to \in States, Goto(r, to),
         \/ /\ r \notin Occupied /\ to \notin {"idle", "dropping"}
            /\ permits > 0 /\ permits' = permits - 1
         \/ /\ r \in Occupied /\ to \in {"idle", "dropping"}
            /\ permits' = permits + 1
         \/ /\ r \in Occupied <=> to \notin {"idle", "dropping"}
            /\ UNCHANGED permits
  PROVE  permits' \in Nat /\ PermitsConserved'
<1>1. /\ Occupied \subseteq Requests
      /\ Occupied \ {r} = Occupied' \ {r}
      /\ r \in Occupied' <=> to \notin {"idle", "dropping"}
  BY DEF Occupied, Goto, CountInv, ProgressInv, Typed
<1>2. /\ Cardinality(Occupied) \in Nat
      /\ r \in Occupied /\ r \notin Occupied' =>
           Cardinality(Occupied') = Cardinality(Occupied) - 1
      /\ r \notin Occupied /\ r \in Occupied' =>
           Cardinality(Occupied') = Cardinality(Occupied) + 1
      /\ (r \in Occupied <=> r \in Occupied') =>
           Cardinality(Occupied') = Cardinality(Occupied)
  BY <1>1, Counted
<1>3. /\ permits \in Nat /\ permits + Cardinality(Occupied) = Limit
      /\ Limit \in Nat
  BY PumpAssumption DEF CountInv, PermitsConserved, PumpAssumption
<1>4. Cardinality(Occupied)' = Cardinality(Occupied')
  OBVIOUS
<1> QED
  BY <1>1, <1>2, <1>3, <1>4 DEF PermitsConserved

LEMMA CountInvStep == CountInv /\ [Next]_vars => CountInv'
<1> SUFFICES ASSUME CountInv, [Next]_vars PROVE CountInv'
  OBVIOUS
<1>1. ProgressInv'
  BY ProgressInvStep DEF CountInv
<1> DEFINE Gauge == active' \in Int /\ CountedOnce'
           Pool == permits' \in Nat /\ PermitsConserved'
<1>2. ASSUME NEW r \in Requests, Accept(r) PROVE Gauge /\ Pool
  <2>1. outcome[r] # "open" /\ r \notin Occupied
    BY <1>2 DEF Accept, CountInv, ProgressInv, Progress, Occupied
  <2>2. /\ Open \subseteq Requests /\ Open \ {r} = Open' \ {r}
        /\ r \notin Open /\ r \in Open'
    BY <1>2, <2>1 DEF Accept, Open, CountInv, ProgressInv, Typed
  <2>3. Cardinality(Open') = Cardinality(Open) + 1
    BY <2>2, Counted
  <2>4. Gauge
    BY <1>2, <2>3 DEF Accept, CountInv, CountedOnce, Open
  <2>5. Pool
    BY <1>2, <2>1, StepKeepsPermits DEF Accept, States
  <2> QED
    BY <2>4, <2>5
<1>3. ASSUME NEW r \in Requests,
             Respond(r) \/ Overflow(r) \/ Interrupt(r)
      PROVE  Gauge /\ Pool
  <2>1. PICK class \in Classes : Finish(r, class)
    BY <1>3 DEF Respond, Overflow, Interrupt, Classes
  <2>2. PICK to \in {"returning", "framing"} : Goto(r, to)
    BY <1>3 DEF Respond, Overflow, Interrupt
  <2>3. r \in Occupied /\ UNCHANGED permits
    BY <1>3 DEF Respond, Overflow, Receives, Interrupt, Occupied
  <2> QED
    BY <2>1, <2>2, <2>3, FinishCounts, StepKeepsPermits DEF States
<1>4. ASSUME NEW r \in Requests, Process(r) \/ EndOfStream(r)
      PROVE  Gauge /\ Pool
  <2>1. \/ UNCHANGED <<outcome, active>>
        \/ \E class \in Classes : Finish(r, class)
    BY <1>4 DEF Process, EndOfStream, Conclude, Classes
  <2>2. \E to \in {"framing", "ending", "pumping"} : Goto(r, to)
    BY <1>4 DEF Process, EndOfStream, Conclude
  <2>3. r \in Occupied /\ UNCHANGED permits
    BY <1>4 DEF Process, EndOfStream, Occupied
  <2>4. Gauge
    BY <2>1, FinishCounts DEF CountInv, CountedOnce
  <2> QED
    BY <2>2, <2>3, <2>4, StepKeepsPermits DEF States
<1>5. ASSUME NEW r \in Requests,
             Commit(r) \/ Forward(r) \/ Frame(r) \/ EndBody(r) \/ DropPermit(r)
      PROVE  Gauge /\ Pool
  <2>1. Gauge
    BY <1>5
    DEF Commit, Forward, Frame, EndBody, DropPump, DropPermit, CountInv,
        CountedOnce
  <2>2. r \in Occupied
    BY <1>5
    DEF Commit, Forward, Receives, Frame, EndBody, DropPermit, Occupied
  <2>3. \/ /\ UNCHANGED permits
           /\ \E to \in {"committed", "forwarded", "ending"} : Goto(r, to)
        \/ /\ permits' = permits + 1
           /\ \E to \in {"idle", "dropping"} : Goto(r, to)
    BY <1>5 DEF Commit, Forward, Frame, EndBody, DropPump, DropPermit
  <2> QED
    BY <2>1, <2>2, <2>3, StepKeepsPermits DEF States
<1>6. ASSUME NEW r \in Requests, DropScope(r) PROVE Gauge /\ Pool
  <2>1. r \notin Occupied
    BY <1>6 DEF DropScope, Occupied
  <2> QED
    BY <1>6, <2>1, FinishCounts, StepKeepsPermits
    DEF DropScope, States, Classes
<1>7. ASSUME NEW r \in Requests, Disconnect(r) PROVE Gauge /\ Pool
  <2>1. r \in Occupied
    BY <1>7 DEF Disconnect, Occupied
  <2>2. CASE /\ Finish(r, "client_disconnected") /\ Goto(r, "returning")
             /\ UNCHANGED permits
    BY <2>1, <2>2, FinishCounts, StepKeepsPermits DEF States, Classes
  <2>3. CASE DropPump(r)
    BY <2>1, <2>3, StepKeepsPermits
    DEF DropPump, States, CountInv, CountedOnce
  <2> QED
    BY <1>7, <2>2, <2>3 DEF Disconnect
<1>8. ASSUME UNCHANGED <<permits, active, pc, outcome>> PROVE Gauge /\ Pool
  BY <1>8 DEF CountInv, CountedOnce, PermitsConserved, Occupied
<1>9. ASSUME NEW r \in Requests, KeepAlive(r) PROVE Gauge /\ Pool
  BY <1>8, <1>9 DEF KeepAlive
<1>10. Gauge /\ Pool
  BY <1>2, <1>3, <1>4, <1>5, <1>6, <1>7, <1>8, <1>9
  DEF Next, Pump, Release, vars
<1> QED
  BY <1>1, <1>10 DEF CountInv

(* Every admitted request is counted out exactly once, by whichever of the *)
(* finishers and the Drop comes first.                                     *)
THEOREM GaugeExact == Spec => []CountedOnce
<1>1. CountInv => CountedOnce
  BY DEF CountInv
<1> QED
  BY <1>1, CountInvInit, CountInvStep, PTL DEF Spec

(* No permit is lost or given back twice on any path out of the handler or *)
(* of the pump.                                                            *)
THEOREM PermitsKept == Spec => []PermitsConserved
<1>1. CountInv => PermitsConserved
  BY DEF CountInv
<1> QED
  BY <1>1, CountInvInit, CountInvStep, PTL DEF Spec

(* Every reachable state is well-typed: with the counts exact, the gauge   *)
(* is never negative and the semaphore never above its limit.              *)
THEOREM TypeCorrect == Spec => []TypeOK
<1>1. CountInv => TypeOK
  <2> SUFFICES ASSUME CountInv PROVE TypeOK
    OBVIOUS
  <2>1. active \in 0 .. Cardinality(Requests)
    <3>1. IsFiniteSet(Requests) /\ Open \subseteq Requests
      BY PumpAssumption DEF PumpAssumption, Open
    <3>2. /\ Cardinality(Open) <= Cardinality(Requests)
          /\ Cardinality(Open) \in Nat /\ Cardinality(Requests) \in Nat
      BY <3>1, FS_Subset, FS_CardinalityType
    <3>3. active = Cardinality(Open)
      BY DEF CountInv, CountedOnce, Open
    <3> QED
      BY <3>2, <3>3
  <2>2. permits \in 0 .. Limit
    <3>1. IsFiniteSet(Requests) /\ Occupied \subseteq Requests
      BY PumpAssumption DEF PumpAssumption, Occupied
    <3>2. Cardinality(Occupied) \in Nat
      BY <3>1, FS_Subset, FS_CardinalityType
    <3> QED
      BY <3>2, PumpAssumption DEF CountInv, PermitsConserved, PumpAssumption
  <2> QED
    BY <2>1, <2>2 DEF CountInv, ProgressInv, Typed, TypeOK
<1> QED
  BY <1>1, CountInvInit, CountInvStep, PTL DEF Spec

-----------------------------------------------------------------------------
(* The pump implements BoundedSlots.  A step that moves a request into a   *)
(* slot, out of one, or neither.                                           *)
LEMMA Enters ==
  ASSUME CountInv, NEW r \in Requests, Accept(r)
  PROVE  Slots!Enter(r)
<1>1. r \notin Occupied /\ Occupied' = Occupied \cup {r}
  BY DEF Accept, Goto, Occupied, CountInv, ProgressInv, Typed
<1>2. permits \in Nat /\ permits > 0 /\ permits + Cardinality(Occupied) = Limit
  BY DEF Accept, CountInv, PermitsConserved
<1>3. IsFiniteSet(Requests) /\ Limit \in Nat /\ Occupied \subseteq Requests
  BY PumpAssumption DEF PumpAssumption, Occupied
<1>4. Cardinality(Occupied) \in Nat
  BY <1>3, FS_Subset, FS_CardinalityType
<1>5. Cardinality(Occupied) < Limit
  BY <1>2, <1>3, <1>4
<1>6. Slots!Cardinality(Occupied) = Cardinality(Occupied)
  BY DEF Slots!Cardinality, Cardinality
<1> QED
  BY <1>1, <1>5, <1>6 DEF Slots!Enter

LEMMA Exits ==
  ASSUME Typed, NEW r \in Occupied, NEW to \in {"idle", "dropping"},
         Goto(r, to)
  PROVE  Slots!Exit(r)
<1>1. Occupied' = Occupied \ {r}
  BY DEF Goto, Occupied, Typed
<1> QED
  BY <1>1 DEF Slots!Exit

LEMMA Remains ==
  ASSUME Typed, NEW r \in Requests, NEW to, Goto(r, to),
         r \in Occupied <=> to \notin {"idle", "dropping"}
  PROVE  UNCHANGED Occupied
BY DEF Goto, Occupied, Typed

(* Every request in flight is inside one of Limit slots, and leaves it     *)
(* itself: on no path out of the handler or of the body is a slot handed   *)
(* to another request before its holder is through with it.                *)
THEOREM Refinement == Spec => ImplementsSlots
<1>1. Init => Slots!Init
  BY DEF Init, Slots!Init, Occupied
<1>2. CountInv /\ [Next]_vars => [Slots!Next]_Occupied
  <2> SUFFICES ASSUME CountInv, [Next]_vars
               PROVE  Slots!Next \/ UNCHANGED Occupied
    OBVIOUS
  <2>1. Typed
    BY DEF CountInv, ProgressInv
  <2>2. ASSUME NEW r \in Requests, Accept(r) PROVE Slots!Next
    BY <2>2, Enters DEF Slots!Next
  <2>3. ASSUME NEW r \in Requests, Respond(r) \/ Commit(r) \/ Pump(r)
        PROVE  UNCHANGED Occupied
    <3>1. r \in Occupied
      BY <2>3
      DEF Respond, Commit, Pump, Forward, Overflow, Receives, Process,
          Interrupt, EndOfStream, Frame, Occupied
    <3>2. PICK to \in {"returning", "committed", "forwarded", "framing",
                       "pumping", "ending"} : Goto(r, to)
      BY <2>3
      DEF Respond, Commit, Pump, Forward, Overflow, Process, Conclude,
          Interrupt, EndOfStream, Frame
    <3> QED
      BY <2>1, <3>1, <3>2, Remains
  <2>4. ASSUME NEW r \in Requests, EndBody(r) \/ DropPermit(r)
        PROVE  Slots!Next
    <3>1. r \in Occupied
      BY <2>4 DEF EndBody, DropPermit, Occupied
    <3>2. \E to \in {"idle", "dropping"} : Goto(r, to)
      BY <2>4 DEF EndBody, DropPump, DropPermit
    <3> QED
      BY <2>1, <3>1, <3>2, Exits DEF Slots!Next
  <2>5. ASSUME NEW r \in Requests, DropScope(r) PROVE UNCHANGED Occupied
    BY <2>1, <2>5, Remains DEF DropScope, Occupied
  <2>6. ASSUME NEW r \in Requests, Disconnect(r)
        PROVE  Slots!Next \/ UNCHANGED Occupied
    <3>1. r \in Occupied
      BY <2>6 DEF Disconnect, Occupied
    <3>2. CASE Goto(r, "returning")
      BY <2>1, <3>1, <3>2, Remains
    <3>3. CASE DropPump(r)
      BY <2>1, <3>1, <3>3, Exits DEF DropPump, Slots!Next
    <3> QED
      BY <2>6, <3>2, <3>3 DEF Disconnect
  <2>7. ASSUME UNCHANGED pc PROVE UNCHANGED Occupied
    BY <2>7 DEF Occupied
  <2> QED
    BY <2>2, <2>3, <2>4, <2>5, <2>6, <2>7
    DEF Next, Release, KeepAlive, vars
<1> QED
  BY <1>1, <1>2, CountInvInit, CountInvStep, PTL
  DEF Spec, ImplementsSlots, Slots!Spec
=============================================================================
