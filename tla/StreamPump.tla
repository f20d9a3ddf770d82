----------------------------- MODULE StreamPump -----------------------------
(***************************************************************************)
(* What becomes of an admitted request (src/src/server.rs): its permit,    *)
(* its RequestScope, and the pump that forwards a committed stream to the  *)
(* client while an SSE decoder (src/src/sse.rs) watches it pass.           *)
(*                                                                         *)
(* A chunk is the events it completes and whether it ends inside another   *)
(* one.  The pump runs from yield to yield; at each of them the client can *)
(* be gone, and the response body is dropped with all that it owns.        *)
(***************************************************************************)
EXTENDS Integers, FiniteSets, SequencesExt

CONSTANTS
  Requests,     \* client requests
  Limit,        \* concurrency.initial
  KeepAlives,   \* runtime.stream_ping_secs is not 0
  MaxEvents,    \* bound: events completed by one chunk
  MaxChunks     \* bound: chunks of one stream after the first

ASSUME PumpAssumption ==
  /\ IsFiniteSet(Requests)
  /\ Limit \in Nat \ {0}
  /\ KeepAlives \in BOOLEAN
  /\ MaxEvents \in Nat
  /\ MaxChunks \in Nat

(* What process_events tells apart: pings, [DONE] and the other message    *)
(* events are plain, bad is an event whose data is not JSON.               *)
Kinds == {"plain", "stop", "error", "bad"}

Chunk == {c \in [events : SeqOf(Kinds, MaxEvents), cut : BOOLEAN] :
            c.events # <<>> \/ c.cut}

Classes ==
  {"answered", "failed", "complete", "protocol_error", "stream_interrupted",
   "unexpected_eof", "upstream_error_event", "client_disconnected"}

States ==
  {"idle",
   "sending",      \* in send_messages
   "committed",    \* the response is made, its body not polled yet
   "forwarded",    \* a chunk is yielded, its events are to be processed
   "pumping",      \* the select over the upstream and the ping timer
   "framing",      \* an error frame is the next thing yielded
   "ending",       \* the body has ended, or ends when it is polled next
   "dropping",     \* the pump's permit is gone, its scope is next
   "returning"}    \* the handler's scope is gone, its permit is next

VARIABLES
  permits,   \* idle permits of local admission
  active,    \* metrics.requests_active
  pc,        \* progress of each request, see States
  outcome,   \* its scope: "none", "open", or the class it was counted under
  batch,     \* the events of the chunk just yielded
  pending,   \* the decoder is inside an event
  left,      \* chunks its upstream may still send
  client     \* what its client was sent, and whether it has left

vars == <<permits, active, pc, outcome, batch, pending, left, client>>

(* stop and error: the bytes of such an event were forwarded.  frames: the *)
(* error frames of the proxy; spliced: bytes of the proxy's own were put   *)
(* inside an event of the upstream.                                        *)
ClientType ==
  [stop : BOOLEAN, error : BOOLEAN, frames : 0 .. 1, spliced : BOOLEAN,
   gone : BOOLEAN]

NewClient ==
  [stop |-> FALSE, error |-> FALSE, frames |-> 0, spliced |-> FALSE,
   gone |-> FALSE]

TypeOK ==
  /\ permits \in 0 .. Limit
  /\ active \in 0 .. Cardinality(Requests)
  /\ pc \in [Requests -> States]
  /\ outcome \in [Requests -> Classes \cup {"none", "open"}]
  /\ batch \in [Requests -> SeqOf(Kinds, MaxEvents)]
  /\ pending \in [Requests -> BOOLEAN]
  /\ left \in [Requests -> 0 .. MaxChunks]
  /\ client \in [Requests -> ClientType]

Init ==
  /\ permits = Limit
  /\ active = 0
  /\ pc = [r \in Requests |-> "idle"]
  /\ outcome = [r \in Requests |-> "none"]
  /\ batch = [r \in Requests |-> <<>>]
  /\ pending = [r \in Requests |-> FALSE]
  /\ left = [r \in Requests |-> 0]
  /\ client = [r \in Requests |-> NewClient]

Goto(r, to) == pc' = [pc EXCEPT ![r] = to]

(* finish_json, finish_error, finish_stream and the scope's Drop: the      *)
(* first of them counts the request out, the others do nothing.            *)
FinishUnguarded(r, class) ==
  /\ outcome' = [outcome EXCEPT ![r] = IF @ = "open" THEN class ELSE @]
  /\ active' = active - 1
Finish(r, class) ==
  IF outcome[r] = "open"
  THEN /\ outcome' = [outcome EXCEPT ![r] = class]
       /\ active' = active - 1
  ELSE UNCHANGED <<outcome, active>>

-----------------------------------------------------------------------------
(* The handler.  acquire() gave it a permit.                               *)
AcceptUnasked(r) ==
  /\ pc[r] = "idle"
  /\ permits' = permits - 1
  /\ active' = active + 1
  /\ Goto(r, "sending")
  /\ outcome' = [outcome EXCEPT ![r] = "open"]
  /\ batch' = [batch EXCEPT ![r] = <<>>]
  /\ pending' = [pending EXCEPT ![r] = FALSE]
  /\ left' = [left EXCEPT ![r] = MaxChunks]
  /\ client' = [client EXCEPT ![r] = NewClient]
Accept(r) ==
  /\ pc[r] = "idle"
  /\ permits > 0
  /\ permits' = permits - 1
  /\ active' = active + 1
  /\ Goto(r, "sending")
  /\ outcome' = [outcome EXCEPT ![r] = "open"]
  /\ batch' = [batch EXCEPT ![r] = <<>>]
  /\ pending' = [pending EXCEPT ![r] = FALSE]
  /\ left' = [left EXCEPT ![r] = MaxChunks]
  /\ client' = [client EXCEPT ![r] = NewClient]

(* send_messages returned a JSON body or an error: the scope is finished   *)
(* and the handler's locals go, the scope before the permit.               *)
Respond(r) ==
  /\ pc[r] = "sending"
  /\ \E class \in {"answered", "failed"} : Finish(r, class)
  /\ Goto(r, "returning")
  /\ UNCHANGED <<permits, batch, pending, left, client>>

(* It returned a stream: permit and scope move into the pump. *)
Commit(r) ==
  /\ pc[r] = "sending"
  /\ Goto(r, "committed")
  /\ UNCHANGED <<permits, active, outcome, batch, pending, left, client>>

DropPermitLost(r) ==
  /\ pc[r] = "returning"
  /\ Goto(r, "idle")
  /\ UNCHANGED <<permits, active, outcome, batch, pending, left, client>>
DropPermit(r) ==
  /\ pc[r] = "returning"
  /\ permits' = permits + 1
  /\ Goto(r, "idle")
  /\ UNCHANGED <<active, outcome, batch, pending, left, client>>

-----------------------------------------------------------------------------
(* The pump.  The first chunk is buffered by the commit barrier.           *)
Sent(r, es) ==
  client' = [client EXCEPT ![r].stop = @ \/ "stop" \in Range(es),
                           ![r].error = @ \/ "error" \in Range(es)]

Receives(r) ==
  \/ /\ pc[r] = "committed"
     /\ UNCHANGED left
  \/ /\ pc[r] = "pumping"
     /\ left[r] > 0
     /\ left' = [left EXCEPT ![r] = @ - 1]

Forward(r) ==
  /\ Receives(r)
  /\ \E c \in Chunk :
       /\ Sent(r, c.events)
       /\ batch' = [batch EXCEPT ![r] = c.events]
       /\ pending' = [pending EXCEPT ![r] = c.cut]
  /\ Goto(r, "forwarded")
  /\ UNCHANGED <<permits, active, outcome>>

(* push() refuses a chunk that makes an event too long.  It is forwarded   *)
(* all the same if it is the first.                                        *)
Overflow(r) ==
  /\ Receives(r)
  /\ \/ /\ pc[r] = "committed"
        /\ \E c \in Chunk :
             Sent(r, c.events) /\ pending' = [pending EXCEPT ![r] = c.cut]
     \/ /\ pc[r] = "pumping"
        /\ UNCHANGED <<client, pending>>
  /\ Finish(r, "protocol_error")
  /\ Goto(r, "framing")
  /\ UNCHANGED <<permits, batch>>

(* process_events stops at the first event that is invalid or an error;    *)
(* message_stop only counts if there is none.                              *)
FirstFatal(es, kind) ==
  \E i \in DOMAIN es :
    /\ es[i] = kind
    /\ \A j \in 1 .. i - 1 : es[j] \notin {"bad", "error"}

Sound(es) == Range(es) \cap {"bad", "error"} = {}

ConcludeUncounted(r, es) ==
  \/ /\ FirstFatal(es, "bad")
     /\ Finish(r, "protocol_error")
     /\ Goto(r, "framing")
  \/ /\ FirstFatal(es, "error")
     /\ Goto(r, "ending")
     /\ UNCHANGED <<outcome, active>>
  \/ /\ Sound(es) /\ "stop" \in Range(es)
     /\ Finish(r, "complete")
     /\ Goto(r, "ending")
ConcludeFramed(r, es) ==
  \/ /\ FirstFatal(es, "bad")
     /\ Finish(r, "protocol_error")
     /\ Goto(r, "framing")
  \/ /\ FirstFatal(es, "error")
     /\ Finish(r, "upstream_error_event")
     /\ Goto(r, "framing")
  \/ /\ Sound(es) /\ "stop" \in Range(es)
     /\ Finish(r, "complete")
     /\ Goto(r, "ending")
Conclude(r, es) ==
  \/ /\ FirstFatal(es, "bad")
     /\ Finish(r, "protocol_error")
     /\ Goto(r, "framing")
  \/ /\ FirstFatal(es, "error")
     /\ Finish(r, "upstream_error_event")
     /\ Goto(r, "ending")
  \/ /\ Sound(es) /\ "stop" \in Range(es)
     /\ Finish(r, "complete")
     /\ Goto(r, "ending")

GoesOn(es) == Sound(es) /\ "stop" \notin Range(es)

Process(r) ==
  /\ pc[r] = "forwarded"
  /\ \/ Conclude(r, batch[r])
     \/ /\ GoesOn(batch[r])
        /\ Goto(r, "pumping")
        /\ UNCHANGED <<outcome, active>>
  /\ batch' = [batch EXCEPT ![r] = <<>>]
  /\ UNCHANGED <<permits, pending, left, client>>

(* A transport error, or the read timeout, after the first byte. *)
Interrupt(r) ==
  /\ pc[r] = "pumping"
  /\ Finish(r, "stream_interrupted")
  /\ Goto(r, "framing")
  /\ UNCHANGED <<permits, batch, pending, left, client>>

(* The upstream ends.  finish() takes what is left in the buffer for an    *)
(* event, whose bytes the client has, if it has a data line.               *)
Trailing(r) ==
  IF pending[r] THEN {<<>>} \cup {<<kind>> : kind \in Kinds} ELSE {<<>>}

EndOfStream(r) ==
  /\ pc[r] = "pumping"
  /\ \E es \in Trailing(r) :
       /\ Sent(r, es)
       /\ \/ Conclude(r, es)
          \/ /\ GoesOn(es)
             /\ Finish(r, "unexpected_eof")
             /\ Goto(r, "framing")
  /\ UNCHANGED <<permits, batch, pending, left>>

(* Bytes of the proxy's own, whatever the last chunk ended in. *)
KeepAlive(r) ==
  /\ KeepAlives
  /\ pc[r] = "pumping"
  /\ client' = [client EXCEPT ![r].spliced = @ \/ pending[r]]
  /\ UNCHANGED <<permits, active, pc, outcome, batch, pending, left>>

FrameWithoutReturn(r) ==
  /\ pc[r] = "framing"
  /\ client' = [client EXCEPT ![r].frames = 1]
  /\ Goto(r, "pumping")
  /\ UNCHANGED <<permits, active, outcome, batch, pending, left>>
Frame(r) ==
  /\ pc[r] = "framing"
  /\ client' = [client EXCEPT ![r].frames = @ + 1,
                              ![r].spliced = @ \/ pending[r]]
  /\ Goto(r, "ending")
  /\ UNCHANGED <<permits, active, outcome, batch, pending, left>>

-----------------------------------------------------------------------------
(* The body is dropped at its end or with its connection: the pump's       *)
(* fields go in the order of their declaration, the permit first.          *)
DropPump(r) ==
  /\ permits' = permits + 1
  /\ Goto(r, "dropping")
  /\ UNCHANGED <<active, outcome, batch, pending, left>>

EndBody(r) == pc[r] = "ending" /\ DropPump(r) /\ UNCHANGED client

DropScope(r) ==
  /\ pc[r] = "dropping"
  /\ Finish(r, "client_disconnected")
  /\ Goto(r, "idle")
  /\ UNCHANGED <<permits, batch, pending, left, client>>

Leaves(r) == client' = [client EXCEPT ![r].gone = TRUE]

(* The client leaves while the handler or the body waits. *)
Disconnect(r) ==
  /\ Leaves(r)
  /\ \/ /\ pc[r] = "sending"
        /\ Finish(r, "client_disconnected")
        /\ Goto(r, "returning")
        /\ UNCHANGED <<permits, batch, pending, left>>
     \/ /\ pc[r] \in {"committed", "forwarded", "pumping", "framing", "ending"}
        /\ DropPump(r)

Pump(r) ==
  \/ Forward(r) \/ Overflow(r) \/ Process(r) \/ Interrupt(r) \/ EndOfStream(r)
  \/ Frame(r)

Release(r) == EndBody(r) \/ DropScope(r) \/ DropPermit(r)

Next ==
  \E r \in Requests :
    \/ Accept(r) \/ Respond(r) \/ Commit(r)
    \/ Pump(r) \/ KeepAlive(r)
    \/ Release(r) \/ Disconnect(r)

Spec == Init /\ [][Next]_vars

(* send_messages returns (Answers of SendMessages), the read timeout ends  *)
(* every silence of the upstream, a connected client reads, and what is at *)
(* hand is done.  No client is obliged to send a request or to disconnect. *)
FairSpec ==
  /\ Spec
  /\ \A r \in Requests :
       /\ WF_vars(Respond(r) \/ Commit(r))
       /\ WF_vars(Pump(r))
       /\ WF_vars(Release(r))

-----------------------------------------------------------------------------
(* The gauge of requests in flight counts the scopes nobody has finished:  *)
(* of the three finishers and the Drop, one and only one counts a request  *)
(* out, on every path out of the handler and of the pump.                  *)
CountedOnce == active = Cardinality({r \in Requests : outcome[r] = "open"})

(* A permit is idle or belongs to one request, from its admission until    *)
(* the handler returns or the body is dropped, however either comes about. *)
Occupied == {r \in Requests : pc[r] \notin {"idle", "dropping"}}

PermitsConserved == permits + Cardinality(Occupied) = Limit

(* The pump keeps what local admission promised: a request is inside one   *)
(* of the Limit slots from acquire() until the handler returns or, once    *)
(* its stream is committed, until the body is dropped, wherever its client *)
(* leaves it.  A slow reader holds its slot; nothing else takes it.        *)
Slots == INSTANCE BoundedSlots WITH inside <- Occupied
ImplementsSlots == Slots!Spec

(* A stream that ended is counted under what its client saw: no error      *)
(* frame after a clean stop, exactly one after a failure of the proxy's    *)
(* noticing (README.md:516 "exactly one Anthropic `event: error` frame"),  *)
(* none after an error event of the upstream's, which was forwarded.       *)
Over(r) == pc[r] \in {"ending", "dropping"} /\ ~client[r].gone

VerdictMatchesStream ==
  \A r \in Requests :
    Over(r) =>
      \/ outcome[r] = "complete" /\ client[r].stop /\ client[r].frames = 0
      \/ /\ outcome[r] = "upstream_error_event"
         /\ client[r].error /\ client[r].frames = 0
      \/ /\ outcome[r] \in {"protocol_error", "stream_interrupted",
                            "unexpected_eof"}
         /\ client[r].frames = 1

(* The scope's Drop is the last resort for clients that leave.  A request  *)
(* it counts is one whose client did leave: no return of the pump forgets  *)
(* to finish the scope.                                                    *)
DisconnectsAreReal ==
  \A r \in Requests : outcome[r] = "client_disconnected" => client[r].gone

(* The permit of every admitted request comes back.                        *)
PermitComesBack ==
  \A r \in Requests : pc[r] = "sending" ~> pc[r] \in {"idle", "dropping"}

-----------------------------------------------------------------------------
(* README.md:528: "Protocol-legal `event: ping` keepalives"; README.md:524 *)
(* "malformed SSE JSON terminates the stream with a clean error frame":    *)
(* whatever the proxy adds stands between two events of the upstream's.    *)
FramesStandAlone == \A r \in Requests : ~client[r].spliced
=============================================================================
