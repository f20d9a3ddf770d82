----------------------------- MODULE SseDecoder -----------------------------
(***************************************************************************)
(* The incremental decoder that observes a passing SSE stream              *)
(* (SseDecoder, src/src/sse.rs): the network cuts the stream into chunks   *)
(* anywhere, and the decoder makes events of it.                           *)
(*                                                                         *)
(* A stream is a sequence of symbols.  "data" and "event" stand for        *)
(* "data:" and "event:", with the blank that may follow, ":" for the mark  *)
(* of a comment, and "x" for a run of other bytes.  The decoder looks at   *)
(* whole lines only, so that a cut inside "data:" is a cut before it.      *)
(***************************************************************************)
EXTENDS Integers, SequencesExt, Ordering

CONSTANTS
  Limit,       \* MAX_EVENT_BYTES
  Run,         \* the bytes of an "x"; any other symbol counts for one
  MaxChunk,    \* bound of the model: symbols of a chunk
  MaxStream    \* bound of the model: symbols of the stream

ASSUME DecoderAssumption == {Limit, Run, MaxChunk, MaxStream} \subseteq Nat \ {0}

Symbols == {"data", "event", ":", "x", "cr", "lf"}
Chunks == UNION {[1 .. n -> Symbols] : n \in 1 .. MaxChunk}

Size(s) == Len(s) + (Run - 1) * Cardinality({i \in DOMAIN s : s[i] = "x"})

VARIABLES
  decoder,    \* the decoder's fields, and the events of the current call
  stream,     \* history: what the upstream has sent so far
  ended,      \* whether it has ended
  out         \* history: the events the observer was given

vars == <<decoder, stream, ended, out>>

NoName == <<"none">>
Event(name, lines) == [event |-> name, data |-> lines]

Init ==
  /\ decoder = [buffer |-> <<>>, event |-> NoName, lines |-> <<>>, bytes |-> 0,
                overflow |-> FALSE, events |-> <<>>]
  /\ stream = <<>>
  /\ ended = FALSE
  /\ out = <<>>

(* dispatch(): lines without data make no event, and lose their name. *)
DispatchKeepingBytes(d) ==
  IF d.lines = <<>>
  THEN [d EXCEPT !.event = NoName]
  ELSE [d EXCEPT !.events = Append(@, Event(d.event, d.lines)),
                 !.event = NoName, !.lines = <<>>]
DispatchKeepingName(d) ==
  IF d.lines = <<>>
  THEN d
  ELSE [d EXCEPT !.events = Append(@, Event(d.event, d.lines)),
                 !.event = NoName, !.lines = <<>>, !.bytes = 0]
Dispatch(d) ==
  IF d.lines = <<>>
  THEN [d EXCEPT !.event = NoName]
  ELSE [d EXCEPT !.events = Append(@, Event(d.event, d.lines)),
                 !.event = NoName, !.lines = <<>>, !.bytes = 0]

(* process_line().  Comments and unknown fields are passed by. *)
Processed(d, line) ==
  IF line = <<>> THEN Dispatch(d)
  ELSE IF Head(line) = "data"
       THEN [d EXCEPT !.lines = Append(@, Tail(line)),
                      !.bytes = @ + Size(Tail(line))]
  ELSE IF Head(line) = "event" THEN [d EXCEPT !.event = Tail(line)]
  ELSE d

WithoutCR(line) ==
  IF line # <<>> /\ Last(line) = "cr" THEN Front(line) ELSE line

(* One turn of push()'s loop ends with each line; a line too many ends the *)
(* call, and what is left in the buffer is never looked at again.          *)
Fed(d, symbol) ==
  IF d.overflow THEN d
  ELSE IF symbol # "lf" THEN [d EXCEPT !.buffer = Append(@, symbol)]
  ELSE LET next == Processed([d EXCEPT !.buffer = <<>>], WithoutCR(d.buffer))
       IN  [next EXCEPT !.overflow = next.bytes > Limit]

FedAll(d, chunk) ==
  LET after[n \in 0 .. Len(chunk)] ==
        IF n = 0 THEN d ELSE Fed(after[n - 1], chunk[n])
  IN  after[Len(chunk)]

TooLongByOne(d, chunk) == Size(d.buffer) + Size(chunk) >= Limit
TooLong(d, chunk) == Size(d.buffer) + Size(chunk) > Limit

(* The caller gets the events of a call that did not fail. *)
Delivered(d) ==
  /\ decoder' = [d EXCEPT !.events = <<>>]
  /\ out' = IF d.overflow THEN out ELSE out \o d.events

Push(chunk) ==
  /\ ~ended
  /\ Len(stream) + Len(chunk) <= MaxStream
  /\ stream' = stream \o chunk
  /\ IF decoder.overflow \/ TooLong(decoder, chunk)
     THEN Delivered([decoder EXCEPT !.overflow = TRUE])
     ELSE Delivered(FedAll(decoder, chunk))
  /\ UNCHANGED ended

(* finish(): the line the stream broke off in counts, and so does the      *)
(* event it is in; its carriage return stays.                              *)
Finish ==
  /\ ~ended
  /\ ended' = TRUE
  /\ IF decoder.overflow
     THEN UNCHANGED <<decoder, out>>
     ELSE LET rest == decoder.buffer
              d == [decoder EXCEPT !.buffer = <<>>]
          IN  Delivered(Dispatch(IF rest = <<>> THEN d ELSE Processed(d, rest)))
  /\ UNCHANGED stream

Next == (\E chunk \in Chunks : Push(chunk)) \/ Finish

Spec == Init /\ [][Next]_vars

-----------------------------------------------------------------------------
(* The complete lines of a stream, wherever it is cut, and what it has of  *)
(* the next.                                                               *)
Cuts(s) == InOrder({0} \cup {i \in DOMAIN s : s[i] = "lf"})

Lines(s) ==
  LET cuts == Cuts(s)
  IN  [n \in 1 .. Len(cuts) - 1 |->
         WithoutCR(SubSeq(s, cuts[n] + 1, cuts[n + 1] - 1))]

Rest(s) == SubSeq(s, Last(Cuts(s)) + 1, Len(s))

(* The fields of a name among the lines before the n-th, back to a blank.  *)
Fields(lines, n, field) ==
  LET order == InOrder({i \in 1 .. n - 1 :
                          /\ \A j \in i .. n - 1 : lines[j] # <<>>
                          /\ Head(lines[i]) = field})
  IN  [k \in DOMAIN order |-> Tail(lines[order[k]])]

(* The event that a blank line n ends is called what it last called        *)
(* itself.                                                                 *)
EventBefore(lines, n) ==
  LET names == Fields(lines, n, "event")
  IN  Event(IF names = <<>> THEN NoName ELSE Last(names),
            Fields(lines, n, "data"))

EventsIn(lines) ==
  LET order == InOrder({n \in DOMAIN lines :
                          lines[n] = <<>> /\ Fields(lines, n, "data") # <<>>})
  IN  [k \in DOMAIN order |-> EventBefore(lines, order[k])]

(* The end of a stream ends its last line and counts as a blank one.       *)
EventsOf(s, atEnd) ==
  EventsIn(IF ~atEnd THEN Lines(s)
           ELSE Append(IF Rest(s) = <<>> THEN Lines(s)
                       ELSE Append(Lines(s), Rest(s)),
                       <<>>))

(* What the observer sees is what the stream says, however it was cut; of  *)
(* a stream that grew too long it sees a beginning.                        *)
EventsMatchStream ==
  IF decoder.overflow
  THEN IsPrefix(out, EventsOf(stream, FALSE))
  ELSE out = EventsOf(stream, ended)

(* The decoder gives up on the stream for its length in two cases and in   *)
(* no other: what it has of a line and the whole of the chunk that goes on *)
(* with it exceed the limit, or the data of one event do, wherever it is   *)
(* cut.  Lines and events that are over count for nothing (sse.rs:27, 40,  *)
(* 86); nor do names and the number of data lines, so that an event that   *)
(* never ends can grow beyond the limit.                                   *)
DataOf(lines, n) == FlattenSeq(Fields(lines, n, "data"))

GivesUpWhenTooLong ==
  [][~decoder.overflow /\ stream' # stream
       => (decoder'.overflow <=>
             \/ Size(Rest(stream)) + Size(stream') - Size(stream) > Limit
             \/ \E n \in DOMAIN Lines(stream') :
                  /\ n > Len(Lines(stream))
                  /\ Size(DataOf(Lines(stream'), n + 1)) > Limit)]_vars

(* A stream within the limit is seen to its end. *)
ShortStreamsPass == Size(stream) <= Limit => ~decoder.overflow
=============================================================================
