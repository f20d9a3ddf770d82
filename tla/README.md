# A verification development of sensenova-proxy

sensenova-proxy is a local gateway: it accepts Anthropic-style requests, and
spends on each of them a bounded number of attempts over several accounts
(quota groups), credentials (keys) and models of an upstream that rate-limits,
runs out of quota, rejects keys and drops connections. What is hard in it is
not the protocol but the health state that concurrent requests share: which
attempt may be made, what each outcome marks, and what comes back when.

This directory holds TLA+ models of that state and of the requests that use
it, TLC configurations that check them on small instances, and TLAPS proofs of
the main results for every instance.

    tlc -config route.cfg MCSendMessages.tla              # any run of the table below
    tlapm CircuitBreakerProofs.tla                        # any *Proofs module

Paths below are those of the repository (`src/router.rs` and so on).

## 1. Inventory

| Component | State | Operations | Talks to |
| --- | --- | --- | --- |
| Local admission (`concurrency.rs`) | semaphore permits, its FIFO of waiters, an atomic counter of waiters | `acquire` (try, capacity check, register, wait under a timeout), drop of `WaitingGuard` and `Permit` | the message handler; the permit travels into the stream body |
| Proxy-wide breaker (`circuit.rs`) | Closed / Open / HalfOpen, reset instant, reason, overload timestamps, probe flag | `admit`, `record_success`, `record_quota_exhaustion`, `record_overload`, `record_neutral_failure`, `state` | asked and told by the attempt loop, sampled by handlers, `/readyz`, `/metrics` |
| Model circuit (`router.rs`, `ModelEntry`) | circuit, half-open slot, failing groups, missing groups, disabled state | `model_view`, `begin_attempt`, `record_route_failure`, `note_model_missing`, `note_success`, `InflightGuard` | planner and attempt loop |
| Routing table (`router.rs`) | per key: cooling, unusable, in flight, streak, latency; per route and per group: cooling; round-robin counter | `plan`, `followup`, `note_*`, `usable_route_count` | attempt loop, `/readyz` |
| Attempt loop (`upstream.rs`) | per request: attempts, tried identities, replays, the current target, its guard | `send_messages`, `next_attempt`, `next_attempt_group`, `next_attempt_model`, `route_unavailable` | breaker, table, upstream |
| Session affinity (`router.rs`) | bounded map from session tag to route | `note_session_route`, `affinity_route`, `break_affinity*` | scoring of the planner |
| Cooldown ladder (`router.rs`) | the streak of each key | `barrier_duration`, `cap_cooldown`, `rate_limit_streak` | the `note_*` operations |
| Error classifier (`rate_limit.rs`) | none | `classify_upstream_error`, retry hints | attempt loop, cooldown ladder |
| Streaming pump (`server.rs`) | clean-stop and committed flags, request scope, permit | chunk, error, end, ping, drop | decoder, client, metrics, admission |
| SSE decoder (`sse.rs`) | unfinished line, unfinished event, overflow flag | `push`, `finish` | the pump, which shows it every chunk it forwards |
| HTTP server (`server.rs`, `main.rs`) | the shared `AppState` | routes, middleware, graceful shutdown | all of the above |
| Key pool, configuration, models, auth, redaction, metrics, errors | immutable data, counters or none | pure functions | |

What makes each of the stateful components correct, and why a test hardly
reaches it:

* **Admission.** No permit is lost or duplicated when a waiter times out or is
  dropped at the very moment it is handed a permit; the counter equals the
  registered waiters on every path; nobody queues while a permit lies unused.
  The capacity check and the increment are two atomic operations on several
  threads.
* **Breaker.** It opens on overload exactly when enough of it was reported
  lately; an opening ends early only by the report of an attempt that is older
  than it; a claimed half-open slot is always given back. Reports come in any
  order, or not at all.
* **Model circuit.** It opens on failures of enough *distinct* accounts inside
  the window, counts each opening once, never keeps a slot whose owner is gone,
  and always becomes selectable again. Planning, beginning, reporting and
  dropping the guard are separate critical sections of concurrent attempts.
* **Table and attempt loop.** One attempt budget per request whatever it goes
  through; each outcome cools only its failure domain; every reservation is
  returned on every path; a rejected credential stays out, but for the race that
  the code leaves between looking and dialing; every request is answered.
* **Affinity and score.** The map of pins is bounded, a pin is earned by an
  answer at the first try, and lost only for a cause. Pins are set, looked up,
  broken, expired and evicted by requests of all sessions, in critical sections
  of their own.
* **Ladder and classifier.** No response takes anything out of service beyond
  the configured ceilings, and a `Retry-After` is kept. The streak is read in
  one critical section and written in another, and attempts on one route report
  in any order.
* **Decoder.** The events are those of the stream, wherever the network cuts
  it, and it gives up when a line or the text of an event outgrows the limit,
  and only then.
* **Pump.** At most one error frame and only after a failure, one accounting of
  each request under what its client saw, the permit held to the end of the
  body and no longer, nothing spliced into an event. The body can be dropped at
  every await and after every chunk it yields.

`PROJECT.json` lists under `hazards` the places where these can go wrong, by
line, with the properties that watch them.

## 2. Modules

    Clock ── Breaker ── CircuitBreaker ── CircuitHistory ── CircuitBreakerProofs
      │         └───────────────┐   (refined by)
      └── ModelEntry ── RouteTable ── SendMessages ── Responses ── SendMessagesProofs
                │           │            Cooldowns ── Classifier ──┘
                │           └── Selection ── SelectionProofs
                └── ModelCircuit ── ModelCircuitProofs
    Ordering ── RouteTable, SseDecoder
    SharedProofs ── ModelCircuitProofs, SendMessagesProofs, SelectionProofs, SseDecoderProofs
    BoundedSlots  (refined by)  Admission ── AdmissionProofs
         └────────(refined by)  StreamPump ── StreamPumpProofs
    SseDecoder ── SseDecoderProofs

Each `MC*` module instantiates one specification with model values for TLC.

**Clock.** The code stores instants and compares them with `now()`. The models
keep what a comparison tells apart: ticks left until a deadline (0: passed, or
none), and the age of a piece of evidence up to the first age at which it no
longer counts. A `Tick` advances all of them. Nothing bounds how many steps
happen within a tick, so any interleaving of requests and expiries is covered.

**Breaker, CircuitBreaker.** `Breaker` has the record of `circuit.rs` and one
operator for each of its critical sections. Of the overload timestamps only the
threshold-minus-one most recent matter. `CircuitBreaker` is the environment of
the breaker: handlers that arrive (the handler samples `state()`), ask, dial,
and report in every way `send_messages` does, or do not report at all. What
routing decides is a free choice there. `Unreported` says which unreported
outcomes may befall a *half-open probe*; other attempts may always end so.

**CircuitHistory.** `CircuitBreaker` with two history variables, which no step
depends on, because the breaker forgets: it clears its record of overloads when
it opens and overwrites its instants. `lately` is what was really reported
since the last answer, `late` are the attempts that were in flight when the
breaker opened. The properties about openings are stated of these.

**Admission, BoundedSlots.** `acquire()` step by step: between two atomic
operations a handler occupies one of `Workers` threads, since the only await is
inside the semaphore. The semaphore is tokio's and is external: first in, first
out, a returned permit goes to the first waiter, who owns it before its task is
polled (`granted`). A timeout and a disconnect are the same step, because both
drop the future and the guard. `BoundedSlots` is the promise: at most `Limit`
exchanges at once. `StreamPump`, where the permit travels from the handler into
the body, keeps it too: a request is `inside` while it is `Occupied`.

**ModelEntry, ModelCircuit.** The entry of one model with an operator per
critical section under the `models` mutex, and concurrent attempts that plan,
begin, report, and drop their guards as separate steps. `drift` and `owing`
(history) account for the metric incremented after the lock is released;
`failedAgo` and `goneAgo` (history) record which accounts really failed and
when, independently of what the entry keeps.

**RouteTable.** The table is a record and every operation a function of it:
`Dialability` asks the gates in the code's order, `Plans` is what the scan of
`plan()` may choose (one candidate for each that is ready in the first tier that
has one, with the wait until that tier's first alternative), `TargetOf` is what
`target()` makes of it, with its fallback to the first key, and there is one
operator for each `note_*`.
The score only orders the ready candidates of a tier, and is left open: any may
win. `Pool` is the configured list of keys. Candidates and targets carry a
key's index in it (`Indexes`), while the table keeps its state by the position
among the enabled keys (`Keys`, `Entries`): the code uses the one for the
other, and so do `InTable`, `WithKey` and `TargetOf`. `Ordering` has the one
operator behind the lists that a loop over the pool collects (`KeysOf`,
`Entries`): the members of a set of indexes, from the least to the greatest.
`RouteCooldowns` are the results of `barrier_duration`, which `Responses`
computes.

**SendMessages.** Concurrent requests in the loop of `send_messages` over one
table and one breaker. A request awaits in two places, the attempt and the
sleep. It is cut finer, where another thread can change what it has just read:
between the scan of a plan and `target()`, which reads the keys anew under their
own locks, between the plan and the question to the breaker, and between the
marks of a failure and the plan of the next step.

| State of a request | Where it is in `send_messages` |
| --- | --- |
| `routing` | head of the loop (`plan`) |
| `choosing` | in `plan()`: a candidate is chosen, `target()` is next |
| `planned` | has a target, about to call `circuit.admit()` |
| `dialing` | `send_once` or the first byte is awaited, the guard is alive |
| `next_attempt`, `next_attempt_group`, `next_attempt_model` | marks written, guard dropped, about to call that function |
| `sleeping` | `tokio::time::sleep(wait)` |
| `done` | returned |

Its actions are the arms of the outcome (`Answered`, `Overloaded`,
`RateLimited`, `QuotaExhausted`, `Rejected`, `Forbidden`, `NotFound`,
`Invalid`, `Unknown`, `Cancel`) and the branches of the three `next_attempt`
functions (`FailOver`, `AwaitRoute`, `Replay`, `FailOverElsewhere`, `GiveUp`).

**Cooldowns, Classifier.** Operators: the ladder with its jitter, hints and
ceilings, the class of a response, and which of its hints counts. A tick stands
for the code's millisecond, the least positive duration. A response is its
status, whether it has a phrase of an exhausted quota, and the time each source
of a hint asks for.

**Responses.** `SendMessages` again, its cooldowns now those of the responses
the upstream sends: each action is one of `SendMessages` with the cooldown it
marks tied to the response, the attempt and the key's streak. `ReadStreak` and
`Limited` are the two critical sections of a generic 429 without a hint.
`promised` (history) is how long the last 429 of a route asked the proxy to
stay away, if nothing was heard of the route since.

**Selection.** Which candidate wins, and the affinity map. Health is left free
(a plan may find any set of candidates ready), so that what holds here holds
whatever the table says, and the module keeps what the score depends on:
attempts in flight, streaks, the round-robin counter and the pins.
`note_success` and `note_session_route` are two steps, between which others may
break the pin that is about to be set. A request slot serves one request after
another. The profile is not `latency_optimized`.

**SseDecoder.** A stream is a sequence of symbols (a field name with its colon,
the colon of a comment, CR, LF, or a run of other bytes) that `Push` delivers in
chunks cut anywhere. `EventsOf` is what the events of the decoder are compared
with: it reads the whole stream at once, first its lines by their line feeds,
then an event for each blank line with data since the blank line before.

**StreamPump.** What becomes of a request that has its permit: the handler
around `send_messages`, and for a stream the pump that forwards the bytes while
the SSE decoder reads along. A chunk is the list of events it completes
(`plain`, `stop`, `error`, or `bad` for data that is not JSON) and whether it
is `cut` inside a further event. The bytes are forwarded first and judged
after, so `Forward` (which yields) and `Process` are two steps with a possible
disconnect between them. `send_messages` is a free choice of its result here,
and `Admission` a counter.

| State of a request | Where it is |
| --- | --- |
| `sending` | the handler awaits `send_messages` |
| `committed` | the response is made, the buffered first chunk not yet yielded |
| `forwarded` | a chunk has been yielded, `process_events` is next |
| `pumping` | the select over the read and the ping timer |
| `framing` | an error frame is about to be yielded |
| `ending` | nothing more to yield; the body is dropped next |
| `dropping`, `returning` | of permit and scope, one is gone already |

`finish_*` and the scope's `Drop` are one operator, `Finish`, which counts a
request out only the first time. Fields are dropped in the order of their
declaration: the pump gives back its permit before its scope is dropped, the
handler's locals go the other way round. At the end of the upstream the decoder
takes what is left in its buffer for one more event, whose bytes the client
already has (`Trailing`).

Abstractions to know about:

* `plan()` takes its locks one candidate at a time; the models scan the table in
  one step, and `target()` is a step of its own (`Choose`). `ModelCircuit`
  separates the scan from what follows it.
* A plan that is made only to be compared or slept for, in the `next_attempt`
  functions, is one step, with any key of its candidate in the place of the one
  `target()` finds, and without its out-of-bounds panic (section 4). In
  `Selection` a candidate is chosen and dialed in one step, with any of its keys.
* The marks of an outcome (table, breaker) and the drop of the guard are one
  step in `SendMessages`; `ModelCircuit` takes them apart for the model entry.
* One profile; its name, and literal models, are not modelled (a literal is a
  profile of one tier and one model).
* `Responses` calls a `Retry-After` overridden by any later 429 of the route and
  void once the route answered, as the code does; see section 4.
* `rewrite_model` of an already validated body does not fail in the model.
* The breaker is asked about by `Refuse` and `Dial` and no other action, so
  `NoRoute` of `CircuitBreaker` is the step of a request that is refused by
  routing.

## 3. Runs

| Run | Module | Expect | Checks |
| --- | --- | --- | --- |
| `circuit` | MCCircuitBreaker | pass | `SlotOnlyHalfOpen`, `SlotHeldByProbe`, `OpensOnSustainedOverload`, `CutShortByLateReport`, `AdmitsAgain` |
| `circuit_wedged` | MCCircuitBreaker | violation | `AdmitsAgain` when a probe may end in a generic 429 |
| `admission` | MCAdmission | pass | `PermitsConserved`, `CounterExact`, `NoIdlePermit`, `QueueIsWaiters`, `OverrunBounded`, `ImplementsSlots` |
| `model_circuit` | MCModelCircuit | pass | `ProbeSlotHeld`, `OpenCountedOnce`, `OpensOnDistinctGroups`, `MissingOnDistinctGroups`, `SelectableAgain` |
| `route` | MCSendMessages | pass | `OneBudget`, `ReservationsHeld`, `FailureDomain`, `OneRouteCools`, `CooldownsServed`, `BlamedForCause`, `RejectedByRaceOnly`, `DialsOwnAccount`, `ImplementsGate` |
| `route_answers` | MCSendMessages | pass | `Answers` |
| `keys_shifted` | MCSendMessages | violation | `DialsOwnAccount` with a disabled key before enabled ones |
| `responses` | MCResponses | pass | `CooldownsCapped`, `RetryAfterKept` |
| `selection` | MCSelection | pass | `AffinityBounded`, `PinEarned`, `PinLostForCause` |
| `decoder` | SseDecoder | pass | `EventsMatchStream`, `ShortStreamsPass`, `GivesUpWhenTooLong` |
| `stream` | MCStreamPump | pass | `CountedOnce`, `PermitsConserved`, `VerdictMatchesStream`, `DisconnectsAreReal`, `PermitComesBack`, `ImplementsSlots` |
| `stream_splice` | MCStreamPump | violation | `FramesStandAlone` |

The type invariants that belong to `circuit`, `admission`, `model_circuit`,
`route`, `selection` and `stream` are proved instead (section 5).

Bounds, and why they are enough:

* `circuit`: three handlers (a probe, a late reporter of an older attempt, and
  one to be refused or admitted wrongly), two attempts each (the budget's edge
  is reached), overload threshold 3 (a window that is partly full), all timers
  2 or 3 ticks so that reports fall before, at and after them.
* `admission`: six handlers for two permits, two queue places, three workers:
  holders, a full queue, an overrun of two and one more arrival at once.
  Handlers are interchangeable (symmetry).
* `model_circuit`: two attempts, three groups with thresholds of two, so that
  evidence of a third account can be left over, be stale or be fresh when the
  other two race, and every outcome. The evidence windows are one tick and the
  model stays open for two, so evidence expires both before and after the
  circuit moves.
* `route`: two requests and two attempts each, every outcome but the 400, which
  `route_answers` and `responses` have; an account with two keys (a rejected
  key has a sibling, and quota exhaustion has several keys to cool) and one
  with an enabled and a disabled key (the last of the pool, where it shifts
  nothing); two tiers, so that a tier can be passed by.
* `route_answers`: all outcomes together, three attempts, a replay, waiting for
  an unavailable tier; one request, as liveness over two is out of proportion.
* `responses`: two interchangeable requests (symmetry), two accounts with a key
  each and one model; three attempts, so that the ladder climbs by the attempt
  and by the streak; a hint within the ceiling, one beyond it, and one too absurd
  to count, so that the next source is asked; every class of response.
* `selection`: two sessions, one with two requests at a time (these two are
  interchangeable: symmetry), and room for one pin, which expires at the first
  tick, so that every insertion evicts, refreshes or replaces a dead pin. The
  proofs cover every other bound.
* `decoder`: every stream of up to seven symbols in chunks of up to three, with
  a limit of six and runs of four bytes: two runs are more than the limit, one
  is not, and an event with its name, its data and its blank line fits.
* `stream`: two requests for one permit, so that a permit and a count that go
  astray show in the other request; chunks of up to two events, the least at
  which a stop stands before an error or an invalid event of the same chunk;
  one chunk after the buffered first, each of them cut or not; both ends of the
  upstream, pings, and a disconnect at every await.
  `stream_splice`: one request and one event per chunk suffice.

There is no state constraint: ages, timers, counters and budgets are finite by
construction. `Period` bounds the round-robin counter, of which only the
remainders modulo the numbers of keys matter.

Fairness. `Tick` is weakly fair: time passes. A handler's next step is weakly
fair: the runtime polls a task that is ready, and every attempt ends because
connect, first-byte and read timeouts bound it. Nothing obliges a client to
send a request or to disconnect, or a monitor to look. In `StreamPump` the
upstream of a request is silent, sends, fails or ends: the read timeout turns
silence into a failure, and `MaxChunks` says that it does not send for ever. A
client that stays connected is taken to read what it is sent, as nothing in the
proxy bounds a write. In `CircuitBreaker` and `ModelCircuit` arrivals are not fair: `AdmitsAgain` and `SelectableAgain` say
that the next request, should it come, will be let through.

Every property of a passing run has a mutant: a definition (`...Keeping...`,
`...OffByOne`, `...Everywhere` and so on, beside the one it changes) that a
plausible slip in the code would amount to, and under which TLC finds the
property violated.

## 4. Where the code and its documents part

Three disagreements are kept as runs that TLC must find violated.

1. `circuit_wedged`. A half-open probe that meets a generic 429 (or a quota
   signal while other routes are usable, or whose client disconnects) reports
   nothing to the breaker. `probe_in_flight` stays set; `admit()` refuses every
   request from then on, nothing dials, and nothing can clear it until restart.
   `circuit.rs:77` requires the report, `README.md:588` promises the recovery.
   The run shows it on an instance; `SlotLost`, `WedgedForGood` and `WedgeIsFinal`
   (section 5) prove that a probe that reports nothing is the only way to lose
   the slot, and that a slot so lost is lost for good, for all parameters.
2. `keys_shifted`. Candidates and targets carry a key's index in the
   configuration; the table looks it up as a position among the enabled keys
   (`router.rs:584`, `986`). With a disabled key configured before enabled ones
   an attempt planned for, and marked on, one account is made with the
   credential of another, and the last key is never found.
3. `stream_splice`. Bytes are forwarded as they come, so a chunk may end inside
   an event. A ping after a quiet interval, or the proxy's own error frame after
   a broken read, is then written into the middle of that event
   (`server.rs:626`); `README.md:528` calls the pings protocol-legal.

Others were met while modelling and are reproduced by the models, but have no
run of their own:

* the half-open slot of a model is checked when a route is planned and taken
  when the attempt begins; two requests planned in between both dial
  (`router.rs:723` says the second "is refused rather than racing");
* the last-resort replay waits the cooldown out and then plans with its own
  identity still among the tried ones: it is answered "no usable upstream route
  is configured" (`upstream.rs:1064`);
* a failover plan carries the wait of the tier's cooling alternatives even when
  it has a ready target, and the request sleeps it, however long it is
  (`docs/routing.md:66`);
* the round-robin counter is shared by the choice of the candidate and the
  choice of its key: with two accounts, one of them with two keys, and one
  healthy model, as in the README's example configuration, one of the two keys
  is never dialed (`docs/routing.md:242`);
* affinity is asked before the score, though the comment of `score()` says it
  must never outweigh load or health; and a streak of ten outweighs an attempt
  in flight;
* a 429 unpins only the session that met it: other sessions stay pinned to the
  route (`README.md:359`, `docs/routing.md:266`);
* a later 429 without a hint shortens the cooldown of a longer `Retry-After`,
  and a half-open model dials through it ("always wins", `router.rs:1740`); a
  `Retry-After` of a 5xx is ignored;
* a streak that two attempts read and write in turn can outlive the success of
  a third, and a hint sets it to one whatever it was;
* the client's own `Retry-After` is not always conservative: it is the time the
  model opens again, though the route may be cooling for longer
  (`router.rs:1786`);
* the decoder's overflow lasts, though its message says the decoder was reset
  (`sse.rs:25`); whether a stream overflows depends on how it is cut; data lines
  that are empty are kept and count for nothing, nor does the name of the event
  count (`sse.rs:66-71`): what the decoder holds of an event that never ends is
  not bounded by `MAX_EVENT_BYTES`;
* the last line of a stream, if unterminated, keeps its carriage return;
* a late report of an attempt that predates the opening frees or takes over the
  breaker's half-open slot, so a second probe is admitted, and a late success,
  overload or shorter quota signal cuts an opening short (`circuit.rs:5-6`, `77`;
  `CutShortByLateReport` is what does hold: nothing else does);
* a credential that is rejected or cooled between the scan of a plan and
  `target()` is handed out by its fallback (`router.rs:985`), and one that is
  rejected between `plan()` and `admit()` is not asked again: it is dialed,
  though `router.rs:298` says that it "will not be dialed" (`RejectedByRaceOnly`
  is what does hold);
* with a disabled key configured before enabled ones `key_choices()` can name a
  position past the end of the table; if that is the only key of the candidate
  left to take, `target()` panics (`router.rs:986`), and the request goes
  without a reply;
* the wait queue can exceed its capacity by one per further worker thread
  (`concurrency.rs:5`; `OverrunBounded` is what does hold);
* a half-open model closes when an attempt that holds its slot ends in an
  outcome that says nothing of the model, such as a 403 (`README.md:282-283`);
* `target()` ignores the tried identities: with two keys in an account a
  request can dial the same key twice while its sibling is ready
  (`upstream.rs:134`, `docs/routing.md:225-231`, `README.md:330-336`, `465`); no
  property is stated of that choice;
* the proxy-wide breaker opens on a quota signal when no *route* is ready, also
  when the other credentials are merely cooling after a 429 (`README.md:492`);
* a 5xx or transport failure cools the key, not the route, and so every model
  of a one-key account (`docs/routing.md:94`);
* a 400 fails over while there is budget (`README.md:501`);
* a client that closes as soon as it has the chunk with `message_stop` is
  counted as disconnected, since the chunk is yielded before it is judged;
* a `message_stop` event without its blank line at the end of the stream counts
  as a complete stream, though the client's parser need not dispatch it;
* the gauge of active requests can exceed the number of permits for a moment,
  as the pump's permit is dropped before its scope;
* without `allow_lower_tier_on_unavailable` a tier whose candidates this request
  has all tried is passed by, though they are cooling (`docs/routing.md:81`).

## 5. Proofs

| Theorem | Says | Argument |
| --- | --- | --- |
| `CircuitBreakerProofs!TypeCorrect` | `[]TypeOK` | inductive with `BudgetLeft`: a handler in its loop has an attempt left |
| `CircuitBreakerProofs!SlotClaim` | `[]SlotOnlyHalfOpen` | inductive given the type; only `AfterAdmit` claims the slot |
| `CircuitBreakerProofs!SlotNeverLost` | `Unreported = {}` implies `[]SlotHeldByProbe` | every report clears the claim, and no unreported attempt is a probe |
| `CircuitBreakerProofs!OpensWhenItShould` | `OpensOnSustainedOverload` | `EvidenceInv`: what the breaker still holds is a part of what was reported since the last answer, and all of it while closed |
| `CircuitBreakerProofs!CutShortOnlyLate` | `CutShortByLateReport` | `LateInv`: whoever dials while the breaker is open dialed before; a look, time and a refusal leave a running opening alone, so what is left is the end of an attempt |
| `CircuitBreakerProofs!SlotLost` | `SlotLostUnreported`: the claim loses its holder only when the probe's handler ends its attempt and reports nothing | every report, whoever's, clears the claim; looks and time keep claim and holder |
| `CircuitBreakerProofs!WedgedForGood` | `[](Wedged => [](Wedged /\ ~Admits(circuit)))`, `Wedged` being a claim with no attempt left | with `SlotOnlyHalfOpen`: nobody dials, so nobody reports, and nothing else moves a half-open breaker |
| `AdmissionProofs!TypeCorrect`, `NoPermitLost`, `NoLostWakeup`, `QueueExact`, `CounterMatches`, `QueueBounded` | the invariants of the run | the queue is injective and holds exactly the waiters, permits and owners add up, the queue is empty while a permit is free; the overrun is bounded by counting the handlers between check and increment, each on a worker of its own |
| `AdmissionProofs!Refinement` | `Spec => ImplementsSlots` | from these: a handler becomes a holder only with a permit |
| `ModelCircuitProofs!TypeCorrect`, `SlotNeverLost` | `[]TypeOK`, `[]ProbeSlotHeld` | the slot is claimed only in HalfOpen, by an attempt that then holds it until its guard goes |
| `ModelCircuitProofs!MetricExact` | `[]OpenCountedOnce` | an attempt owes an increment exactly if its failure made the transition |
| `ModelCircuitProofs!TripsOnDistinctGroups` | `OpensOnDistinctGroups` | the entry's evidence is never younger than the account's last real failure, an invariant that ages with both |
| `ModelCircuitProofs!MissingOnDistinct` | `MissingOnDistinctGroups` | likewise: a remembered 404 is never younger than the account's last 404, and an answer clears both |
| `SendMessagesProofs!BudgetIsOne` | `[]OneBudget` | a request is in `routing`, `planned` or `sleeping` only with an attempt left, because each of the three decisions checks before it loops |
| `SendMessagesProofs!ImplementsBreaker` | `Spec => ImplementsGate` | the phase of a request is a function of its progress and its attempts, so a step of one request moves one phase; each outcome is an outcome there, a reply with budget left is `NoRoute`, planning, waking and a reply without budget are stutters; it needs that probes are dialing and that a request outside the loop has made no attempt |
| `SendMessagesProofs!SlotClaim` | the breaker's slot is claimed only half open | `CircuitBreakerProofs`' theorem, carried over by `ImplementsBreaker` |
| `SendMessagesProofs!WedgeIsFinal` | `[](BreakerWedged => [](BreakerWedged /\ ~Admits(circuit)))` | `WedgedForGood`, carried over likewise: retries, other models and accounts do not help |
| `SendMessagesProofs!NothingLeaks`, `TableTypeCorrect` | `[]ReservationsHeld`, `[](table \in TableType)` | `Sound(table, Counts, Claims)`: the table has its type, each key counts the attempts in flight on it, a claimed slot is half open and a request's that holds it; each mark keeps `Sound`, `begin_attempt` and the guard move table and attempts together |
| `SendMessagesProofs!LimitsOneRoute` | `OneRouteCools` | from `NothingLeaks`' invariant: a 429 and the guard change of another route's gates only its model's entry, and a closed entry that stays closed shows nothing |
| `SendMessagesProofs!TypeCorrect` | `[]TypeOK`, for any list of keys | with `PlanInv`: a target is typed by the position it was found at, although it is passed on as an index |
| `SendMessagesProofs!ServesCooldowns` | `CooldownsServed` | `Near`: the end of an attempt writes the cooldowns of its own route, account and keys only; `Calm`: every other step but the clock writes none |
| `SendMessagesProofs!BlamesForCause` | `BlamedForCause` | `Charged(m, n, G)` of `SharedProofs`: from `m` to `n` only accounts of `G` got evidence, and the circuit or the missing mark moved only if one of `G` completes it. It composes (`ChargedThen`, because more evidence completes what less does); time, looks, the guard and an answer charge nobody, a failure its own account; `Near` and `Calm` say it of the table |
| `SendMessagesProofs!DomainOfFailure`, `OwnAccountDialed` | `DisabledLast` implies `FailureDomain`, `DialsOwnAccount` | `Listed` in `PlanInv`: a target's index is one its account lists; under `DisabledLast` (no disabled key is configured before an enabled one) an index and a position are the same number, so that what is marked, refused or dialed is the key that was planned |
| `SendMessagesProofs!RejectedOnlyByRace` | `DisabledLast` implies `RejectedByRaceOnly` | `PlanIsReady`: the scan finds a usable key among those it passes to `target()`; `HealthLost`, `PlanKept`: only a 401 takes a key's usability, and only a 401, a quota signal or a transient failure its readiness, each on keys of the account the attempt was made on; `PromiseLost` puts them together for the two waits |
| `SendMessagesProofs!ResponsesAreOutcomes` | `LadderSpec => Spec`, so `OneBudget` and `ImplementsGate` hold there | every response is an outcome of the attempt loop, reading a streak is a stutter |
| `SendMessagesProofs!CapsHold` | `[]CooldownsCapped` | rung, base, jitter and hints lie within the ceilings whatever the streak read was; every mark writes a cooldown of that kind |
| `SendMessagesProofs!WaitsAsTold` | `RetryAfterKept` | `PromiseInv`: what was promised of a route never outlasts its cooldown; only the head of the loop plans, and what it plans was ready when it looked |
| `StreamPumpProofs!TypeCorrect`, `GaugeExact`, `PermitsKept` | `[]TypeOK`, `[]CountedOnce`, `[]PermitsConserved` | `Finish` moves the gauge and the scope together, and only out of `open`; exactly the requests outside `idle` and `dropping` own a permit, and each release leaves one of the two ways |
| `StreamPumpProofs!Refinement` | `Spec => ImplementsSlots` | by `PermitsKept`'s invariant a permit left means room in the slots; `Accept` enters, the last drop of handler or body leaves, every other step stutters |
| `StreamPumpProofs!HonestVerdict` | `[]VerdictMatchesStream` | strengthened by what each earlier state owes: no frame yet while the scope is open, the event that decides among the bytes sent, the class set before an error frame is written |
| `StreamPumpProofs!NoFalseDisconnect` | `[]DisconnectsAreReal` | whoever is in `dropping` with an open scope was left by its client |
| `SelectionProofs!TypeCorrect` | `[]TypeOK` | a finite nonempty set of candidates has one of least cost, and the order that the rotation and the pin make of them has a first: what is dialed is ready, on a model of the tier and a key of the account |
| `SelectionProofs!AffinityStaysBounded` | `[]AffinityBounded` | the map is finite; an insertion first drops the dead pins, and one live pin if it is full and the session is new to it, whichever that is |
| `SelectionProofs!PinsAreEarned` | `[]PinEarned` | strengthened by: a request that is about to pin has already been answered where it will; nothing that is earned is taken back |
| `SelectionProofs!PinsAreLostForCause` | `PinLostForCause` | action by action: expiry removes dead pins only, a failure its own session's and those of the route or account it condemns, an insertion the oldest |
| `SseDecoderProofs!EventsAreTheStreams` | `[]EventsMatchStream` | `Tracks`: the buffer is the stream's unfinished line, and name, data and events are those of its complete lines (`Agrees`); one symbol keeps it, hence a chunk does |
| `SseDecoderProofs!ShortStreamsAreSeen` | `[]ShortStreamsPass` | with `Tracks`: buffer and data together are at most the stream, since each symbol is held once and a field name not at all |

They hold for every finite number of handlers, attempts, groups and requests and every
value of the parameters allowed by the `ASSUME`s of the modules, which the runs
evaluate. A theorem named after a run's property states it of the same
definition.

`DisabledLast` is a hypothesis of three theorems and no assumption of the
module: without it they are false. `keys_shifted` shows it for `DialsOwnAccount`;
the other two fail as soon as a disabled key stands before one of its own
account and two of another, where what one account's attempt marks is the key
the other account asks for. Everything else is proved for any list of keys.

Induction. The provers cannot instantiate the library's induction theorems,
which take an operator. Where a proof needs induction over a number it takes
the set of the numbers of which the claim holds instead: by `LeastNatural` of
`SharedProofs` a nonempty set of naturals has a least member (from the
well-founded order of finite sets), and so, by `Upwards` of `SseDecoderProofs`,
a set with 0 and the successor of each of its members is all of an interval.
This carries the order of a filtered list (`InOrder`), and the decoder from one
symbol to a chunk (`FedAll`, a recursive function, is `Fed` once more by
`FedStepByStep`).

Only model-checked: liveness (`AdmitsAgain`, `SelectableAgain`, `Answers`,
`PermitComesBack`), which is out of the prover's reach, and `GivesUpWhenTooLong`,
whose count of an event's text is a sum over a sequence of lines. Every other
invariant and action property of a passing run has a theorem, and so have the
three refinements.

## 6. Plan

Done: the breaker, admission, the model circuit, the routing table with its
keys, the attempt loop, the responses with classifier and ladder, selection and
affinity, the streaming pump and its decoder, their runs, and the theorems
above. To come, in this order:

1. The graceful shutdown and its deadline over the pumps in flight.
2. The latencies that order the candidates of a `latency_optimized` profile.

Not modelled, and why:

* Authentication, redaction, request normalisation, metrics rendering, logging,
  and the parsing of configuration, dates and durations are pure functions of
  one request or one text, without state that steps share.
* The validation of the configuration appears as the `ASSUME`s of the modules.
* The counters of `metrics.rs` other than the two the models move
  (`model_circuit_open_total`, `requests_active`) only count.
* `KeyPool` only counts the configured keys.
