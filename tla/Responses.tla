----------------------------- MODULE Responses -----------------------------
(***************************************************************************)
(* SendMessages with the answers of the upstream spelled out: a response   *)
(* decides, by way of the classifier, which failure the handler marks and  *)
(* for how long, and the generic 429s of a key raise the ladder it climbs  *)
(* (src/src/upstream.rs, note_* of src/src/router.rs).                     *)
(*                                                                         *)
(* Every step is a step of SendMessages, whose cooldowns are thereby no    *)
(* longer free.                                                            *)
(***************************************************************************)
EXTENDS SendMessages, Classifier

CONSTANTS
  Responses,    \* the error responses the upstream may send
  MaxStreak     \* bound of the model: no streak grows beyond it

ASSUME ResponseAssumption ==
  /\ Responses \subseteq ResponseType
  /\ MaxStreak \in Nat \ {0}

VARIABLES
  streak,      \* KeyState.streak: consecutive generic 429s of each key
  seen,        \* the streak a handler has read and not yet written back
  promised     \* history: ticks a route's last 429 told us to stay away

ladder == <<streak, seen, promised>>

NotSeen == -1

LadderInit ==
  /\ Init
  /\ streak = [k \in Keys |-> 0]
  /\ seen = [r \in Requests |-> NotSeen]
  /\ promised = [c \in Routes |-> 0]

WithStreak(k, n) == streak' = [i \in Keys |-> IF i = k THEN n ELSE streak[i]]

Promise(r, d) == promised' = [promised EXCEPT ![RouteOf(target[r])] = d]

CoolsFor(r, durations) ==
  \E d \in durations : cooldown'[r] = TransientCooldown(target[r], d)

-----------------------------------------------------------------------------
(* Between reading a streak and writing it back a handler does nothing     *)
(* else, and nothing cancels it: it does not await.                        *)
Undecided(r) == seen[r] = NotSeen

Success(r) ==
  /\ Undecided(r)
  /\ Answered(r)
  /\ WithStreak(target[r].key, 0)
  /\ Promise(r, 0)
  /\ UNCHANGED seen

(* Transport error, EOF, timeout, malformed JSON, or a 5xx whose hint      *)
(* nobody asks for.                                                        *)
Transient(r) ==
  /\ Undecided(r)
  /\ Overloaded(r)
  /\ CoolsFor(r, LadderDurations(attempt[r], 0))
  /\ UNCHANGED ladder

BadRequest(r) ==
  /\ Undecided(r)
  /\ Invalid(r)
  /\ CoolsFor(r, LadderDurations(attempt[r], 0)) \/ pc'[r] = "done"
  /\ UNCHANGED ladder

Generic(x) == Class(x) = "rate_limited"

(* A hint supersedes the ladder, and the streak starts over. *)
LimitedHinted(r, x) ==
  /\ Undecided(r)
  /\ Generic(x) /\ Authoritative(x)
  /\ RateLimited(r)
  /\ cooldown'[r] = HintDuration(HintOf(x))
  /\ WithStreak(target[r].key, 1)
  /\ Promise(r, Lesser(HintOf(x), HintCeiling))
  /\ UNCHANGED seen

(* rate_limit_streak() takes the key's lock and gives it back. *)
ReadStreak(r, x) ==
  /\ pc[r] = "dialing"
  /\ Undecided(r)
  /\ Generic(x) /\ ~Authoritative(x)
  /\ InTable(target[r].key) /\ streak[target[r].key] < MaxStreak
  /\ seen' = [seen EXCEPT ![r] = streak[target[r].key]]
  /\ UNCHANGED <<vars, streak, promised>>

Limited(r) ==
  /\ ~Undecided(r)
  /\ RateLimited(r)
  /\ cooldown'[r] \in LadderDurations(attempt[r], seen[r])
  /\ WithStreak(target[r].key, seen[r] + 1)
  /\ seen' = [seen EXCEPT ![r] = NotSeen]
  /\ Promise(r, 0)

(* Of a quota signal the fallback counts as well. *)
QuotaSpent(r, x) ==
  /\ Undecided(r)
  /\ Class(x) = "quota"
  /\ QuotaExhausted(r)
  /\ cooldown'[r] = QuotaDuration(HintOf(x))
  /\ UNCHANGED ladder

(* Classes that know no cooldown. *)
Plain(r, x) ==
  /\ Undecided(r)
  /\ \/ Class(x) = "rejected" /\ Rejected(r)
     \/ Class(x) = "forbidden" /\ Forbidden(r)
     \/ Class(x) = "not_found" /\ NotFound(r)
     \/ Class(x) = "unknown" /\ Unknown(r)
  /\ UNCHANGED ladder

Respond(r) ==
  \/ Success(r) \/ Transient(r) \/ BadRequest(r) \/ Limited(r)
  \/ \E x \in Responses :
       \/ LimitedHinted(r, x) \/ ReadStreak(r, x)
       \/ QuotaSpent(r, x) \/ Plain(r, x)

Leave(r) == Undecided(r) /\ Cancel(r) /\ UNCHANGED ladder

Handle(r) ==
  /\ \/ Route(r) \/ Choose(r) \/ Unavailable(r) \/ Refuse(r) \/ Dial(r)
     \/ Decide(r) \/ Wake(r)
  /\ UNCHANGED ladder

Come(r) == Arrive(r) /\ UNCHANGED ladder

Pass ==
  /\ Tick
  /\ promised' = [c \in Routes |-> Decrement(promised[c])]
  /\ UNCHANGED <<streak, seen>>

LadderNext ==
  \/ \E r \in Requests : Come(r) \/ Handle(r) \/ Respond(r) \/ Leave(r)
  \/ Pass

LadderSpec == LadderInit /\ [][LadderNext]_<<vars, ladder>>

-----------------------------------------------------------------------------
(* Whatever the upstream asks for, nothing is taken out of service beyond  *)
(* the configured ceilings: no response parks the proxy.                   *)
CooldownsCapped ==
  /\ \A c \in Routes :
       table.routes[c].cooling <= Greater(LadderCeiling, HintCeiling)
  /\ \A g \in Groups : table.groups[g] <= QuotaCeiling
  /\ \A k \in Keys :
       table.keys[k].cooling <= Greater(LadderCeiling, QuotaCeiling)

(* A Retry-After is kept: a scan takes the route again only after it, or   *)
(* after a later answer or 429 of the route has taken its place, or as the *)
(* probe of a model that is half open (router.rs:1740, "always wins").     *)
RetryAfterKept ==
  [][\A r \in Requests :
       pc[r] = "routing" /\ pc'[r] = "choosing"
         => LET c == candidate'[r].route
            IN  \/ promised[c] = 0
                \/ table'.models[c[1]].state = "HalfOpen"]_<<vars, ladder>>
=============================================================================
