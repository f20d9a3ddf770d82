----------------------------- MODULE Selection -----------------------------
(***************************************************************************)
(* Which ready candidate of a tier a request is given, and the weak        *)
(* affinity that binds a session to the route that served it: score(),     *)
(* order() and the affinity map of src/src/router.rs.                      *)
(*                                                                         *)
(* Health is left open here as selection is left open in SendMessages: a   *)
(* plan may find any set of candidates ready.  The profile is not          *)
(* latency_optimized, so that scores do not see latencies.                 *)
(***************************************************************************)
EXTENDS RouteTable

CONSTANTS
  Requests,       \* client requests at work, each followed by the next
  SessionNames,   \* session tags
  Anonymous,      \* "sess_none", the tag of a request without a session
  SessionOf,      \* the tag of each request
  AffinityTTL,    \* routing.soft_affinity_secs, in ticks; 0: no affinity
  MaxAffinity,    \* routing.max_affinity_entries
  MaxStreak       \* bound of the model: no streak grows beyond it

ASSUME SelectionAssumption ==
  /\ Anonymous \notin SessionNames
  /\ SessionOf \in [Requests -> SessionNames \cup {Anonymous}]
  /\ {AffinityTTL, MaxStreak} \subseteq Nat
  /\ MaxAffinity \in Nat \ {0}

VARIABLES
  pc,         \* progress of each request
  first,      \* whether its attempt is its first
  target,     \* the target of its attempt
  streak,     \* KeyState.streak: consecutive generic 429s of each key
  rotation,   \* the round-robin counter, modulo Period
  affinity,   \* the affinity map, from pinned sessions
  earned      \* history: which session was ever answered where at first try

vars == <<pc, first, target, streak, rotation, affinity, earned>>

States ==
  {"routing",             \* at the head of its loop
   "dialing",             \* the attempt is awaited
   "answered",            \* note_success() done, note_session_route() next
   "next_attempt",        \* failed, about to call followup()
   "next_elsewhere"}      \* failed, about to plan for another account or model

(* The guard of the attempt lives. *)
Attempting == {r \in Requests : pc[r] \in {"dialing", "answered"}}

TypeOK ==
  /\ pc \in [Requests -> States]
  /\ first \in [Requests -> BOOLEAN]
  /\ target \in [Requests -> Targets]
  /\ streak \in [Keys -> Nat]
  /\ rotation \in 0 .. Period - 1
  /\ DOMAIN affinity \subseteq SessionNames
  /\ affinity \in [DOMAIN affinity -> [route : Routes, left : 0 .. AffinityTTL]]
  /\ earned \subseteq SessionNames \X Routes

NoTarget == CHOOSE x \in Targets : TRUE

Init ==
  /\ pc = [r \in Requests |-> "routing"]
  /\ first = [r \in Requests |-> TRUE]
  /\ target = [r \in Requests |-> NoTarget]
  /\ streak = [k \in Keys |-> 0]
  /\ rotation = 0
  /\ affinity = [s \in {} |-> [route |-> RouteOf(NoTarget), left |-> 0]]
  /\ earned = {}

-----------------------------------------------------------------------------
(* score(): in-flight attempts and streak of the keys a candidate may use. *)
InFlight(k) == Cardinality({r \in Attempting : target[r].key = k})
Weight(k) == 1000000 * InFlight(k) + 100000 * streak[k]

Score(c) ==
  LET choices == KeyChoices(c[2], rotation)
      Load(i) == IF i \in DOMAIN choices /\ InTable(choices[i])
                 THEN Weight(choices[i]) ELSE 0
  IN  Load(1) + Load(2)

Ordinal(tier, c) == Min({o \in DOMAIN tier : tier[o] = c[1]})
FirstKey(c) == KeysOf[c[2]][1]

(* The candidates of a tier stand in the order of its models, and those of *)
(* one model in the order in which their accounts are configured.          *)
Before(tier, c, d) ==
  \/ Ordinal(tier, c) < Ordinal(tier, d)
  \/ Ordinal(tier, c) = Ordinal(tier, d) /\ FirstKey(c) < FirstKey(d)

Least(S, Cost(_)) == {c \in S : \A d \in S : Cost(c) <= Cost(d)}

(* order(): the pinned candidate if it is ready, else the least score,     *)
(* then the model's place in the tier, then whose turn it is.              *)
Foremost(tier, ready, pin) ==
  LET Place(c) == Ordinal(tier, c)
      Turn(c) ==
        (Cardinality({d \in ready : Before(tier, d, c)}) + rotation)
          % Cardinality(ready)
      preferred == IF ready \cap pin # {} THEN ready \cap pin ELSE ready
  IN  CHOOSE c \in Least(Least(Least(preferred, Score), Place), Turn) : TRUE

(* affinity_route(): the session's live pin.  Looking removes a dead one.  *)
Without(S) == [s \in DOMAIN affinity \ S |-> affinity[s]]

Pin(r) ==
  {affinity[s].route : s \in {o \in DOMAIN affinity \cap {SessionOf[r]} :
                                affinity[o].left > 0}}

LookUp(r) ==
  affinity' = Without({s \in DOMAIN affinity \cap {SessionOf[r]} :
                         affinity[s].left = 0})

NextRotation == rotation' = (rotation + 1) % Period

(* plan() and begin_attempt(): a tier, the candidates of it that are ready *)
(* and not used up, and whichever of the chosen one's keys target() takes: *)
(* the first that is ready, or else the first.                             *)
Dial(r) ==
  /\ pc[r] = "routing"
  /\ \E i \in DOMAIN Tiers : \E ready \in SUBSET (Range(Tiers[i]) \X Groups) :
       LET c == Foremost(Tiers[i], ready, Pin(r))
       IN  /\ ready # {}
           /\ \E k \in Range(KeyChoices(c[2], rotation)) \cap Keys :
                target' = [target EXCEPT ![r] =
                             [model |-> c[1], group |-> c[2], key |-> Entries[k]]]
  /\ pc' = [pc EXCEPT ![r] = "dialing"]
  /\ LookUp(r)
  /\ NextRotation
  /\ UNCHANGED <<first, streak, earned>>

(* The handler returns; its slot serves the next request of the session.   *)
Return(r) ==
  /\ pc' = [pc EXCEPT ![r] = "routing"]
  /\ first' = [first EXCEPT ![r] = TRUE]
  /\ target' = [target EXCEPT ![r] = NoTarget]

NothingReady(r) ==
  /\ pc[r] = "routing"
  /\ Return(r)
  /\ LookUp(r)
  /\ UNCHANGED <<streak, rotation, earned>>

-----------------------------------------------------------------------------
WithStreak(k, n) == streak' = [i \in Keys |-> IF i = k THEN n ELSE streak[i]]

(* note_success().  Only a first try goes on to note_session_route().      *)
PinningAlso(r) == SessionOf[r] # Anonymous /\ AffinityTTL > 0
Pinning(r) == first[r] /\ SessionOf[r] # Anonymous /\ AffinityTTL > 0

Succeed(r) ==
  /\ pc[r] = "dialing"
  /\ WithStreak(target[r].key, 0)
  /\ IF Pinning(r)
     THEN /\ pc' = [pc EXCEPT ![r] = "answered"]
          /\ UNCHANGED <<first, target>>
     ELSE Return(r)
  /\ earned' = IF first[r] /\ SessionOf[r] # Anonymous
               THEN earned \cup {<<SessionOf[r], RouteOf(target[r])>>}
               ELSE earned
  /\ UNCHANGED <<rotation, affinity>>

(* note_session_route(): dead pins go, then the one that expires first if  *)
(* the map is full and the session is new to it.                           *)
Live == {s \in DOMAIN affinity : affinity[s].left > 0}

Oldest == {s \in Live : \A o \in Live : affinity[s].left <= affinity[o].left}

FullForLater(s) == s \notin Live /\ Cardinality(Live) > MaxAffinity
FullFor(s) == s \notin Live /\ Cardinality(Live) >= MaxAffinity

NoteSessionRoute(r) ==
  /\ pc[r] = "answered"
  /\ LET s == SessionOf[r]
         pinned == [route |-> RouteOf(target[r]), left |-> AffinityTTL]
     IN  \E out \in IF FullFor(s) THEN {{o} : o \in Oldest} ELSE {{}} :
           affinity' = [o \in (Live \ out) \cup {s} |->
                          IF o = s THEN pinned ELSE affinity[o]]
  /\ Return(r)
  /\ UNCHANGED <<streak, rotation, earned>>

-----------------------------------------------------------------------------
(* break_affinity(), and what break_affinity_for_route() and _for_group()  *)
(* take away from other sessions.                                          *)
Break(r, S) == affinity' = Without(S \cup {SessionOf[r]})

OnRoute(x) == {s \in DOMAIN affinity : affinity[s].route = RouteOf(x)}
OnOtherGroups(x) == {s \in DOMAIN affinity : affinity[s].route[2] # x.group}
OnGroup(x) == {s \in DOMAIN affinity : affinity[s].route[2] = x.group}

Fails(r, decision, S) ==
  /\ pc[r] = "dialing"
  /\ pc' = [pc EXCEPT ![r] = decision]
  /\ Break(r, S)
  /\ UNCHANGED <<first, target, rotation, earned>>

(* Transport errors, 5xx, EOF, timeouts, malformed JSON, 400, 403. *)
Fail(r) == Fails(r, "next_attempt", {}) /\ UNCHANGED streak

(* A generic 429 without a hint raises the streak, a hint restarts it. *)
Limited(r) ==
  /\ Fails(r, "next_attempt", {})
  /\ \E n \in {0} \cup {streak[k] : k \in Keys \cap {target[r].key}} :
       n < MaxStreak /\ WithStreak(target[r].key, n + 1)

Rejected(r) ==
  Fails(r, "next_attempt", OnRoute(target[r])) /\ UNCHANGED streak

NotFound(r) ==
  Fails(r, "next_elsewhere", OnRoute(target[r])) /\ UNCHANGED streak

QuotaExhausted(r) ==
  Fails(r, "next_elsewhere", OnGroup(target[r])) /\ UNCHANGED streak

(* An unclassified status, a 400 on the last attempt, a disconnect. *)
Leave(r) ==
  /\ pc[r] = "dialing"
  /\ Return(r)
  /\ UNCHANGED <<streak, rotation, affinity, earned>>

Loop(r) ==
  /\ pc' = [pc EXCEPT ![r] = "routing"]
  /\ first' = [first EXCEPT ![r] = FALSE]
  /\ target' = [target EXCEPT ![r] = NoTarget]

(* followup() unpins once more and plans as if for nobody; the others plan *)
(* with what the session is pinned to by now.  A plan is thrown away; a    *)
(* wait or a replay goes on without one.                                   *)
Decide(r) ==
  /\ \/ pc[r] = "next_attempt" /\ Break(r, {})
     \/ pc[r] = "next_elsewhere" /\ LookUp(r)
  /\ \/ Loop(r) /\ NextRotation
     \/ Loop(r) /\ pc[r] = "next_attempt" /\ UNCHANGED rotation
     \/ Return(r) /\ pc[r] = "next_elsewhere" /\ NextRotation
     \/ Return(r) /\ UNCHANGED rotation
  /\ UNCHANGED <<streak, earned>>

(* The budget is spent: no plan. *)
GiveUp(r) ==
  /\ pc[r] \in {"next_attempt", "next_elsewhere"}
  /\ Return(r)
  /\ UNCHANGED <<streak, rotation, affinity, earned>>

Tick ==
  /\ affinity' = [s \in DOMAIN affinity |->
                    [affinity[s] EXCEPT !.left = Decrement(@)]]
  /\ UNCHANGED <<pc, first, target, streak, rotation, earned>>

Next ==
  \/ \E r \in Requests :
       \/ Dial(r) \/ NothingReady(r) \/ Succeed(r) \/ NoteSessionRoute(r)
       \/ Fail(r) \/ Limited(r) \/ Rejected(r) \/ NotFound(r)
       \/ QuotaExhausted(r) \/ Leave(r) \/ Decide(r) \/ GiveUp(r)
  \/ Tick

Spec == Init /\ [][Next]_vars

-----------------------------------------------------------------------------
(* The affinity map never grows past its bound, dead pins included,        *)
(* whatever sessions come, expire and are evicted (router_tests.rs:430).   *)
AffinityBounded == Cardinality(DOMAIN affinity) <= MaxAffinity

(* A session is pinned only to a route that answered one of its own        *)
(* requests at the first try: neither a request that failed over nor       *)
(* another session leaves a pin (docs/routing.md:267-269).                 *)
PinEarned ==
  \A s \in DOMAIN affinity : <<s, affinity[s].route>> \in earned

(* Pins of one session survive what happens to the others: a pin goes when *)
(* it expires, when a request of its session fails, when a request of any  *)
(* session finds its account exhausted or its route refused, or when it is *)
(* the oldest of a full map and a session new to the map pins.             *)
OwnFailure(r, s) ==
  SessionOf[r] = s /\ pc[r] \in {"dialing", "next_attempt"} /\ pc'[r] # pc[r]

Condemns(r, s) ==
  /\ Rejected(r) \/ NotFound(r) \/ QuotaExhausted(r)
  /\ target[r].group = affinity[s].route[2]
  /\ QuotaExhausted(r) \/ target[r].model = affinity[s].route[1]

Displaces(r, s) ==
  /\ NoteSessionRoute(r)
  /\ SessionOf[r] \notin Live
  /\ Cardinality(Live) = MaxAffinity /\ s \in Oldest

PinLostForCause ==
  [][\A s \in DOMAIN affinity \ DOMAIN affinity' :
       \/ affinity[s].left = 0
       \/ \E r \in Requests :
            OwnFailure(r, s) \/ Condemns(r, s) \/ Displaces(r, s)]_vars
=============================================================================
