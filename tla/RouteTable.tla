----------------------------- MODULE RouteTable -----------------------------
(***************************************************************************)
(* The routing table (src/src/router.rs): the health of every key, route,  *)
(* quota group and model, what a scan of a profile's tiers selects from    *)
(* it, and what each outcome of an attempt marks in it.                    *)
(*                                                                         *)
(* The table is a record t, so that every operation is a function of it.   *)
(* The score that orders the ready candidates of one tier (load, streak,   *)
(* latency, affinity) is left open: any of them may be chosen.  Selection  *)
(* settles it.                                                             *)
(*                                                                         *)
(* A key goes by two numbers: its index in the configuration, which is     *)
(* what candidates and targets carry, and its position among the enabled   *)
(* keys, which is where the table keeps its state.                         *)
(***************************************************************************)
EXTENDS ModelEntry, Ordering, Sequences, FiniteSetsExt

CONSTANTS
  Models,           \* upstream models
  Pool,             \* sensenova_api_keys: group and enabled of each, in order
  Tiers,            \* the models of each tier of the profile, best first
  AllowLowerTier,   \* allow_lower_tier_on_unavailable of the profile
  Period,           \* a common multiple of the numbers of keys of a group
  RouteCooldowns,   \* results of barrier_duration, in ticks
  KeyStep           \* HEALTHY_ROUTE_STEP, in ticks

Indexes == DOMAIN Pool

(* RouteTable::new(): the indices of the enabled keys, in order. *)
EntriesEvenDisabled == [i \in Indexes |-> i]
Entries == InOrder({i \in Indexes : Pool[i].enabled})

Keys == DOMAIN Entries

KeysOf ==
  [g \in Groups |-> InOrder({i \in Range(Entries) : Pool[i].group = g})]

ASSUME TableAssumption ==
  /\ Models # {}
  /\ Pool \in Seq([group : Groups, enabled : BOOLEAN]) \ {<<>>}
  /\ \A g \in Groups : Len(KeysOf[g]) > 0 /\ Period % Len(KeysOf[g]) = 0
  /\ Tiers \in Seq(Seq(Models))
  /\ AllowLowerTier \in BOOLEAN
  /\ Period \in Nat \ {0}
  /\ RouteCooldowns \subseteq Nat \ {0}
  /\ KeyStep \in Nat \ {0}

Routes == Models \X Groups

(* RouteTarget: its identity() is what a request puts in skipped. *)
Targets == [model : Models, group : Groups, key : Indexes]
RouteOf(x) == <<x.model, x.group>>

TableType ==
  [keys : [Keys -> [cooling : Nat, unusable : BOOLEAN, inflight : Nat]],
   routes : [Routes -> [cooling : Nat, disabled : Nat]],
   groups : [Groups -> Nat],
   models : [Models -> ModelType]]

NewTable ==
  [keys |-> [k \in Keys |->
               [cooling |-> 0, unusable |-> FALSE, inflight |-> 0]],
   routes |-> [c \in Routes |-> [cooling |-> 0, disabled |-> 0]],
   groups |-> [g \in Groups |-> 0],
   models |-> [m \in Models |-> NewModel]]

TableAged(t) ==
  [keys |-> [k \in Keys |-> [t.keys[k] EXCEPT !.cooling = Decrement(@)]],
   routes |-> [c \in Routes |-> [t.routes[c] EXCEPT !.cooling = Decrement(@),
                                                    !.disabled = Decrement(@)]],
   groups |-> [g \in Groups |-> Decrement(t.groups[g])],
   models |-> [m \in Models |-> ModelAged(t.models[m])]]

-----------------------------------------------------------------------------
(* The one or two keys a candidate of group g may use: the rotation picks  *)
(* the first, and the next one is the fallback.                            *)
KeyChoices(g, rot) ==
  LET ks == KeysOf[g]
      At(i) == ks[(i % Len(ks)) + 1]
  IN  IF Len(ks) = 1 THEN <<At(rot)>> ELSE <<At(rot), At(rot + 1)>>

(* key_entry() takes the index for a position.                             *)
InTable(i) == i \in Keys

KeyReady(t, i) ==
  InTable(i) /\ ~t.keys[i].unusable /\ t.keys[i].cooling = 0

WithKey(t, i, Op(_)) ==
  [t EXCEPT !.keys = [k \in Keys |-> IF k = i THEN Op(t.keys[k]) ELSE t.keys[k]]]

Ready == [kind |-> "ready", wait |-> 0]
Waiting(d) == [kind |-> "waiting", wait |-> d]
HardBlocked == [kind |-> "blocked", wait |-> 0]

(* dialability(): the gates in the order the code asks them. *)
Dialability(t, c, rot) ==
  LET m == Viewed(t.models[c[1]])
      route == t.routes[c]
      choices == Range(KeyChoices(c[2], rot))
      anyReady == \E k \in choices : KeyReady(t, k)
      waits == {t.keys[k].cooling : k \in choices \cap Keys} \ {0}
  IN  IF m.disabled THEN HardBlocked
      ELSE IF m.state = "Open" THEN Waiting(m.timer)
      ELSE IF route.disabled > 0 THEN HardBlocked
      ELSE IF t.groups[c[2]] > 0 THEN Waiting(t.groups[c[2]])
      ELSE IF route.cooling > 0 /\ ~(m.state = "HalfOpen" /\ anyReady)
           THEN Waiting(route.cooling)
      ELSE IF ~Selectable(m) THEN HardBlocked
      ELSE IF anyReady THEN Ready
      ELSE IF waits # {} THEN Waiting(Min(waits))
      ELSE HardBlocked

IsReady(t, c, rot) == Dialability(t, c, rot).kind = "ready"

(* plan(): the candidates of tier i that this request has not used up, the *)
(* ready ones, and the waits of those that will be.                        *)
Offered(i, rot, skipped) ==
  {c \in Range(Tiers[i]) \X Groups :
     \E k \in Range(KeyChoices(c[2], rot)) :
       [model |-> c[1], group |-> c[2], key |-> k] \notin skipped}

ReadyIn(t, i, rot, skipped) ==
  {c \in Offered(i, rot, skipped) : IsReady(t, c, rot)}

WaitsIn(t, i, rot, skipped) ==
  {Dialability(t, c, rot).wait :
     c \in {d \in Offered(i, rot, skipped) :
              Dialability(t, d, rot).kind = "waiting"}}

(* A tier is passed by if nothing in it is ready, and waiting for it makes *)
(* no sense or the profile does not insist on it.                          *)
Scanned(t, rot, skipped) ==
  {i \in DOMAIN Tiers :
     \A j \in 1 .. i - 1 :
       /\ ReadyIn(t, j, rot, skipped) = {}
       /\ AllowLowerTier \/ WaitsIn(t, j, rot, skipped) = {}}

(* The scan looks at every model offered in the tiers it reaches. *)
Looked(t, rot, skipped) ==
  LET seen == UNION {{c[1] : c \in Offered(i, rot, skipped)} :
                       i \in Scanned(t, rot, skipped)}
  IN  [t EXCEPT !.models = [m \in Models |-> IF m \in seen
                                             THEN Viewed(t.models[m])
                                             ELSE t.models[m]]]

(* A candidate carries the keys it was scanned with: what target() makes   *)
(* of it may be made of another table, and after the counter moved on.     *)
Candidate(c, rot) == [route |-> c, keys |-> KeyChoices(c[2], rot)]

CandidateType == [route : Routes, keys : Seq(Indexes)]

(* The plans of a scan: a candidate, and the wait until the first          *)
(* alternative of its tier (0 if there is none).  No plan: the scan        *)
(* returns an error, with the least of the ErrorWaits if there is one.     *)
Plans(t, rot, skipped) ==
  UNION {LET waits == WaitsIn(t, i, rot, skipped)
         IN  {[candidate |-> Candidate(c, rot),
               wait |-> IF waits = {} THEN 0 ELSE Min(waits)] :
                c \in ReadyIn(t, i, rot, skipped)} :
           i \in Scanned(t, rot, skipped)}

ErrorWaits(t, rot, skipped) ==
  UNION {WaitsIn(t, i, rot, skipped) : i \in Scanned(t, rot, skipped)}

(* target() asks the keys again, skipped or not: the first that is ready   *)
(* now, or else the first, whatever became of it.                          *)
ReadyKeys(t, x) == {i \in DOMAIN x.keys : KeyReady(t, x.keys[i])}

KeyFoundUnasked(t, x) == x.keys[1]
KeyFound(t, x) ==
  x.keys[IF ReadyKeys(t, x) = {} THEN 1 ELSE Min(ReadyKeys(t, x))]

(* The entry at that position lends the target its own index. *)
TargetAt(x, i) ==
  [model |-> x.route[1], group |-> x.route[2], key |-> Entries[i]]

TargetOf(t, x) == TargetAt(x, KeyFound(t, x))

(* The targets target() may still make of a candidate. *)
TargetsOf(x) == {TargetAt(x, i) : i \in Range(x.keys) \cap Keys}

(* usable_route_count(), which looks at every model: is it 0? *)
AllLooked(t) ==
  [t EXCEPT !.models = [m \in Models |-> Viewed(t.models[m])]]

NoUsableRoute(t, rot) ==
  \A i \in DOMAIN Tiers : \A c \in Range(Tiers[i]) \X Groups :
    ~IsReady(t, c, rot)

-----------------------------------------------------------------------------
BeginAttempt(t, x) ==
  WithKey([t EXCEPT !.models[x.model] = AfterBegin(@)], x.key,
          LAMBDA k : [k EXCEPT !.inflight = @ + 1])

WithoutProbe(t, x, holds) ==
  [t EXCEPT !.models[x.model] = IF holds THEN Dropped(@) ELSE @]

GuardDroppedLeakingSlot(t, x, holds) ==
  IF holds
  THEN WithoutProbe(t, x, holds)
  ELSE WithKey(t, x.key, LAMBDA k : [k EXCEPT !.inflight = @ - 1])
GuardDropped(t, x, holds) ==
  WithKey(WithoutProbe(t, x, holds), x.key,
          LAMBDA k : [k EXCEPT !.inflight = IF @ = 0 THEN 0 ELSE @ - 1])

NoteSuccessEverywhere(t, x) ==
  WithKey([t EXCEPT !.routes[RouteOf(x)] = [cooling |-> 0, disabled |-> 0],
                    !.groups = [g \in Groups |-> 0],
                    !.models[x.model] = Served(@)],
          x.key, LAMBDA k : [k EXCEPT !.cooling = 0])
NoteSuccess(t, x) ==
  WithKey([t EXCEPT !.routes[RouteOf(x)] = [cooling |-> 0, disabled |-> 0],
                    !.groups[x.group] = 0,
                    !.models[x.model] = Served(@)],
          x.key, LAMBDA k : [k EXCEPT !.cooling = 0])

(* Generic 429: the route cools, and the model hears of the failure. *)
NoteRateLimitedWholeModel(t, x, d) ==
  [t EXCEPT !.routes = [c \in Routes |->
                          IF c[1] = x.model THEN [t.routes[c] EXCEPT !.cooling = d]
                          ELSE t.routes[c]],
            !.models[x.model] = AfterRouteFailure(@, x.group)]
NoteRateLimited(t, x, d) ==
  [t EXCEPT !.routes[RouteOf(x)].cooling = d,
            !.models[x.model] = AfterRouteFailure(@, x.group)]

(* Explicit quota exhaustion: the group and each of its keys cool. *)
NoteQuotaEverywhere(t, x, d) ==
  [t EXCEPT !.groups[x.group] = d,
            !.keys = [k \in Keys |-> [t.keys[k] EXCEPT !.cooling = d]]]
NoteQuotaExhausted(t, x, d) ==
  [t EXCEPT !.groups[x.group] = d,
            !.keys = [k \in Keys |-> IF Pool[Entries[k]].group = x.group
                                     THEN [t.keys[k] EXCEPT !.cooling = d]
                                     ELSE t.keys[k]]]

NoteRejected(t, x) ==
  WithKey(t, x.key, LAMBDA k : [k EXCEPT !.unusable = TRUE, !.cooling = 0])

NoteMissing(t, x) ==
  [t EXCEPT !.routes[RouteOf(x)].disabled = MissingCooldown,
            !.models[x.model] = AfterMissing(@, x.group)]

(* Transient failures: the KEY cools, briefly, if another account has one. *)
HasAlternatives(x) ==
  \E i \in Range(Entries) : i # x.key /\ Pool[i].group # x.group

TransientCooldown(x, d) ==
  IF HasAlternatives(x) THEN Min({d, KeyStep}) ELSE d

NoteTransient(t, x, d) ==
  WithKey([t EXCEPT !.models[x.model] = AfterRouteFailure(@, x.group)], x.key,
          LAMBDA k : [k EXCEPT !.cooling = IF HasAlternatives(x)
                                           THEN TransientCooldown(x, d) ELSE @])
=============================================================================
