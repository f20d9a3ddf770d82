------------------------------ MODULE Cooldowns ------------------------------
(***************************************************************************)
(* How long a failure keeps a route, key or account out of service:        *)
(* barrier_duration() and its caps (src/src/router.rs).                    *)
(*                                                                         *)
(* Durations are ticks, of which the least positive stands for the code's  *)
(* millisecond.  The jitter is free in the range the code gives it.        *)
(***************************************************************************)
EXTENDS Integers

CONSTANTS
  Initial,     \* routing.route_cooldown_initial_secs
  LadderMax,   \* routing.route_cooldown_max_secs
  HintMax,     \* routing.max_model_cooldown_secs
  QuotaMax,    \* circuit.max_quota_cooldown_secs
  MaxWait,     \* MAX_ROUTE_WAIT
  MaxParsed,   \* MAX_PARSED_COOLDOWN
  MaxShift     \* BACKOFF_MAX_SHIFT

ASSUME CooldownAssumption ==
  /\ {Initial, LadderMax, HintMax, QuotaMax, MaxWait, MaxParsed}
       \subseteq Nat \ {0}
  /\ MaxShift \in Nat
  /\ \A step \in 0 .. MaxShift : 2^step \in Nat \ {0}

Lesser(a, b) == IF a <= b THEN a ELSE b
Greater(a, b) == IF a >= b THEN a ELSE b
Clamped(x, low, high) == Greater(low, Lesser(x, high))

LadderCeiling == Greater(Lesser(LadderMax, MaxWait), 1)
HintCeiling == Greater(Lesser(HintMax, MaxWait), 1)
QuotaCeiling == Greater(Lesser(Lesser(QuotaMax, MaxWait), MaxParsed), 1)

(* The rung an attempt stands on, counted from 0, and its length.          *)
Step(attempt, streak) == Lesser(Greater(attempt - 1, streak), MaxShift)

Base(step) == Lesser(Greater(Initial, 1) * 2^step, LadderCeiling)

(* The ladder, jittered by less than half upwards and cut at the ceiling.  *)
LadderDurations(attempt, streak) ==
  LET base == Base(Step(attempt, streak))
  IN  {Clamped(base + extra, 1, LadderCeiling) : extra \in 0 .. (base - 1) \div 2}

(* An authoritative hint supersedes the ladder. *)
HintDurationOnLadder(hint) == Clamped(hint, 1, LadderCeiling)
HintDurationUncapped(hint) == Greater(hint, 1)
HintDuration(hint) == Clamped(hint, 1, HintCeiling)

(* cap_cooldown(), for quota exhaustion. *)
QuotaDuration(hint) == Greater(Lesser(hint, QuotaCeiling), 1)
=============================================================================
