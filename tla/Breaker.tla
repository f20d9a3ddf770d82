------------------------------ MODULE Breaker ------------------------------
(***************************************************************************)
(* The data of the proxy-wide circuit breaker (src/src/circuit.rs) and its *)
(* operations, each of which the code performs under one mutex.            *)
(*                                                                         *)
(* Instants are modelled by what the code computes from them: open_until   *)
(* by the ticks left until it, an overload timestamp by its age in ticks.  *)
(* Of overload_timestamps only the OverloadThreshold-1 most recent entries *)
(* matter, so recent[i] is the age of the i-th most recent one, and        *)
(* OverloadWindow + 1 stands for "none, or too old to be retained".        *)
(***************************************************************************)
EXTENDS Clock

CONSTANTS
  OverloadThreshold,   \* circuit.overload_threshold
  OverloadWindow,      \* circuit.overload_window_secs, in ticks
  OverloadOpen,        \* circuit.overload_open_secs, in ticks
  QuotaOpen            \* the capped quota cooldowns an upstream can ask for

ASSUME BreakerAssumption ==
  /\ OverloadThreshold \in Nat \ {0}
  /\ OverloadWindow \in Nat \ {0}
  /\ OverloadOpen \in Nat \ {0}
  /\ QuotaOpen \subseteq Nat

Absent == Forgotten(OverloadWindow)

Slots == 1 .. OverloadThreshold - 1

NoEvidence == [i \in Slots |-> Absent]

OpenReasons == {"none", "quota_exhausted", "probe_failed", "overload"}

CircuitType ==
  [state : {"Closed", "Open", "HalfOpen"},
   timer : Nat,
   reason : OpenReasons,
   recent : [Slots -> 0 .. Absent],
   probe : BOOLEAN]

NewCircuit ==
  [state |-> "Closed", timer |-> 0, reason |-> "none",
   recent |-> NoEvidence, probe |-> FALSE]

(* One tick of the clock the instants are compared with. *)
CircuitAged(c) ==
  [c EXCEPT !.timer = Decrement(@),
            !.recent = [i \in Slots |-> Older(c.recent[i], OverloadWindow)]]

(* Whether admit() answers Allowed, and the breaker it leaves behind. *)
AdmitsBeforeReset(c) == c.state = "HalfOpen" => ~c.probe
Admits(c) ==
  \/ c.state = "Closed"
  \/ c.state = "Open" /\ c.timer = 0
  \/ c.state = "HalfOpen" /\ ~c.probe

AfterAdmit(c) ==
  IF c.state = "Closed"
  THEN c
  ELSE [c EXCEPT !.state = "HalfOpen", !.probe = TRUE]

AfterSuccessKeepingEvidence(c) ==
  [c EXCEPT !.state = "Closed", !.probe = FALSE]
AfterSuccess(c) ==
  [c EXCEPT !.state = "Closed", !.probe = FALSE, !.recent = NoEvidence]

AfterQuota(c, d) ==
  [c EXCEPT !.state = "Open", !.timer = d, !.reason = "quota_exhausted",
            !.probe = FALSE]

(* record_overload: the failure joins the window; a half-open circuit, or  *)
(* one whose window now holds OverloadThreshold failures, (re)opens.       *)
WindowFull(c) ==
  \/ OverloadThreshold = 1
  \/ c.recent[OverloadThreshold - 1] <= OverloadWindow

WithFailure(c) ==
  [i \in Slots |-> IF i = 1 THEN 0 ELSE c.recent[i - 1]]

AfterOverloadKeepingProbe(c) ==
  IF c.state = "HalfOpen" \/ WindowFull(c)
  THEN [c EXCEPT !.state = "Open", !.timer = OverloadOpen,
                 !.reason = "overload", !.recent = NoEvidence]
  ELSE [c EXCEPT !.recent = WithFailure(c), !.probe = FALSE]
AfterOverload(c) ==
  IF c.state = "HalfOpen" \/ WindowFull(c)
  THEN [c EXCEPT !.state = "Open",
                 !.timer = OverloadOpen,
                 !.reason = IF c.state = "HalfOpen" THEN "probe_failed"
                                                    ELSE "overload",
                 !.recent = NoEvidence,
                 !.probe = FALSE]
  ELSE [c EXCEPT !.recent = WithFailure(c), !.probe = FALSE]

AfterNeutralKeepingProbe(c) == c
AfterNeutral(c) == [c EXCEPT !.probe = FALSE]

(* state(): a read that performs the Open -> HalfOpen transition. *)
Observed(c) ==
  IF c.state = "Open" /\ c.timer = 0
  THEN [c EXCEPT !.state = "HalfOpen", !.probe = FALSE]
  ELSE c
=============================================================================
