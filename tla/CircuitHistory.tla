--------------------------- MODULE CircuitHistory ---------------------------
(***************************************************************************)
(* The openings of the breaker.  It clears its record of overloads when it *)
(* opens and overwrites its instants, so what an opening must answer to is *)
(* kept here in two history variables, which no step depends on.           *)
(***************************************************************************)
EXTENDS CircuitBreaker

VARIABLES
  lately,   \* ages of the last overloads reported since the last answer
  late      \* attempts in flight since before the breaker went Open

historyVars == <<circuit, pc, attempt, probing, lately, late>>

HistoryInit == Init /\ lately = NoEvidence /\ late = {}

(* The OverloadThreshold-1 most recent ones, whether the breaker opened    *)
(* since or not.                                                           *)
Reported == [i \in Slots |-> IF i = 1 THEN 0 ELSE lately[i - 1]]

Elapsed == [i \in Slots |-> Older(lately[i], OverloadWindow)]

Remembered ==
  late' = IF circuit.state # "Open" /\ circuit'.state = "Open"
          THEN Dialing' ELSE late \cap Dialing'

HistoryNext ==
  /\ \/ \E r \in Requests :
          \/ Answered(r) /\ lately' = NoEvidence
          \/ Overloaded(r) /\ lately' = Reported
          \/ /\ \/ Arrive(r) \/ NoRoute(r) \/ Refuse(r) \/ Dial(r) \/ Neutral(r)
                \/ QuotaExhausted(r) \/ NotReported(r) \/ Cancel(r)
             /\ UNCHANGED lately
     \/ Probe /\ UNCHANGED lately
     \/ Tick /\ lately' = Elapsed
  /\ Remembered

HistorySpec == HistoryInit /\ [][HistoryNext]_historyVars

FairHistorySpec == HistorySpec /\ Fairness

-----------------------------------------------------------------------------
(* The overload being reported is the last of OverloadThreshold reported   *)
(* within the window, with no answer among them.                           *)
Sustained ==
  OverloadThreshold = 1 \/ lately[OverloadThreshold - 1] <= OverloadWindow

(* Unless a probe failed, overload opens the breaker if and only if it is  *)
(* sustained: evidence from before the last answer or out of the window    *)
(* does not count, whichever openings, quota signals and late reports came *)
(* between, and none that counts is lost (circuit.rs:6, 128-130).          *)
Restarted ==
  <<circuit'.state, circuit'.timer, circuit'.reason>>
    # <<circuit.state, circuit.timer, circuit.reason>>

OpensOnSustainedOverload ==
  [][\A r \in Requests :
       Overloaded(r) /\ circuit.state # "HalfOpen"
         => /\ Restarted => Sustained
            /\ circuit.state = "Closed" /\ Sustained => circuit'.state = "Open"]_historyVars

(* An opening is cut short only by what an attempt from before it reports  *)
(* late: nobody dials into it, so none that began later can, and nothing   *)
(* but time turns it half open (circuit.rs:5 "requests fail fast until the *)
(* cooldown elapses").                                                     *)
CutShort ==
  /\ circuit.state = "Open" /\ circuit.timer > 0
  /\ circuit'.state # "Open" \/ circuit'.timer < Decrement(circuit.timer)

CutShortByLateReport ==
  [][CutShort => /\ circuit'.state # "HalfOpen"
                 /\ \E r \in late : r \notin Dialing']_historyVars
=============================================================================
