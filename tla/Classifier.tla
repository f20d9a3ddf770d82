----------------------------- MODULE Classifier -----------------------------
(***************************************************************************)
(* What an error response of the upstream is taken for, and how long it    *)
(* asks the proxy to wait: classify_upstream_error() and retry_hint()      *)
(* (src/src/rate_limit.rs).                                                *)
(*                                                                         *)
(* A response is its status, whether its message has one of the phrases    *)
(* that mean an exhausted quota, and the waiting times that its header,    *)
(* its JSON fields and its text spell out.                                 *)
(***************************************************************************)
EXTENDS Cooldowns

CONSTANT Fallback    \* retry.rate_limit_fallback_initial_secs

ASSUME FallbackAssumption == Fallback \in Nat

NoHint == -1
Hints == Nat \cup {NoHint}

ResponseType ==
  [status : 100 .. 599, quota : BOOLEAN,
   header : Hints, structured : Hints, text : Hints]

Class(x) ==
  CASE x.status = 429 -> IF x.quota THEN "quota" ELSE "rate_limited"
    [] x.status = 401 -> "rejected"
    [] x.status = 403 -> "forbidden"
    [] x.status = 404 -> "not_found"
    [] x.status \in {400, 405, 413, 422} -> "invalid"
    [] x.status \in {408, 500, 502, 503, 504} -> "overloaded"
    [] OTHER -> IF x.quota THEN "quota" ELSE "unknown"

(* duration_with_cap(): an absurd time is as good as none. *)
Parsed(hint) == IF hint > MaxParsed THEN NoHint ELSE hint

(* The sources in the order they are asked. *)
HintSource(x) ==
  IF Parsed(x.header) # NoHint THEN "header"
  ELSE IF Parsed(x.structured) # NoHint THEN "structured"
  ELSE IF Parsed(x.text) # NoHint THEN "text"
  ELSE "fallback"

HintOf(x) ==
  LET source == HintSource(x)
  IN  IF source = "fallback" THEN Lesser(Fallback, MaxParsed) ELSE x[source]

(* Only a 429 or a quota signal gets one; of a 429 the fallback does not   *)
(* count as a hint, and the ladder decides.                                *)
Authoritative(x) == HintSource(x) # "fallback"
=============================================================================
