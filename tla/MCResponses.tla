---------------------------- MODULE MCResponses ----------------------------
(* The responses, and the cooldowns that can come of them.                 *)
EXTENDS MCSendMessages, Responses

Response(status, quota, header, text) ==
  [status |-> status, quota |-> quota, header |-> header,
   structured |-> NoHint, text |-> text]

Silent == Response(429, FALSE, NoHint, NoHint)

(* Retry-After within, between and beyond the caps. *)
SomeResponses ==
  {Silent,
   Response(429, FALSE, 5, NoHint),
   Response(429, FALSE, 99, 2),
   Response(429, TRUE, 5, NoHint),
   Response(529, TRUE, NoHint, NoHint),
   Response(401, FALSE, NoHint, NoHint),
   Response(403, FALSE, NoHint, NoHint),
   Response(404, FALSE, NoHint, NoHint),
   Response(418, FALSE, NoHint, NoHint)}

AnyOutcome == OutcomeKinds
LadderOrHint == {1, 2, 3, 5}
=============================================================================
