---------------------------- MODULE EmsTransport ----------------------------
(***************************************************************************)
(* What EmsTransport makes of a reply of EMS (ems_transport.py), for the   *)
(* one base URL that CloudAccount gives it (cloud.py 246).                 *)
(***************************************************************************)
EXTENDS Integers

\* A body holds JSON, a message of EMS, the page of its firewall, or other text.
Messages == {"token", "rate", "offline"}
Statuses == {200, 403, 417, 429, 500, 503}
Replies == [status : Statuses, body : {"json", "denied", "text"} \cup Messages]
NoReplies == [status : {0}, body : {"timeout", "broken"}]

Outcomes == {"ok", "auth", "offline", "rate", "timeout", "api"}

\* _is_waf_block
FirewallBlocks(reply) == reply.status \in {403, 503} /\ reply.body = "denied"

\* The base is blocked for a while.
Limits(reply) ==
  reply.status # 200 /\ (reply.body = "rate" \/ reply.status = 429 \/ FirewallBlocks(reply))

\* Mutant: a rate limit is taken for an expired token.
LimitIsToken(reply, cooling) ==
  IF reply \in NoReplies THEN "api"
  ELSE IF reply.body \in {"token", "rate"} THEN "auth"
  ELSE IF reply.status = 200 /\ reply.body = "json" THEN "ok" ELSE "api"

\* Mutant: a body that is JSON is the answer, whatever the status is.
OutcomeUnchecked(reply, cooling) ==
  IF reply.body = "json" THEN "ok" ELSE LimitIsToken(reply, cooling)

\* _request_once: the body tells an expired token whatever the status is, other
\* troubles only when it is not 200; no answer, or a base that has just been
\* blocked, counts as rate limited while the base is blocked.
Outcome(reply, cooling) ==
  IF reply \in NoReplies
  THEN IF cooling THEN "rate" ELSE IF reply.body = "timeout" THEN "timeout" ELSE "api"
  ELSE IF reply.body = "token" THEN "auth"
  ELSE IF reply.status = 200
       THEN IF reply.body \in {"text", "denied"} THEN "api" ELSE "ok"
  ELSE IF reply.body = "offline" THEN "offline"
  ELSE IF Limits(reply) THEN "rate" ELSE "api"
=============================================================================
