----------------------------- MODULE EmsService -----------------------------
(***************************************************************************)
(* What EmsGate promises its callers: EMS calls are made one at a time,    *)
(* each at most once, each no sooner than the minimum interval after the   *)
(* one before; a caller gets the outcome of its own call or a              *)
(* cancellation, and only once.                                            *)
(***************************************************************************)
EXTENDS Integers

CONSTANTS
  Requests,      \* calls to gate.run, each made once
  MinInterval    \* EmsSettings.min_interval, in ticks

VARIABLES
  call,    \* "none", "waiting", "inflight" or "over"
  reply,   \* what the caller has: "none", "result", "error", "cancelled"
  rest     \* ticks since the last call ended, capped

vars == <<call, reply, rest>>

InFlight == {r \in Requests : call[r] = "inflight"}

Ask(r) ==
  /\ call[r] = "none"
  /\ call' = [call EXCEPT ![r] = "waiting"]
  /\ UNCHANGED <<reply, rest>>

Abandon(r) ==
  /\ call[r] # "none" /\ reply[r] = "none"
  /\ reply' = [reply EXCEPT ![r] = "cancelled"]
  /\ UNCHANGED <<call, rest>>

Send(r) ==
  /\ call[r] = "waiting" /\ InFlight = {} /\ rest = MinInterval
  /\ call' = [call EXCEPT ![r] = "inflight"]
  /\ UNCHANGED <<reply, rest>>

Answer(r, outcome) ==
  /\ call[r] = "inflight"
  /\ call' = [call EXCEPT ![r] = "over"]
  /\ reply' = [reply EXCEPT ![r] = IF @ = "none" THEN outcome ELSE @]
  /\ rest' = 0

\* A call nobody waits for any more need not be made.
Discard(r) ==
  /\ call[r] = "waiting" /\ reply[r] = "cancelled"
  /\ call' = [call EXCEPT ![r] = "over"]
  /\ UNCHANGED <<reply, rest>>

\* The gate's worker is cancelled with this call in its hands.
Lose(r) ==
  /\ call[r] \in {"waiting", "inflight"}
  /\ call' = [call EXCEPT ![r] = "over"]
  /\ reply' = [reply EXCEPT ![r] = IF @ = "none" THEN "cancelled" ELSE @]
  /\ rest' = 0

Rest ==
  /\ rest < MinInterval /\ rest' = rest + 1
  /\ UNCHANGED <<call, reply>>

Init ==
  /\ call = [r \in Requests |-> "none"]
  /\ reply = [r \in Requests |-> "none"]
  /\ rest = MinInterval

Next ==
  \/ \E r \in Requests :
       \/ Ask(r) \/ Abandon(r) \/ Send(r) \/ Discard(r) \/ Lose(r)
       \/ \E outcome \in {"result", "error"} : Answer(r, outcome)
  \/ Rest

Spec == Init /\ [][Next]_vars
=============================================================================
