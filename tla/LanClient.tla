----------------------------- MODULE LanClient ------------------------------
(***************************************************************************)
(* SOAP requests of TaiSeiaClient (taiseia.py): every request of every     *)
(* entry takes a slot of one semaphore around each attempt, attempts that  *)
(* fail in transport are repeated after a pause that holds no slot, and a  *)
(* change of the limit puts a new semaphore in the old one's place.        *)
(***************************************************************************)
EXTENDS Integers, Sequences, FiniteSets

CONSTANTS
  Tasks,      \* tasks that send requests
  Retries,    \* attempts per request
  Settings,   \* what the form or the settings file may ask for as max_concurrent
  MaxSems     \* bound on semaphores

Clamped(n) == IF n < 1 THEN 1 ELSE IF n > 8 THEN 8 ELSE n

ASSUME LanAssumption ==
  /\ Retries \in Nat \ {0} /\ MaxSems \in Nat \ {0}
  /\ Settings \subseteq Int /\ IsFiniteSet(Tasks)

VARIABLES
  host,       \* the module: "up", "silent" (opens its port only) or "off"
  sems,       \* the semaphores, the last being _LAN_SEM
  lan,        \* each task's request
  allowance   \* history: requests that the limits chosen so far allow at once

lanVars == <<host, sems, lan, allowance>>

NoRequest == [at |-> "none", attempt |-> 0, sem |-> 0]
Current == Len(sems)
Limit == sems[Current].limit   \* _LAN_SEM_LIMIT
\* Mutant: a request keeps its slot while it pauses and tries again.
Retained ==
  {t \in Tasks : lan[t].at \in {"posted", "backoff"} \/ (lan[t].at = "queued" /\ lan[t].attempt > 1)}

Posted == {t \in Tasks : lan[t].at = "posted"}
Holders(g) == {t \in Posted : lan[t].sem = g}
Busy == \E t \in Tasks : lan[t].at \in {"queued", "posted"}

LanTypeOK ==
  /\ host \in {"up", "silent", "off"}
  /\ sems \in Seq([limit : 1..8, queue : Seq(Tasks)]) /\ Len(sems) \in 1..MaxSems
  /\ lan \in [Tasks -> {NoRequest} \cup [at : {"queued", "posted", "backoff"},
                                         attempt : 1..Retries, sem : 1..MaxSems]]
  /\ allowance \in Nat

LanInit ==
  /\ host \in {"up", "silent", "off"}
  /\ \E n \in Settings : sems = <<[limit |-> Clamped(n), queue |-> <<>>]>>
  /\ lan = [t \in Tasks |-> NoRequest]
  /\ allowance = Limit

-----------------------------------------------------------------------------
(* A request: async_set_saanet *)

\* The next attempt waits for a slot of the semaphore of the moment.
Queue(t, attempt) ==
  /\ lan' = [lan EXCEPT ![t] = [at |-> "queued", attempt |-> attempt, sem |-> Current]]
  /\ sems' = [sems EXCEPT ![Current].queue = Append(@, t)]
  /\ UNCHANGED <<host, allowance>>

LanStart(t) == lan[t].at = "none" /\ Queue(t, 1)
LanRetry(t) == lan[t].at = "backoff" /\ Queue(t, lan[t].attempt + 1)

Post(t) ==
  /\ lan[t].at = "queued"
  /\ LET g == lan[t].sem
     IN  /\ Head(sems[g].queue) = t /\ Cardinality(Holders(g)) < sems[g].limit
         /\ sems' = [sems EXCEPT ![g].queue = Tail(@)]
  /\ lan' = [lan EXCEPT ![t].at = "posted"]
  /\ UNCHANGED <<host, allowance>>

\* Mutant: the last attempt is repeated too.
RepeatsLast(t) == lan[t].attempt <= Retries

\* No answer: the request is given up, and repeated if attempts are left.
Repeats(t) == lan[t].attempt < Retries
LanBackoff(t) ==
  /\ lan[t].at = "posted" /\ Repeats(t)
  /\ lan' = [lan EXCEPT ![t].at = "backoff"]
  /\ UNCHANGED <<host, sems, allowance>>

\* The request ends: answered, rejected (or not a TaiSEIA frame), answered
\* with what is no hex, or the last attempt fails in transport.
LanEnds(t, result) ==
  /\ lan[t].at = "posted" /\ lan' = [lan EXCEPT ![t] = NoRequest]
  /\ IF result = "transport" THEN ~Repeats(t) ELSE host = "up"
  /\ UNCHANGED <<host, sems, allowance>>

LanResults == {"ok", "rejected", "other", "transport"}

-----------------------------------------------------------------------------
(* Settings and surroundings *)

Allow(limit, more) ==
  allowance' = IF ~Busy THEN limit ELSE IF more THEN allowance + limit ELSE allowance

\* Mutant: each client that is set up makes a semaphore.
ConfigureAlways(n) ==
  /\ Len(sems) < MaxSems
  /\ sems' = Append(sems, [limit |-> Clamped(n), queue |-> <<>>])
  /\ Allow(Clamped(n), Clamped(n) # Limit)
  /\ UNCHANGED <<host, lan>>

\* configure_lan_concurrency, which every client's setup and the settings call
Configure(n) ==
  /\ Len(sems) < MaxSems /\ Clamped(n) # Limit
  /\ sems' = Append(sems, [limit |-> Clamped(n), queue |-> <<>>])
  /\ Allow(Clamped(n), TRUE)
  /\ UNCHANGED <<host, lan>>

HostChanges ==
  /\ host' \in {"up", "silent", "off"} \ {host}
  /\ UNCHANGED <<sems, lan, allowance>>
=============================================================================
