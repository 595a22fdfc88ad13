------------------------------ MODULE EmsGate -------------------------------
(***************************************************************************)
(* EmsGate (ems_transport.py): one process-wide priority queue of EMS      *)
(* calls, drained by a worker task that exits when idle and is started     *)
(* again by the next call.  Worker tasks are modelled one by one, so that  *)
(* "one at a time" is something the code has to achieve.                   *)
(*                                                                         *)
(* Steps run from one await to the next.  Neither unbounded Queue.put nor  *)
(* an uncontended Lock suspends, so run() is one step up to "await fut".   *)
(***************************************************************************)
EXTENDS Integers, FiniteSets

CONSTANTS
  User, Normal, Background,   \* the calls to run(), by priority
  Workers,                    \* identities of worker tasks
  NoWorker, NoRequest,
  MinInterval,                \* EmsSettings.min_interval, in ticks
  MayKill                     \* may a worker task be cancelled? a subset of {TRUE}

Requests == User \cup Normal \cup Background

ASSUME GateAssumption ==
  /\ User \cap Normal = {} /\ User \cap Background = {} /\ Normal \cap Background = {}
  /\ NoWorker \notin Workers /\ NoRequest \notin Requests
  /\ MinInterval \in Nat

VARIABLES
  queue,      \* requests in _queue
  seq,        \* _seq
  seqOf,      \* the sequence number in a request's queue item
  fut,        \* the caller's future: "none", "pending", "result", "error", "cancelled"
  worker,     \* _worker
  wpc, job, gap,   \* per worker task: where it is, its request, sleep left
  rest,       \* ticks since _last_done, capped at MinInterval
  killed,     \* history: a worker was cancelled since the last call to run()
  late,       \* history: lower-priority calls made while a request queued
  cancelledIn \* history: where a request was when its caller gave up

taskVars == <<worker, wpc, job, gap>>
histVars == <<killed, late, cancelledIn>>
vars == <<queue, seq, seqOf, fut, taskVars, rest, histVars>>

WorkerLabels == {"dead", "loop", "getting", "timedout", "spacing", "running"}
Futures == {"none", "pending", "result", "error", "cancelled"}

TypeOK ==
  /\ queue \subseteq Requests /\ seq \in Nat
  /\ seqOf \in [Requests -> Nat] /\ fut \in [Requests -> Futures]
  /\ worker \in Workers \cup {NoWorker}
  /\ wpc \in [Workers -> WorkerLabels]
  /\ job \in [Workers -> Requests \cup {NoRequest}]
  /\ gap \in [Workers -> 0..MinInterval]
  /\ rest \in 0..MinInterval
  /\ killed \in BOOLEAN /\ late \in [Requests -> Nat]
  /\ cancelledIn \in [Requests -> {"nowhere", "queue", "worker"}]

\* RequestPriority
Rank(r) == IF r \in User THEN 2 ELSE IF r \in Normal THEN 1 ELSE 0

\* Order of the items (-priority, seq, ...) in the PriorityQueue.
Before(r, q) == Rank(r) > Rank(q) \/ (Rank(r) = Rank(q) /\ seqOf[r] < seqOf[q])

IsHead(r) == r \in queue /\ \A q \in queue \ {r} : Before(r, q)

-----------------------------------------------------------------------------
(* Callers *)

\* Mutant: the pointer is trusted even when its task has died.
EnsureWorkerTrusting ==
  IF worker # NoWorker
  THEN UNCHANGED <<worker, wpc>>
  ELSE \E w \in Workers :
         /\ wpc[w] = "dead"
         /\ worker' = w /\ wpc' = [wpc EXCEPT ![w] = "loop"]

\* _ensure_worker
EnsureWorker ==
  IF worker # NoWorker /\ wpc[worker] # "dead"
  THEN UNCHANGED <<worker, wpc>>
  ELSE \E w \in Workers :
         /\ wpc[w] = "dead"
         /\ worker' = w /\ wpc' = [wpc EXCEPT ![w] = "loop"]

\* run(), up to "await fut"
Run(r) ==
  /\ fut[r] = "none"
  /\ fut' = [fut EXCEPT ![r] = "pending"]
  /\ seq' = seq + 1 /\ seqOf' = [seqOf EXCEPT ![r] = seq + 1]
  /\ queue' = queue \cup {r}
  /\ EnsureWorker
  /\ killed' = FALSE
  /\ UNCHANGED <<job, gap, rest, late, cancelledIn>>

\* The caller's task is cancelled (a setup at its deadline, an unload).
CancelCaller(r) ==
  /\ fut[r] = "pending"
  /\ fut' = [fut EXCEPT ![r] = "cancelled"]
  /\ cancelledIn' = [cancelledIn EXCEPT ![r] = IF r \in queue THEN "queue" ELSE "worker"]
  /\ UNCHANGED <<queue, seq, seqOf, taskVars, rest, killed, late>>

-----------------------------------------------------------------------------
(* The worker task: _worker_loop *)

\* A lower-priority call made while others wait.
Overtakes(r) == late' = [q \in Requests |->
  IF q \in queue /\ Rank(q) > Rank(r) THEN late[q] + 1 ELSE late[q]]

\* Mutant: the queue is first in, first out.
TakeOldest(w) ==
  /\ wpc[w] \in {"loop", "getting"}
  /\ \E r \in queue :
       /\ \A q \in queue : seqOf[r] <= seqOf[q]
       /\ queue' = queue \ {r}
       /\ IF fut[r] = "cancelled"
          THEN /\ wpc' = [wpc EXCEPT ![w] = "loop"]
               /\ UNCHANGED <<job, gap, late>>
          ELSE /\ job' = [job EXCEPT ![w] = r]
               /\ gap' = [gap EXCEPT ![w] = MinInterval - rest]
               /\ IF rest = MinInterval
                  THEN wpc' = [wpc EXCEPT ![w] = "running"] /\ Overtakes(r)
                  ELSE wpc' = [wpc EXCEPT ![w] = "spacing"] /\ UNCHANGED late
  /\ UNCHANGED <<seq, seqOf, fut, worker, rest, killed, cancelledIn>>

\* queue.get() returns; the call is made at once when no sleep is due.
Take(w) ==
  /\ wpc[w] \in {"loop", "getting"}
  /\ \E r \in Requests :
       /\ IsHead(r)
       /\ queue' = queue \ {r}
       /\ IF fut[r] = "cancelled"
          THEN /\ wpc' = [wpc EXCEPT ![w] = "loop"]
               /\ UNCHANGED <<job, gap, late>>
          ELSE /\ job' = [job EXCEPT ![w] = r]
               /\ gap' = [gap EXCEPT ![w] = MinInterval - rest]
               /\ IF rest = MinInterval
                  THEN wpc' = [wpc EXCEPT ![w] = "running"] /\ Overtakes(r)
                  ELSE wpc' = [wpc EXCEPT ![w] = "spacing"] /\ UNCHANGED late
  /\ UNCHANGED <<seq, seqOf, fut, worker, rest, killed, cancelledIn>>

Wait(w) ==
  /\ wpc[w] = "loop" /\ queue = {}
  /\ wpc' = [wpc EXCEPT ![w] = "getting"]
  /\ UNCHANGED <<queue, seq, seqOf, fut, worker, job, gap, rest, histVars>>

\* wait_for's 50 ms pass; a call may slip in before the task runs again.
TimesOut(w) ==
  /\ wpc[w] = "getting"
  /\ wpc' = [wpc EXCEPT ![w] = "timedout"]
  /\ UNCHANGED <<queue, seq, seqOf, fut, worker, job, gap, rest, histVars>>

\* Mutant: the worker leaves without looking at the queue again.
LeaveAtOnce(w) ==
  /\ wpc[w] = "timedout"
  /\ wpc' = [wpc EXCEPT ![w] = "dead"] /\ worker' = NoWorker
  /\ UNCHANGED <<queue, seq, seqOf, fut, job, gap, rest, histVars>>

\* The exit check under _ensure_lock.
Leave(w) ==
  /\ wpc[w] = "timedout"
  /\ IF queue = {}
     THEN wpc' = [wpc EXCEPT ![w] = "dead"] /\ worker' = NoWorker
     ELSE wpc' = [wpc EXCEPT ![w] = "loop"] /\ UNCHANGED worker
  /\ UNCHANGED <<queue, seq, seqOf, fut, job, gap, rest, histVars>>

Start(w) ==
  /\ wpc[w] = "spacing" /\ gap[w] = 0
  /\ wpc' = [wpc EXCEPT ![w] = "running"]
  /\ Overtakes(job[w])
  /\ UNCHANGED <<queue, seq, seqOf, fut, worker, job, gap, rest, killed, cancelledIn>>

\* "if not fut.done()": a caller that gave up gets nothing.
Resolved(r, outcome) ==
  fut' = [fut EXCEPT ![r] = IF @ = "pending" THEN outcome ELSE @]

\* Mutant: _last_done is stamped when the call begins, so not here.
FinishUnstamped(w, outcome) ==
  /\ wpc[w] = "running"
  /\ Resolved(job[w], outcome)
  /\ wpc' = [wpc EXCEPT ![w] = "loop"] /\ job' = [job EXCEPT ![w] = NoRequest]
  /\ UNCHANGED <<queue, seq, seqOf, worker, gap, rest, histVars>>

Finish(w, outcome) ==
  /\ wpc[w] = "running"
  /\ Resolved(job[w], outcome)
  /\ wpc' = [wpc EXCEPT ![w] = "loop"] /\ job' = [job EXCEPT ![w] = NoRequest]
  /\ rest' = 0
  /\ UNCHANGED <<queue, seq, seqOf, worker, gap, histVars>>

\* CancelledError ends the task; a request in its hands is cancelled with it.
Killed(w) ==
  /\ TRUE \in MayKill /\ wpc[w] # "dead"
  /\ wpc' = [wpc EXCEPT ![w] = "dead"]
  /\ IF wpc[w] \in {"spacing", "running"}
     THEN /\ Resolved(job[w], "cancelled")
          /\ job' = [job EXCEPT ![w] = NoRequest] /\ gap' = [gap EXCEPT ![w] = 0]
          /\ rest' = 0
     ELSE UNCHANGED <<fut, job, gap, rest>>
  /\ killed' = TRUE
  /\ UNCHANGED <<queue, seq, seqOf, worker, late, cancelledIn>>

\* Mutant: the sleep goes on past its end.
TickPastZero ==
  /\ rest' = IF rest < MinInterval THEN rest + 1 ELSE rest
  /\ gap' = [w \in Workers |-> IF wpc[w] = "spacing" THEN gap[w] - 1 ELSE gap[w]]
  /\ UNCHANGED <<queue, seq, seqOf, fut, worker, wpc, job, histVars>>

Tick ==
  /\ rest' = IF rest < MinInterval THEN rest + 1 ELSE rest
  /\ gap' = [w \in Workers |->
               IF wpc[w] = "spacing" /\ gap[w] > 0 THEN gap[w] - 1 ELSE gap[w]]
  /\ UNCHANGED <<queue, seq, seqOf, fut, worker, wpc, job, histVars>>

-----------------------------------------------------------------------------
(* Specification *)

Init ==
  /\ queue = {} /\ seq = 0 /\ seqOf = [r \in Requests |-> 0]
  /\ fut = [r \in Requests |-> "none"]
  /\ worker = NoWorker /\ wpc = [w \in Workers |-> "dead"]
  /\ job = [w \in Workers |-> NoRequest] /\ gap = [w \in Workers |-> 0]
  /\ rest = MinInterval
  /\ killed = FALSE /\ late = [r \in Requests |-> 0]
  /\ cancelledIn = [r \in Requests |-> "nowhere"]

Task(w) ==
  \/ Take(w) \/ Wait(w) \/ TimesOut(w) \/ Leave(w) \/ Start(w)
  \/ \E outcome \in {"result", "error"} : Finish(w, outcome)

Next ==
  \/ \E r \in Requests : Run(r) \/ CancelCaller(r)
  \/ \E w \in Workers : Task(w) \/ Killed(w)
  \/ Tick

Spec == Init /\ [][Next]_vars

\* The event loop runs every task and every timer; EMS answers or times out.
FairSpec == Spec /\ WF_vars(Tick) /\ \A w \in Workers : WF_vars(Task(w))

-----------------------------------------------------------------------------
(* Properties *)

\* A queued request always has a worker to take it: the idle exit and a concurrent
\* run() cannot orphan it (comment at 137-138).  Only a cancelled worker can, until
\* the next call to run() (125-130).
NoOrphan ==
  queue # {} => killed \/ \E w \in Workers : wpc[w] # "dead"

\* Two worker tasks never live at once, whatever exits, cancellations and restarts
\* interleave: EMS calls never overlap (112-130).
OneWorker ==
  \A v, w \in Workers : wpc[v] # "dead" /\ wpc[w] # "dead" => v = w

\* A waiting request sees at most one lower-priority call go first: the one the
\* worker already holds (class docstring, 91-92; the sleep of 148-152 comes after
\* the get).
OvertakenOnce == \A r \in Requests : late[r] <= 1

\* A request whose caller gave up while it queued is never sent; one already in
\* the worker's hands still is (145-153).
AbandonedNotSent ==
  \A w \in Workers :
    wpc[w] \in {"spacing", "running"} /\ fut[job[w]] = "cancelled"
      => cancelledIn[job[w]] = "worker"

\* The gate is an EmsService: serial, spaced, at most once, own reply.
InHands(r, label) == \E w \in Workers : wpc[w] = label /\ job[w] = r

CallOf(r) ==
  IF fut[r] = "none" THEN "none"
  ELSE IF r \in queue \/ InHands(r, "spacing") THEN "waiting"
  ELSE IF InHands(r, "running") THEN "inflight" ELSE "over"

Calls == [r \in Requests |-> CallOf(r)]
Replies == [r \in Requests |-> IF fut[r] = "pending" THEN "none" ELSE fut[r]]

Service == INSTANCE EmsService WITH call <- Calls, reply <- Replies

ServiceSpec == Service!Spec

\* Without a cancelled worker every caller gets an answer, unless it gave up.
EveryCallReturns ==
  \A r \in Requests : fut[r] = "pending" ~> killed \/ fut[r] # "pending"
=============================================================================
