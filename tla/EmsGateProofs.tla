--------------------------- MODULE EmsGateProofs ----------------------------
(***************************************************************************)
(* Proofs about EmsGate, for any set of calls, any number of worker tasks  *)
(* and any interval: EMS calls never overlap, none is orphaned, a waiting  *)
(* call is overtaken at most once, and the gate is an EmsService.          *)
(***************************************************************************)
EXTENDS EmsGate, TLAPS

\* What a worker task holds.
Holding(w) == wpc[w] \in {"spacing", "running"}

\* The pointer knows the only live task; the request in its hands is no longer
\* queued; the sleep it owes is what the interval still lacks.
TaskInv ==
  \A w \in Workers :
    /\ wpc[w] # "dead" => w = worker
    /\ Holding(w) => job[w] \in Requests \ queue /\ fut[job[w]] # "none"
    /\ wpc[w] = "spacing" => gap[w] + rest >= MinInterval

QueueInv == \A r \in queue : fut[r] # "none"

\* Every variable of the gate keeps its type.
THEOREM GateTypes == Spec => []TypeOK
<1>1. Init => TypeOK
  <2> SUFFICES ASSUME Init PROVE TypeOK
    OBVIOUS
  <2>1. rest \in 0..MinInterval /\ gap \in [Workers -> 0..MinInterval]
    BY GateAssumption DEF Init
  <2>2. /\ wpc \in [Workers -> WorkerLabels] /\ fut \in [Requests -> Futures]
        /\ job \in [Workers -> Requests \cup {NoRequest}]
        /\ cancelledIn \in [Requests -> {"nowhere", "queue", "worker"}]
    BY DEF Init, WorkerLabels, Futures
  <2>3. /\ seq \in Nat /\ seqOf \in [Requests -> Nat]
        /\ late \in [Requests -> Nat]
    BY DEF Init
  <2> QED
    BY <2>1, <2>2, <2>3 DEF Init, TypeOK
<1>2. TypeOK /\ [Next]_vars => TypeOK'
  <2> SUFFICES ASSUME TypeOK, [Next]_vars PROVE TypeOK'
    OBVIOUS
  <2> USE GateAssumption DEF TypeOK, WorkerLabels, Futures, taskVars, histVars
  <2>1. ASSUME NEW r \in Requests, Run(r) PROVE TypeOK'
    <3>1. seq' \in Nat /\ seqOf' \in [Requests -> Nat]
      BY <2>1 DEF Run
    <3>2. worker' \in Workers \cup {NoWorker} /\ wpc' \in [Workers -> WorkerLabels]
      BY <2>1 DEF Run, EnsureWorker
    <3>3. fut' \in [Requests -> Futures] /\ queue' \subseteq Requests
      BY <2>1 DEF Run
    <3> QED
      BY <2>1, <3>1, <3>2, <3>3 DEF Run
  <2>2. ASSUME NEW r \in Requests, CancelCaller(r) PROVE TypeOK'
    BY <2>2 DEF CancelCaller
  <2>3. ASSUME NEW w \in Workers, Take(w) PROVE TypeOK'
    BY <2>3 DEF Take, Overtakes
  <2>4. ASSUME NEW w \in Workers, Wait(w) PROVE TypeOK'
    BY <2>4 DEF Wait
  <2>5. ASSUME NEW w \in Workers, TimesOut(w) PROVE TypeOK'
    BY <2>5 DEF TimesOut
  <2>6. ASSUME NEW w \in Workers, Leave(w) PROVE TypeOK'
    BY <2>6 DEF Leave
  <2>7. ASSUME NEW w \in Workers, Start(w) PROVE TypeOK'
    BY <2>7 DEF Start, Overtakes
  <2>8. ASSUME NEW w \in Workers, NEW outcome \in {"result", "error"},
               Finish(w, outcome)
        PROVE  TypeOK'
    <3>1. fut' \in [Requests -> Futures]
      BY <2>8 DEF Finish, Resolved
    <3>2. /\ wpc' \in [Workers -> WorkerLabels] /\ rest' \in 0..MinInterval
          /\ job' \in [Workers -> Requests \cup {NoRequest}]
      BY <2>8 DEF Finish
    <3> QED
      BY <2>8, <3>1, <3>2 DEF Finish
  <2>9. ASSUME NEW w \in Workers, Killed(w) PROVE TypeOK'
    BY <2>9 DEF Killed, Resolved
  <2>10. CASE Tick
    BY <2>10 DEF Tick
  <2>11. CASE UNCHANGED vars
    BY <2>11 DEF vars
  <2> QED
    BY <2>1, <2>2, <2>3, <2>4, <2>5, <2>6, <2>7, <2>8, <2>9, <2>10, <2>11
       DEF Next, Task
<1> QED
  BY <1>1, <1>2, PTL DEF Spec

-----------------------------------------------------------------------------
\* TaskInv and QueueInv are invariants of the gate.
LEMMA TaskInvariant == Spec => [](TaskInv /\ QueueInv)
<1>1. Init => TaskInv /\ QueueInv
  BY DEF Init, TaskInv, QueueInv, Holding
<1>2. TypeOK /\ TypeOK' /\ TaskInv /\ QueueInv /\ [Next]_vars => TaskInv' /\ QueueInv'
  <2> SUFFICES ASSUME TypeOK, TypeOK', TaskInv, QueueInv, [Next]_vars
               PROVE  TaskInv' /\ QueueInv'
    OBVIOUS
  <2> USE GateAssumption DEF TaskInv, QueueInv, Holding, taskVars, histVars
  <2>1. ASSUME NEW r \in Requests, Run(r) PROVE TaskInv' /\ QueueInv'
    BY <2>1 DEF Run, EnsureWorker, TypeOK
  <2>2. ASSUME NEW r \in Requests, CancelCaller(r) PROVE TaskInv' /\ QueueInv'
    BY <2>2 DEF CancelCaller, TypeOK
  <2>3. ASSUME NEW w \in Workers, Take(w) PROVE TaskInv' /\ QueueInv'
    BY <2>3 DEF Take, IsHead, TypeOK
  <2>4. ASSUME NEW w \in Workers, Wait(w) PROVE TaskInv' /\ QueueInv'
    BY <2>4 DEF Wait, TypeOK
  <2>5. ASSUME NEW w \in Workers, TimesOut(w) PROVE TaskInv' /\ QueueInv'
    BY <2>5 DEF TimesOut, TypeOK
  <2>6. ASSUME NEW w \in Workers, Leave(w) PROVE TaskInv' /\ QueueInv'
    BY <2>6 DEF Leave, TypeOK
  <2>7. ASSUME NEW w \in Workers, Start(w) PROVE TaskInv' /\ QueueInv'
    BY <2>7 DEF Start, TypeOK
  <2>8. ASSUME NEW w \in Workers, NEW outcome \in {"result", "error"},
               Finish(w, outcome)
        PROVE  TaskInv' /\ QueueInv'
    BY <2>8 DEF Finish, Resolved, TypeOK
  <2>9. ASSUME NEW w \in Workers, Killed(w) PROVE TaskInv' /\ QueueInv'
    BY <2>9 DEF Killed, Resolved, TypeOK
  <2>10. CASE Tick
    BY <2>10 DEF Tick, TypeOK
  <2>11. CASE UNCHANGED vars
    BY <2>11 DEF vars
  <2> QED
    BY <2>1, <2>2, <2>3, <2>4, <2>5, <2>6, <2>7, <2>8, <2>9, <2>10, <2>11
       DEF Next, Task
<1> QED
  BY <1>1, <1>2, GateTypes, PTL DEF Spec

\* EMS calls never overlap: whatever exits, cancellations and restarts
\* interleave, one worker task lives at a time (ems_transport.py 112-165).
THEOREM CallsNeverOverlap == Spec => []OneWorker
<1>1. TaskInv => OneWorker
  BY DEF TaskInv, OneWorker
<1> QED
  BY <1>1, TaskInvariant, PTL

-----------------------------------------------------------------------------
\* No request is left in the queue without a worker, unless a worker was cancelled
\* since the last run() (ems_transport.py 125-130, 137-142).
THEOREM NeverOrphaned == Spec => []NoOrphan
<1>1. Init => NoOrphan
  BY DEF Init, NoOrphan
<1>2. TypeOK /\ TaskInv /\ NoOrphan /\ [Next]_vars => NoOrphan'
  <2> SUFFICES ASSUME TypeOK, TaskInv, NoOrphan, [Next]_vars PROVE NoOrphan'
    OBVIOUS
  <2> USE GateAssumption DEF TypeOK, TaskInv, NoOrphan, taskVars, histVars
  <2>1. ASSUME NEW r \in Requests, Run(r) PROVE NoOrphan'
    BY <2>1 DEF Run, EnsureWorker
  <2>2. ASSUME NEW r \in Requests, CancelCaller(r) PROVE NoOrphan'
    BY <2>2 DEF CancelCaller
  <2>3. ASSUME NEW w \in Workers, Take(w) PROVE NoOrphan'
    BY <2>3 DEF Take, IsHead, Before, Overtakes
  <2>4. ASSUME NEW w \in Workers, Wait(w) PROVE NoOrphan'
    BY <2>4 DEF Wait
  <2>5. ASSUME NEW w \in Workers, TimesOut(w) PROVE NoOrphan'
    BY <2>5 DEF TimesOut
  <2>6. ASSUME NEW w \in Workers, Leave(w) PROVE NoOrphan'
    BY <2>6 DEF Leave
  <2>7. ASSUME NEW w \in Workers, Start(w) PROVE NoOrphan'
    BY <2>7 DEF Start, Overtakes
  <2>8. ASSUME NEW w \in Workers, NEW outcome \in {"result", "error"},
               Finish(w, outcome)
        PROVE  NoOrphan'
    BY <2>8 DEF Finish, Resolved
  <2>9. ASSUME NEW w \in Workers, Killed(w) PROVE NoOrphan'
    BY <2>9 DEF Killed, Resolved
  <2>10. CASE Tick
    BY <2>10 DEF Tick
  <2>11. CASE UNCHANGED vars
    BY <2>11 DEF vars
  <2> QED
    BY <2>1, <2>2, <2>3, <2>4, <2>5, <2>6, <2>7, <2>8, <2>9, <2>10, <2>11
       DEF Next, Task
<1> QED
  BY <1>1, <1>2, GateTypes, TaskInvariant, PTL DEF Spec

-----------------------------------------------------------------------------
\* A request whose caller gave up in the queue is dropped there
\* (ems_transport.py 145-146).
THEOREM AbandonedDropped == Spec => []AbandonedNotSent
<1>1. Init => AbandonedNotSent
  BY DEF Init, AbandonedNotSent
<1>2. TypeOK /\ TaskInv /\ TaskInv' /\ AbandonedNotSent /\ [Next]_vars => AbandonedNotSent'
  <2> SUFFICES ASSUME TypeOK, TaskInv, TaskInv', AbandonedNotSent, [Next]_vars
               PROVE  AbandonedNotSent'
    OBVIOUS
  <2> USE GateAssumption DEF TypeOK, TaskInv, Holding, AbandonedNotSent, taskVars, histVars
  <2>1. ASSUME NEW r \in Requests, Run(r) PROVE AbandonedNotSent'
    BY <2>1 DEF Run, EnsureWorker
  <2>2. ASSUME NEW r \in Requests, CancelCaller(r) PROVE AbandonedNotSent'
    BY <2>2 DEF CancelCaller
  <2>3. ASSUME NEW w \in Workers, Take(w) PROVE AbandonedNotSent'
    BY <2>3 DEF Take, IsHead, Before, Overtakes
  <2>4. ASSUME NEW w \in Workers, Wait(w) PROVE AbandonedNotSent'
    BY <2>4 DEF Wait
  <2>5. ASSUME NEW w \in Workers, TimesOut(w) PROVE AbandonedNotSent'
    BY <2>5 DEF TimesOut
  <2>6. ASSUME NEW w \in Workers, Leave(w) PROVE AbandonedNotSent'
    BY <2>6 DEF Leave
  <2>7. ASSUME NEW w \in Workers, Start(w) PROVE AbandonedNotSent'
    BY <2>7 DEF Start, Overtakes
  <2>8. ASSUME NEW w \in Workers, NEW outcome \in {"result", "error"},
               Finish(w, outcome)
        PROVE  AbandonedNotSent'
    BY <2>8 DEF Finish, Resolved
  <2>9. ASSUME NEW w \in Workers, Killed(w) PROVE AbandonedNotSent'
    BY <2>9 DEF Killed, Resolved
  <2>10. CASE Tick
    BY <2>10 DEF Tick
  <2>11. CASE UNCHANGED vars
    BY <2>11 DEF vars
  <2> QED
    BY <2>1, <2>2, <2>3, <2>4, <2>5, <2>6, <2>7, <2>8, <2>9, <2>10, <2>11
       DEF Next, Task
<1> QED
  BY <1>1, <1>2, GateTypes, TaskInvariant, PTL DEF Spec

-----------------------------------------------------------------------------
\* Only the call in a sleeping worker's hands can still overtake a request, and
\* none has overtaken a request that it will overtake.
LateInv ==
  /\ \A r \in Requests : late[r] \in {0, 1}
  /\ \A r \in Requests : fut[r] = "none" => late[r] = 0
  /\ \A w \in Workers, r \in queue :
       wpc[w] = "spacing" /\ Rank(r) > Rank(job[w]) => late[r] = 0

\* A queued request sees at most one call of lower priority go first
\* (ems_transport.py 89-93, 143-153).
THEOREM AtMostOneOvertakes == Spec => []OvertakenOnce
<1>1. Init => LateInv
  BY DEF Init, LateInv
<1>2. TypeOK /\ TaskInv /\ QueueInv /\ LateInv /\ [Next]_vars => LateInv'
  <2> SUFFICES ASSUME TypeOK, TaskInv, QueueInv, LateInv, [Next]_vars PROVE LateInv'
    OBVIOUS
  <2> USE GateAssumption DEF TypeOK, TaskInv, QueueInv, Holding, LateInv, taskVars, histVars
  <2>1. ASSUME NEW r \in Requests, Run(r) PROVE LateInv'
    BY <2>1 DEF Run, EnsureWorker
  <2>2. ASSUME NEW r \in Requests, CancelCaller(r) PROVE LateInv'
    BY <2>2 DEF CancelCaller
  <2>3. ASSUME NEW w \in Workers, Take(w) PROVE LateInv'
    <3>1. PICK r \in Requests :
            /\ IsHead(r) /\ queue' = queue \ {r}
            /\ \/ wpc' = [wpc EXCEPT ![w] = "loop"] /\ UNCHANGED <<job, late>>
               \/ /\ job' = [job EXCEPT ![w] = r]
                  /\ \/ wpc' = [wpc EXCEPT ![w] = "running"] /\ Overtakes(r)
                     \/ wpc' = [wpc EXCEPT ![w] = "spacing"] /\ UNCHANGED late
      BY <2>3 DEF Take
    <3>2. \A q \in queue : ~(Rank(q) > Rank(r))
      BY <3>1 DEF IsHead, Before, Rank
    <3>3. UNCHANGED <<late, fut>>
      BY <2>3, <3>1, <3>2 DEF Take, Overtakes
    <3> QED
      BY <3>1, <3>2, <3>3
  <2>4. ASSUME NEW w \in Workers, Wait(w) PROVE LateInv'
    BY <2>4 DEF Wait
  <2>5. ASSUME NEW w \in Workers, TimesOut(w) PROVE LateInv'
    BY <2>5 DEF TimesOut
  <2>6. ASSUME NEW w \in Workers, Leave(w) PROVE LateInv'
    BY <2>6 DEF Leave
  <2>7. ASSUME NEW w \in Workers, Start(w) PROVE LateInv'
    BY <2>7 DEF Start, Overtakes
  <2>8. ASSUME NEW w \in Workers, NEW outcome \in {"result", "error"},
               Finish(w, outcome)
        PROVE  LateInv'
    BY <2>8 DEF Finish, Resolved
  <2>9. ASSUME NEW w \in Workers, Killed(w) PROVE LateInv'
    BY <2>9 DEF Killed, Resolved
  <2>10. CASE Tick
    BY <2>10 DEF Tick
  <2>11. CASE UNCHANGED vars
    BY <2>11 DEF vars
  <2> QED
    BY <2>1, <2>2, <2>3, <2>4, <2>5, <2>6, <2>7, <2>8, <2>9, <2>10, <2>11
       DEF Next, Task
<1>3. LateInv => OvertakenOnce
  BY DEF LateInv, OvertakenOnce
<1> QED
  BY <1>1, <1>2, <1>3, GateTypes, TaskInvariant, PTL DEF Spec

-----------------------------------------------------------------------------
(* The gate implements EmsService. *)

\* A step that moves one call moves the mapped state of that call alone.
LEMMA OneCallMoves ==
  ASSUME NEW r \in Requests, NEW v,
         CallOf(r)' = v,
         \A q \in Requests \ {r} : CallOf(q)' = CallOf(q)
  PROVE  Calls' = [Calls EXCEPT ![r] = v]
BY DEF Calls

\* A step that moves no call leaves the mapped calls alone.
LEMMA NoCallMoves ==
  ASSUME \A q \in Requests : CallOf(q)' = CallOf(q)
  PROVE  Calls' = Calls
BY DEF Calls

\* A step that resolves no future changes no reply.
LEMMA NoReplyMoves ==
  ASSUME fut' = fut
  PROVE  Replies' = Replies
BY DEF Replies

\* A resolved future is the caller's reply, unless the caller has one.
LEMMA OneReplyMoves ==
  ASSUME TypeOK, NEW r \in Requests, fut[r] # "none",
         NEW outcome \in {"result", "error", "cancelled"}, Resolved(r, outcome)
  PROVE  Replies' = [Replies EXCEPT ![r] = IF @ = "none" THEN outcome ELSE @]
BY DEF Replies, Resolved, TypeOK

\* Where a request is follows from the queue and the live task.
LEMMA CallInHands ==
  ASSUME TypeOK, TaskInv, QueueInv, NEW w \in Workers, Holding(w)
  PROVE  /\ job[w] \in Requests
         /\ CallOf(job[w]) = IF wpc[w] = "spacing" THEN "waiting" ELSE "inflight"
         /\ \A q \in Requests, label \in {"spacing", "running"} :
              InHands(q, label) => q = job[w] /\ label = wpc[w]
<1>1. \A v \in Workers : Holding(v) => v = w
  BY DEF TaskInv, Holding
<1>2. job[w] \in Requests \ queue /\ fut[job[w]] # "none"
  BY DEF TaskInv
<1> QED
  BY <1>1, <1>2 DEF CallOf, InHands, Holding

\* The gate keeps EmsService's promise: EMS calls one at a time, at most once, an
\* interval apart, each caller with its own outcome (ems_transport.py 88-165).
THEOREM GateImplementsService == Spec => ServiceSpec
<1>1. Init => Service!Init
  <2> SUFFICES ASSUME Init PROVE Service!Init
    OBVIOUS
  <2>1. \A r \in Requests : CallOf(r) = "none"
    BY DEF Init, CallOf
  <2> QED
    BY <2>1 DEF Init, Service!Init, Calls, Replies
<1>2. /\ TypeOK /\ TypeOK' /\ TaskInv /\ TaskInv' /\ QueueInv /\ QueueInv' /\ [Next]_vars
      => [Service!Next]_(Service!vars)
  <2> SUFFICES ASSUME TypeOK, TypeOK', TaskInv, TaskInv', QueueInv, QueueInv',
                      [Next]_vars
               PROVE  Service!Next \/ UNCHANGED <<Calls, Replies, rest>>
    BY DEF Service!vars
  <2> USE GateAssumption
  <2>1. ASSUME NEW r \in Requests, Run(r) PROVE Service!Ask(r)
    <3>1. \A q \in Requests, label \in {"spacing", "running"} :
            InHands(q, label)' <=> InHands(q, label)
      BY <2>1 DEF Run, EnsureWorker, InHands, TypeOK
    <3>2. CallOf(r) = "none" /\ CallOf(r)' = "waiting"
      BY <2>1 DEF Run, CallOf, TypeOK
    <3>3. \A q \in Requests \ {r} : CallOf(q)' = CallOf(q)
      BY <2>1, <3>1 DEF Run, CallOf, TypeOK
    <3>4. Replies' = Replies /\ rest' = rest
      BY <2>1 DEF Run, Replies, TypeOK
    <3> QED
      BY <3>2, <3>3, <3>4, OneCallMoves DEF Service!Ask, Calls
  <2>2. ASSUME NEW r \in Requests, CancelCaller(r) PROVE Service!Abandon(r)
    <3>1. \A q \in Requests : CallOf(q)' = CallOf(q)
      BY <2>2 DEF CancelCaller, CallOf, InHands, TypeOK, taskVars
    <3>2. Calls' = Calls
      BY <3>1, NoCallMoves
    <3>3. CallOf(r) # "none" /\ Replies[r] = "none"
      BY <2>2 DEF CancelCaller, CallOf, Replies
    <3>4. Replies' = [Replies EXCEPT ![r] = "cancelled"] /\ rest' = rest
      BY <2>2 DEF CancelCaller, Replies, TypeOK
    <3> QED
      BY <3>2, <3>3, <3>4 DEF Service!Abandon, Calls
  <2>3. ASSUME NEW w \in Workers, Take(w)
        PROVE  Service!Next \/ UNCHANGED <<Calls, Replies, rest>>
    <3>1. PICK r \in Requests :
            /\ IsHead(r) /\ queue' = queue \ {r}
            /\ \/ /\ fut[r] = "cancelled"
                  /\ wpc' = [wpc EXCEPT ![w] = "loop"] /\ UNCHANGED job
               \/ /\ job' = [job EXCEPT ![w] = r]
                  /\ \/ rest = MinInterval /\ wpc' = [wpc EXCEPT ![w] = "running"]
                     \/ wpc' = [wpc EXCEPT ![w] = "spacing"]
      BY <2>3 DEF Take
    <3>2. fut' = fut /\ rest' = rest /\ fut[r] # "none" /\ r \in queue
      BY <2>3, <3>1 DEF Take, IsHead, QueueInv
    <3>3. \A v \in Workers : wpc[v] # "dead" => v = w
      BY <2>3 DEF Take, TaskInv
    <3>4. \A q \in Requests, label \in {"spacing", "running"} : ~InHands(q, label)
      BY <2>3, <3>3 DEF Take, InHands
    <3>5. CallOf(r) = "waiting" /\ Service!InFlight = {}
      BY <3>2, <3>4 DEF CallOf, Calls, Service!InFlight
    <3>6. Replies' = Replies
      BY <3>2, NoReplyMoves
    <3>7. \A q \in Requests \ {r}, label \in {"spacing", "running"} : ~InHands(q, label)'
      BY <3>1, <3>4 DEF InHands, TypeOK
    <3>8. \A q \in Requests \ {r} : CallOf(q)' = CallOf(q)
      BY <3>1, <3>2, <3>4, <3>7 DEF CallOf
    <3>9. CASE fut[r] = "cancelled" /\ wpc' = [wpc EXCEPT ![w] = "loop"] /\ UNCHANGED job
      <4>1. CallOf(r)' = "over"
        BY <3>1, <3>2, <3>4, <3>9 DEF CallOf, InHands, TypeOK
      <4>2. Calls' = [Calls EXCEPT ![r] = "over"]
        BY <3>8, <4>1, OneCallMoves
      <4>3. Service!Discard(r)
        BY <3>2, <3>5, <3>6, <3>9, <4>2 DEF Service!Discard, Calls, Replies
      <4> QED
        BY <4>3 DEF Service!Next
    <3>10. CASE /\ job' = [job EXCEPT ![w] = r]
                /\ rest = MinInterval /\ wpc' = [wpc EXCEPT ![w] = "running"]
      <4>1. CallOf(r)' = "inflight"
        BY <3>1, <3>2, <3>4, <3>10 DEF CallOf, InHands, TypeOK
      <4>2. Calls' = [Calls EXCEPT ![r] = "inflight"]
        BY <3>8, <4>1, OneCallMoves
      <4>3. Service!Send(r)
        BY <3>2, <3>5, <3>6, <3>10, <4>2 DEF Service!Send, Calls
      <4> QED
        BY <4>3 DEF Service!Next
    <3>11. CASE job' = [job EXCEPT ![w] = r] /\ wpc' = [wpc EXCEPT ![w] = "spacing"]
      <4>1. CallOf(r)' = "waiting"
        BY <3>1, <3>2, <3>11 DEF CallOf, InHands, TypeOK
      <4>2. Calls' = Calls
        BY <3>5, <3>8, <4>1, NoCallMoves
      <4> QED
        BY <3>2, <3>6, <4>2
    <3> QED
      BY <3>1, <3>9, <3>10, <3>11
  <2>4. ASSUME NEW w \in Workers, Wait(w) \/ TimesOut(w) \/ Leave(w)
        PROVE  UNCHANGED <<Calls, Replies, rest>>
    <3>1. fut' = fut /\ rest' = rest /\ queue' = queue /\ job' = job
      BY <2>4 DEF Wait, TimesOut, Leave
    <3>2. \A q \in Requests, label \in {"spacing", "running"} :
            InHands(q, label)' <=> InHands(q, label)
      BY <2>4 DEF Wait, TimesOut, Leave, InHands, TypeOK
    <3>3. \A q \in Requests : CallOf(q)' = CallOf(q)
      BY <3>1, <3>2 DEF CallOf
    <3> QED
      BY <3>1, <3>3, NoCallMoves, NoReplyMoves
  <2>5. ASSUME NEW w \in Workers, Start(w) PROVE Service!Send(job[w])
    <3>1. Holding(w) /\ wpc[w] = "spacing" /\ gap[w] = 0
      BY <2>5 DEF Start, Holding
    <3>2. rest = MinInterval
      BY <3>1 DEF TaskInv, TypeOK
    <3>3. /\ job[w] \in Requests /\ CallOf(job[w]) = "waiting"
          /\ \A q \in Requests, label \in {"spacing", "running"} :
               InHands(q, label) => q = job[w] /\ label = "spacing"
      BY <3>1, CallInHands
    <3>4. Service!InFlight = {}
      BY <3>3 DEF Service!InFlight, Calls, CallOf
    <3>5. /\ wpc' = [wpc EXCEPT ![w] = "running"]
          /\ UNCHANGED <<queue, fut, job, rest>>
      BY <2>5 DEF Start
    <3>6. job[w] \notin queue /\ fut[job[w]] # "none"
      BY <3>1 DEF TaskInv
    <3>7. CallOf(job[w])' = "inflight"
      <4>1. ~InHands(job[w], "spacing")'
        BY <3>3, <3>5 DEF InHands, TypeOK, TaskInv
      <4>2. InHands(job[w], "running")'
        BY <3>5 DEF InHands, TypeOK
      <4> QED
        BY <3>5, <3>6, <4>1, <4>2 DEF CallOf
    <3>8. \A q \in Requests \ {job[w]} : CallOf(q)' = CallOf(q)
      BY <3>3, <3>5 DEF CallOf, InHands, TypeOK
    <3>9. Calls' = [Calls EXCEPT ![job[w]] = "inflight"] /\ Replies' = Replies
      BY <3>3, <3>5, <3>7, <3>8, OneCallMoves, NoReplyMoves
    <3> QED
      BY <3>2, <3>3, <3>4, <3>5, <3>9 DEF Service!Send, Calls
  <2>6. ASSUME NEW w \in Workers, NEW outcome \in {"result", "error"},
               Finish(w, outcome)
        PROVE  Service!Answer(job[w], outcome)
    <3>1. Holding(w) /\ wpc[w] = "running"
      BY <2>6 DEF Finish, Holding
    <3>2. /\ job[w] \in Requests /\ CallOf(job[w]) = "inflight"
          /\ \A q \in Requests, label \in {"spacing", "running"} :
               InHands(q, label) => q = job[w]
      BY <3>1, CallInHands
    <3>3. job[w] \notin queue /\ fut[job[w]] # "none"
      BY <3>1 DEF TaskInv
    <3>4. Replies' = [Replies EXCEPT ![job[w]] = IF @ = "none" THEN outcome ELSE @]
      BY <2>6, <3>2, <3>3, OneReplyMoves DEF Finish
    <3>5. \A q \in Requests, label \in {"spacing", "running"} : ~InHands(q, label)'
      BY <2>6, <3>1 DEF Finish, InHands, TypeOK, TaskInv
    <3>6. queue' = queue /\ rest' = 0
          /\ \A q \in Requests : fut'[q] = "none" <=> fut[q] = "none"
      BY <2>6 DEF Finish, Resolved, TypeOK
    <3>7. PICK r \in Requests : r = job[w]
      BY <3>2
    <3>8. CallOf(r)' = "over" /\ \A q \in Requests \ {r} : CallOf(q)' = CallOf(q)
      BY <3>2, <3>3, <3>5, <3>6, <3>7 DEF CallOf
    <3>9. Calls' = [Calls EXCEPT ![job[w]] = "over"]
      <4>1. Calls' = [Calls EXCEPT ![r] = "over"]
        BY <3>8, OneCallMoves
      <4> QED
        BY <3>7, <4>1
    <3> QED
      BY <3>2, <3>4, <3>6, <3>9 DEF Service!Answer, Calls
  <2>7. ASSUME NEW w \in Workers, Killed(w)
        PROVE  Service!Next \/ UNCHANGED <<Calls, Replies, rest>>
    <3>1. \A q \in Requests, label \in {"spacing", "running"} : ~InHands(q, label)'
      BY <2>7 DEF Killed, InHands, TypeOK, TaskInv
    <3>2. queue' = queue
      BY <2>7 DEF Killed
    <3>3. CASE Holding(w)
      <4>1. /\ job[w] \in Requests /\ CallOf(job[w]) \in {"waiting", "inflight"}
            /\ \A q \in Requests, label \in {"spacing", "running"} :
                 InHands(q, label) => q = job[w]
        BY <3>3, CallInHands
      <4>2. job[w] \notin queue /\ fut[job[w]] # "none"
        BY <3>3 DEF TaskInv
      <4>3. Resolved(job[w], "cancelled") /\ rest' = 0
        BY <2>7, <3>3 DEF Killed, Holding
      <4>4. Replies' = [Replies EXCEPT ![job[w]] = IF @ = "none" THEN "cancelled" ELSE @]
        BY <4>1, <4>2, <4>3, OneReplyMoves
      <4>5. \A q \in Requests : fut'[q] = "none" <=> fut[q] = "none"
        BY <4>3 DEF Resolved, TypeOK
      <4>6. PICK r \in Requests : r = job[w]
        BY <4>1
      <4>7. CallOf(r)' = "over" /\ \A q \in Requests \ {r} : CallOf(q)' = CallOf(q)
        BY <3>1, <3>2, <4>1, <4>2, <4>5, <4>6 DEF CallOf
      <4>8. Calls' = [Calls EXCEPT ![job[w]] = "over"]
        <5>1. Calls' = [Calls EXCEPT ![r] = "over"]
          BY <4>7, OneCallMoves
        <5> QED
          BY <4>6, <5>1
      <4>9. Service!Lose(job[w])
        BY <4>1, <4>3, <4>4, <4>8 DEF Service!Lose, Calls
      <4> QED
        BY <4>1, <4>9 DEF Service!Next
    <3>4. CASE ~Holding(w)
      <4>1. UNCHANGED <<fut, job, rest>>
        BY <2>7, <3>4 DEF Killed, Holding
      <4>2. \A q \in Requests, label \in {"spacing", "running"} : ~InHands(q, label)
        BY <2>7, <3>4 DEF Killed, Holding, InHands, TaskInv
      <4>3. \A q \in Requests : CallOf(q)' = CallOf(q)
        BY <3>1, <3>2, <4>1, <4>2 DEF CallOf
      <4> QED
        BY <4>1, <4>3, NoCallMoves, NoReplyMoves
    <3> QED
      BY <3>3, <3>4
  <2>8. CASE Tick
    <3>1. \A q \in Requests : CallOf(q)' = CallOf(q)
      BY <2>8 DEF Tick, CallOf, InHands
    <3>2. Calls' = Calls /\ Replies' = Replies
      BY <2>8, <3>1, NoCallMoves, NoReplyMoves DEF Tick
    <3>3. (rest < MinInterval /\ rest' = rest + 1) \/ rest' = rest
      BY <2>8 DEF Tick
    <3> QED
      BY <3>2, <3>3 DEF Service!Next, Service!Rest
  <2>9. CASE UNCHANGED vars
    <3>1. \A q \in Requests : CallOf(q)' = CallOf(q)
      BY <2>9 DEF vars, taskVars, CallOf, InHands
    <3> QED
      BY <2>9, <3>1, NoCallMoves, NoReplyMoves DEF vars
  <2>10. ASSUME NEW w \in Workers, Holding(w) PROVE job[w] \in Requests
    BY <2>10 DEF TaskInv
  <2>11. ASSUME NEW w \in Workers, Task(w)
         PROVE  Service!Next \/ UNCHANGED <<Calls, Replies, rest>>
    <3>1. CASE Start(w)
      BY <2>5, <2>10, <3>1 DEF Start, Holding, Service!Next
    <3>2. ASSUME NEW outcome \in {"result", "error"}, Finish(w, outcome)
          PROVE  Service!Next
      BY <2>6, <2>10, <3>2 DEF Finish, Holding, Service!Next
    <3> QED
      BY <2>3, <2>4, <2>11, <3>1, <3>2 DEF Task
  <2> QED
    BY <2>1, <2>2, <2>7, <2>8, <2>9, <2>11 DEF Next, Service!Next
<1> QED
  BY <1>1, <1>2, GateTypes, TaskInvariant, PTL DEF Spec, ServiceSpec, Service!Spec
=============================================================================
