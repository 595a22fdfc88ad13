------------------------- MODULE CommandRouteProofs --------------------------
(***************************************************************************)
(* Proofs about LanClient and CommandRoute, for any callers, pollers,      *)
(* settings, numbers of attempts, services, semaphores and copies.         *)
(***************************************************************************)
EXTENDS CommandRoute, FiniteSetTheorems, TLAPS

-----------------------------------------------------------------------------
(* Requests and semaphores *)

Sem == [limit : 1..8, queue : Seq(Tasks)]
Request == [at : {"queued", "posted", "backoff"}, attempt : 1..Retries, sem : 1..MaxSems]

\* A request names a semaphore there is; one that waits is in its queue; one that
\* pauses has attempts left.
QueueInv ==
  \A t \in Tasks :
    /\ lan[t] # NoRequest => lan[t].sem \in 1..Len(sems)
    /\ lan[t].at = "queued" =>
         \E i \in 1..Len(sems[lan[t].sem].queue) : sems[lan[t].sem].queue[i] = t
    /\ lan[t].at = "backoff" => lan[t].attempt < Retries

\* Requests under way can be given slots of their semaphores, no slot to two.
Fits(slot) ==
  \A t \in Posted :
    /\ slot[t] <= sems[lan[t].sem].limit
    /\ \A u \in Posted : lan[u].sem = lan[t].sem /\ slot[u] = slot[t] => u = t
SlotInv == \E slot \in [Posted -> 1..8] : Fits(slot)

\* The slots of the semaphores from s on.
Slots(s) == {x \in (s..Len(sems)) \X (1..8) : x[2] <= sems[x[1]].limit}

\* What is allowed is what a last stretch of the semaphores has, and requests that wait or
\* are under way are at these.
Covers(s) ==
  /\ \A t \in Tasks : lan[t].at \in {"queued", "posted"} => lan[t].sem >= s
  /\ Cardinality(Slots(s)) <= allowance
AllowInv == \E s \in 1..Len(sems) : Covers(s)

LanInv == LanTypeOK /\ QueueInv /\ SlotInv /\ AllowInv

LEMMA LanFacts ==
  ASSUME LanInv
  PROVE  /\ sems \in Seq(Sem) /\ Len(sems) \in 1..MaxSems /\ Current = Len(sems)
         /\ lan \in [Tasks -> {NoRequest} \cup Request]
         /\ allowance \in Nat /\ host \in {"up", "silent", "off"}
         /\ MaxSems \in Nat /\ Retries \in Nat \ {0}
         /\ NoRequest.at = "none" /\ NoRequest \notin Request
BY LanAssumption DEF LanInv, LanTypeOK, Sem, Request, Current, NoRequest

\* One queue of one semaphore is changed.
LEMMA QueueChanges ==
  ASSUME sems \in Seq(Sem), NEW g \in 1..Len(sems), NEW q \in Seq(Tasks),
         sems' = [sems EXCEPT ![g].queue = q]
  PROVE  /\ sems' \in Seq(Sem) /\ Len(sems') = Len(sems)
         /\ \A h \in 1..Len(sems) : /\ sems'[h].limit = sems[h].limit
                                    /\ h # g => sems'[h].queue = sems[h].queue
         /\ sems'[g].queue = q
<1>1. \A h \in 1..Len(sems) : sems[h] \in Sem
  OBVIOUS
<1>2. [sems[g] EXCEPT !.queue = q] \in Sem /\ [sems[g] EXCEPT !.queue = q].queue = q
      /\ [sems[g] EXCEPT !.queue = q].limit = sems[g].limit
  BY <1>1 DEF Sem
<1>3. sems' = [sems EXCEPT ![g] = [sems[g] EXCEPT !.queue = q]]
  OBVIOUS
<1> QED
  BY <1>1, <1>2, <1>3

\* The slots of a semaphore depend on its limit alone.
LEMMA SlotsSame ==
  ASSUME Len(sems') = Len(sems), NEW s \in 1..Len(sems), Len(sems) \in Nat,
         \A h \in 1..Len(sems) : sems'[h].limit = sems[h].limit
  PROVE  Slots(s)' = Slots(s)
BY DEF Slots

\* Requests that go on without starting, and limits that stay.
LEMMA FitsStays ==
  ASSUME LanInv, Posted' \subseteq Posted,
         \A t \in Posted' : lan'[t].sem = lan[t].sem
                            /\ sems'[lan[t].sem].limit = sems[lan[t].sem].limit
  PROVE  SlotInv'
<1>1. PICK slot \in [Posted -> 1..8] : Fits(slot)
  BY DEF LanInv, SlotInv
<1>2. PICK new \in [Posted' -> 1..8] : \A t \in Posted' : new[t] = slot[t]
  <2>1. [t \in Posted' |-> slot[t]] \in [Posted' -> 1..8]
    BY <1>1
  <2> QED
    BY <2>1
<1>3. Fits(new)'
  BY <1>1, <1>2 DEF Fits
<1> QED
  BY <1>2, <1>3 DEF SlotInv

LEMMA CoversStays ==
  ASSUME LanInv, Len(sems') = Len(sems), allowance' = allowance,
         \A h \in 1..Len(sems) : sems'[h].limit = sems[h].limit,
         \A t \in Tasks : lan'[t].at \in {"queued", "posted"} =>
           \/ lan[t].at \in {"queued", "posted"} /\ lan'[t].sem = lan[t].sem
           \/ lan'[t].sem = Len(sems)
  PROVE  AllowInv'
<1>1. PICK s \in 1..Len(sems) : Covers(s)
  BY DEF LanInv, AllowInv
<1>2. Slots(s)' = Slots(s)
  BY LanFacts, SlotsSame
<1>3. Covers(s)'
  BY <1>1, <1>2, LanFacts DEF Covers
<1> QED
  BY <1>3 DEF AllowInv

\* The next attempt waits.
LEMMA QueueKeeps ==
  ASSUME LanInv, NEW t \in Tasks, NEW attempt \in 1..Retries, Queue(t, attempt),
         lan[t].at \in {"none", "backoff"}
  PROVE  LanInv'
<1>0. /\ sems \in Seq(Sem) /\ Len(sems) \in Nat /\ Current = Len(sems)
      /\ Current \in 1..Len(sems) /\ Len(sems) \in 1..MaxSems /\ MaxSems \in Nat
      /\ lan \in [Tasks -> {NoRequest} \cup Request]
      /\ allowance \in Nat /\ host \in {"up", "silent", "off"}
      /\ NoRequest.at = "none"
  BY LanFacts
<1> DEFINE q == Append(sems[Current].queue, t)
           request == [at |-> "queued", attempt |-> attempt, sem |-> Current]
<1>1. sems[Current].queue \in Seq(Tasks)
  <2>1. sems[Current] \in Sem
    BY <1>0
  <2> QED
    BY <2>1 DEF Sem
<1>2. q \in Seq(Tasks) /\ Len(q) = Len(sems[Current].queue) + 1 /\ q[Len(q)] = t
      /\ \A i \in 1..Len(sems[Current].queue) : q[i] = sems[Current].queue[i]
  BY <1>1
<1>3. sems' = [sems EXCEPT ![Current].queue = q]
  BY DEF Queue
<1> HIDE DEF q
<1>4. /\ sems' \in Seq(Sem) /\ Len(sems') = Len(sems)
      /\ \A h \in 1..Len(sems) : /\ sems'[h].limit = sems[h].limit
                                 /\ h # Current => sems'[h].queue = sems[h].queue
      /\ sems'[Current].queue = q
  BY <1>0, <1>2, <1>3, QueueChanges
<1>5. lan' = [lan EXCEPT ![t] = request] /\ request \in Request
      /\ UNCHANGED <<host, allowance>>
  BY <1>0 DEF Queue, Request
<1>6. LanTypeOK'
  BY <1>0, <1>4, <1>5 DEF LanTypeOK, Sem, Request
<1>7. QueueInv'
  <2> SUFFICES ASSUME NEW u \in Tasks
      PROVE  /\ lan'[u] # NoRequest => lan'[u].sem \in 1..Len(sems')
             /\ lan'[u].at = "queued" =>
                  \E i \in 1..Len(sems'[lan'[u].sem].queue) : sems'[lan'[u].sem].queue[i] = u
             /\ lan'[u].at = "backoff" => lan'[u].attempt < Retries
    BY DEF QueueInv
  <2>1. CASE u = t
    <3>1. lan'[u] = request
      BY <1>0, <1>5, <2>1
    <3>2. Len(q) \in 1..Len(q)
      BY <1>1, <1>2
    <3> QED
      BY <1>0, <1>2, <1>4, <2>1, <3>1, <3>2
  <2>2. CASE u # t
    <3>1. lan'[u] = lan[u]
      BY <1>0, <1>5, <2>2
    <3>2. QueueInv
      BY DEF LanInv
    <3>5. lan[u].at = "queued" => lan[u].sem \in 1..Len(sems)
      BY <1>0, <3>2 DEF QueueInv
    <3>3. CASE lan[u].at = "queued" /\ lan[u].sem = Current
      <4>1. PICK i \in 1..Len(sems[Current].queue) : sems[Current].queue[i] = u
        BY <3>2, <3>3 DEF QueueInv
      <4>2. i \in 1..Len(q) /\ q[i] = u
        BY <1>1, <1>2, <4>1
      <4> QED
        BY <1>0, <1>4, <3>1, <3>3, <3>5, <4>2
    <3>4. CASE ~(lan[u].at = "queued" /\ lan[u].sem = Current)
      <4>1. lan[u].at = "queued" => sems'[lan[u].sem].queue = sems[lan[u].sem].queue
        BY <1>4, <3>4, <3>5
      <4> QED
        BY <1>4, <3>1, <3>2, <4>1 DEF QueueInv
    <3> QED
      BY <3>3, <3>4
  <2> QED
    BY <2>1, <2>2
<1>8. SlotInv'
  <2>1. Posted' \subseteq Posted /\ \A u \in Posted' : lan'[u] = lan[u]
    BY <1>0, <1>5 DEF Posted
  <2>2. \A u \in Posted' : lan[u].sem \in 1..Len(sems)
    BY <1>0, <2>1 DEF LanInv, QueueInv, Posted
  <2> QED
    BY <1>4, <2>1, <2>2, FitsStays
<1>9. AllowInv'
  BY <1>0, <1>4, <1>5, CoversStays
<1> QED
  BY <1>6, <1>7, <1>8, <1>9 DEF LanInv

\* There is a slot that no holder of the semaphore has.
LEMMA FreeSlot ==
  ASSUME LanInv, NEW g \in 1..Len(sems), Cardinality(Holders(g)) < sems[g].limit,
         NEW slot \in [Posted -> 1..8], Fits(slot)
  PROVE  \E k \in 1..8 : k <= sems[g].limit /\ \A u \in Holders(g) : slot[u] # k
<1>0. sems \in Seq(Sem) /\ sems[g].limit \in 1..8
  <2>1. sems \in Seq(Sem)
    BY LanFacts
  <2>2. sems[g] \in Sem
    BY <2>1
  <2> QED
    BY <2>1, <2>2 DEF Sem
<1> DEFINE limit == sems[g].limit
           used == {slot[u] : u \in Holders(g)}
           f == [u \in Holders(g) |-> slot[u]]
<1>1. IsFiniteSet(Holders(g))
  <2>1. Holders(g) \in SUBSET Tasks /\ IsFiniteSet(Tasks)
    BY LanAssumption DEF Holders, Posted
  <2> QED
    BY <2>1, FS_Subset
<1>2. f \in Surjection(Holders(g), used)
  BY DEF Surjection, Holders
<1>3. IsFiniteSet(used) /\ Cardinality(used) <= Cardinality(Holders(g))
  <2> HIDE DEF used, f
  <2> QED
    BY <1>1, <1>2, FS_Surjection
<1>4. IsFiniteSet(1..limit) /\ Cardinality(1..limit) = limit
  <2>1. limit \in Int /\ 1 \in Int /\ ~(1 > limit) /\ limit - 1 + 1 = limit
    BY <1>0
  <2> HIDE DEF limit
  <2> QED
    BY <2>1, FS_Interval
<1>5. Cardinality(Holders(g)) \in Nat /\ Cardinality(used) \in Nat
  BY <1>1, <1>3, FS_CardinalityType
<1>6. ~(1..limit \subseteq used)
  <2> SUFFICES ASSUME 1..limit \subseteq used
      PROVE  FALSE
    OBVIOUS
  <2>1. Cardinality(1..limit) <= Cardinality(used)
    BY <1>3, FS_Subset
  <2> HIDE DEF used
  <2> QED
    BY <1>0, <1>3, <1>4, <1>5, <2>1
<1>7. PICK k \in 1..limit : k \notin used
  BY <1>6
<1> QED
  BY <1>0, <1>7

\* The first that waits takes a slot.
LEMMA PostKeeps ==
  ASSUME LanInv, NEW t \in Tasks, Post(t)
  PROVE  LanInv'
<1> DEFINE g == lan[t].sem
           q == sems[g].queue
<1>0. /\ sems \in Seq(Sem) /\ Len(sems) \in Nat /\ Len(sems) \in 1..MaxSems
      /\ MaxSems \in Nat /\ Current = Len(sems)
      /\ lan \in [Tasks -> {NoRequest} \cup Request]
      /\ allowance \in Nat /\ host \in {"up", "silent", "off"}
      /\ NoRequest.at = "none" /\ QueueInv
  BY LanFacts DEF LanInv
<1>1. lan[t] \in Request /\ lan[t].at = "queued" /\ g \in 1..Len(sems)
  BY <1>0 DEF Post, QueueInv
<1>2. q \in Seq(Tasks) /\ \E i \in 1..Len(q) : q[i] = t
  <2>1. sems[g] \in Sem
    BY <1>0, <1>1
  <2> QED
    BY <1>0, <1>1, <2>1 DEF Sem, QueueInv
<1>3. /\ Tail(q) \in Seq(Tasks) /\ Len(Tail(q)) = Len(q) - 1 /\ q[1] = t
      /\ \A i \in 1..Len(q) - 1 : Tail(q)[i] = q[i + 1]
  <2>1. Head(q) = t
    BY DEF Post
  <2>2. q # <<>>
    BY <1>2
  <2> QED
    BY <1>2, <2>1, <2>2
<1>4. /\ sems' \in Seq(Sem) /\ Len(sems') = Len(sems)
      /\ \A h \in 1..Len(sems) : /\ sems'[h].limit = sems[h].limit
                                 /\ h # g => sems'[h].queue = sems[h].queue
      /\ sems'[g].queue = Tail(q)
  <2>1. sems' = [sems EXCEPT ![g].queue = Tail(q)]
    BY DEF Post
  <2> HIDE DEF g, q
  <2> QED
    BY <1>0, <1>1, <1>3, <2>1, QueueChanges
<1>5. /\ lan' = [lan EXCEPT ![t].at = "posted"] /\ UNCHANGED <<host, allowance>>
      /\ Cardinality(Holders(g)) < sems[g].limit
  BY DEF Post
<1>6. /\ lan'[t] \in Request /\ lan'[t].at = "posted" /\ lan'[t].sem = g
      /\ lan' \in [Tasks -> {NoRequest} \cup Request]
      /\ \A u \in Tasks \ {t} : lan'[u] = lan[u]
  BY <1>0, <1>1, <1>5 DEF Request
<1> HIDE DEF g, q
<1>7. LanTypeOK'
  BY <1>0, <1>4, <1>5, <1>6 DEF LanTypeOK, Sem, Request
<1>8. QueueInv'
  <2> SUFFICES ASSUME NEW u \in Tasks
      PROVE  /\ lan'[u] # NoRequest => lan'[u].sem \in 1..Len(sems')
             /\ lan'[u].at = "queued" =>
                  \E i \in 1..Len(sems'[lan'[u].sem].queue) : sems'[lan'[u].sem].queue[i] = u
             /\ lan'[u].at = "backoff" => lan'[u].attempt < Retries
    BY DEF QueueInv
  <2>1. CASE u = t
    BY <1>1, <1>4, <1>6, <2>1
  <2>2. CASE u # t
    <3>1. lan'[u] = lan[u]
      BY <1>6, <2>2
    <3>2. lan[u].at = "queued" => lan[u].sem \in 1..Len(sems)
      BY <1>0 DEF QueueInv
    <3>3. CASE lan[u].at = "queued" /\ lan[u].sem = g
      <4>1. PICK i \in 1..Len(q) : q[i] = u
        BY <1>0, <3>3 DEF QueueInv, q
      <4>2. i # 1 /\ Len(q) \in Nat
        BY <1>2, <1>3, <2>2, <4>1
      <4>3. i - 1 \in 1..Len(Tail(q)) /\ Tail(q)[i - 1] = u
        BY <1>3, <4>1, <4>2
      <4> QED
        BY <1>0, <1>4, <3>1, <3>2, <3>3, <4>3
    <3>4. CASE ~(lan[u].at = "queued" /\ lan[u].sem = g)
      <4>1. lan[u].at = "queued" => sems'[lan[u].sem].queue = sems[lan[u].sem].queue
        BY <1>4, <3>2, <3>4
      <4> QED
        BY <1>0, <1>4, <3>1, <4>1 DEF QueueInv
    <3> QED
      BY <3>3, <3>4
  <2> QED
    BY <2>1, <2>2
<1>9. SlotInv'
  <2>1. PICK slot \in [Posted -> 1..8] : Fits(slot)
    BY DEF LanInv, SlotInv
  <2>2. PICK k \in 1..8 : k <= sems[g].limit /\ \A u \in Holders(g) : slot[u] # k
    BY <1>1, <1>5, <2>1, FreeSlot DEF g
  <2>3. Posted' = Posted \cup {t} /\ t \notin Posted
    BY <1>1, <1>6 DEF Posted
  <2>4. PICK new \in [Posted' -> 1..8] :
          \A u \in Posted' : new[u] = IF u = t THEN k ELSE slot[u]
    <3>1. [u \in Posted' |-> IF u = t THEN k ELSE slot[u]] \in [Posted' -> 1..8]
      BY <2>1, <2>2, <2>3
    <3> QED
      BY <3>1
  <2>5. \A u \in Posted' : lan'[u].sem = lan[u].sem /\ lan[u].sem \in 1..Len(sems)
                          /\ (u # t => u \in Posted)
    BY <1>0, <1>1, <1>6, <2>3 DEF QueueInv, Posted, g
  <2>6. \A u \in Posted' : new[u] <= sems'[lan'[u].sem].limit
    BY <1>4, <2>1, <2>2, <2>4, <2>5 DEF Fits, g
  <2>7. ASSUME NEW u \in Posted', NEW v \in Posted', lan'[v].sem = lan'[u].sem, new[v] = new[u]
        PROVE  v = u
    <3>1. lan[v].sem = lan[u].sem
      BY <2>5, <2>7
    <3>2. CASE u # t /\ v # t
      BY <2>1, <2>4, <2>5, <2>7, <3>1, <3>2 DEF Fits
    <3>3. CASE u = t /\ v # t
      BY <2>2, <2>4, <2>5, <2>7, <3>1, <3>3 DEF Holders, g
    <3>4. CASE u # t /\ v = t
      BY <2>2, <2>4, <2>5, <2>7, <3>1, <3>4 DEF Holders, g
    <3> QED
      BY <3>2, <3>3, <3>4
  <2>8. Fits(new)'
    BY <2>6, <2>7 DEF Fits
  <2> QED
    BY <2>4, <2>8 DEF SlotInv
<1>10. AllowInv'
  <2>1. \A u \in Tasks : lan'[u].at \in {"queued", "posted"} =>
          lan[u].at \in {"queued", "posted"} /\ lan'[u].sem = lan[u].sem
    BY <1>1, <1>6 DEF g
  <2> QED
    BY <1>4, <1>5, <2>1, CoversStays
<1> QED
  BY <1>7, <1>8, <1>9, <1>10 DEF LanInv

\* Other steps of a request that is under way: it pauses, or ends.
LEMMA LeaveKeeps ==
  ASSUME LanInv, NEW t \in Tasks, LanBackoff(t) \/ (lan[t].at = "posted"
           /\ lan' = [lan EXCEPT ![t] = NoRequest] /\ UNCHANGED <<host, sems, allowance>>)
  PROVE  LanInv'
<1>0. /\ sems \in Seq(Sem) /\ Len(sems) \in Nat /\ Len(sems) \in 1..MaxSems
      /\ lan \in [Tasks -> {NoRequest} \cup Request]
      /\ NoRequest.at = "none" /\ QueueInv /\ LanTypeOK
  BY LanFacts DEF LanInv
<1>1. /\ lan[t] \in Request /\ lan[t].at = "posted" /\ UNCHANGED <<host, sems, allowance>>
      /\ \A u \in Tasks \ {t} : lan'[u] = lan[u]
      /\ lan' \in [Tasks -> {NoRequest} \cup Request]
      /\ \/ lan'[t] = NoRequest
         \/ /\ lan'[t].at = "backoff" /\ lan'[t].sem = lan[t].sem
            /\ lan'[t].attempt = lan[t].attempt /\ lan[t].attempt < Retries
  BY <1>0 DEF LanBackoff, Repeats, Request
<1>2. LanTypeOK'
  BY <1>0, <1>1 DEF LanTypeOK, Request
<1>3. QueueInv'
  BY <1>0, <1>1 DEF QueueInv
<1>4. SlotInv'
  <2>1. Posted' \subseteq Posted /\ \A u \in Posted' : lan'[u] = lan[u]
    BY <1>0, <1>1 DEF Posted
  <2> QED
    BY <1>1, <2>1, FitsStays
<1>5. AllowInv'
  BY <1>0, <1>1, CoversStays
<1> QED
  BY <1>2, <1>3, <1>4, <1>5 DEF LanInv

\* A semaphore of n slots.
LEMMA SlotsOfOne ==
  ASSUME NEW k \in Nat, NEW n \in Nat \ {0}
  PROVE  IsFiniteSet({k} \X (1..n)) /\ Cardinality({k} \X (1..n)) = n
<1>1. IsFiniteSet({k}) /\ Cardinality({k}) = 1
  BY FS_Singleton
<1>2. IsFiniteSet(1..n) /\ Cardinality(1..n) = n
  BY FS_Interval
<1>3. /\ IsFiniteSet({k} \X (1..n))
      /\ Cardinality({k} \X (1..n)) = Cardinality({k}) * Cardinality(1..n)
  BY <1>1, <1>2, FS_Product, ZenonT(30)
<1> QED
  BY <1>1, <1>2, <1>3

LEMMA SlotsFinite ==
  ASSUME LanInv, NEW s \in 1..Len(sems)
  PROVE  IsFiniteSet(Slots(s)) /\ Cardinality(Slots(s)) \in Nat
<1>1. s \in Int /\ Len(sems) \in Int /\ 1 \in Int /\ 8 \in Int
  BY LanFacts
<1>2. IsFiniteSet(s..Len(sems)) /\ IsFiniteSet(1..8)
  BY <1>1, FS_Interval
<1>3. IsFiniteSet((s..Len(sems)) \X (1..8))
  BY <1>2, FS_Product
<1>4. Slots(s) \in SUBSET ((s..Len(sems)) \X (1..8))
  BY DEF Slots
<1> QED
  BY <1>3, <1>4, FS_Subset, FS_CardinalityType

\* A new limit is a new semaphore; what is allowed grows with it, or starts anew.
LEMMA ConfigureKeeps ==
  ASSUME LanInv, NEW n \in Settings, Configure(n)
  PROVE  LanInv'
<1> DEFINE limit == Clamped(n)
           new == [limit |-> limit, queue |-> <<>>]
<1>0. /\ sems \in Seq(Sem) /\ Len(sems) \in Nat /\ Len(sems) \in 1..MaxSems
      /\ MaxSems \in Nat /\ allowance \in Nat
      /\ lan \in [Tasks -> {NoRequest} \cup Request]
      /\ NoRequest.at = "none" /\ QueueInv /\ LanTypeOK
  BY LanFacts DEF LanInv
<1>1. limit \in 1..8
  BY LanAssumption DEF Clamped
<1>2. new \in Sem /\ new.limit = limit
  BY <1>1 DEF Sem
<1>3. sems' = Append(sems, new) /\ UNCHANGED <<host, lan>> /\ Len(sems) < MaxSems
      /\ allowance' = IF ~Busy THEN limit ELSE allowance + limit
  BY DEF Configure, Allow
<1> HIDE DEF limit, new
<1>4. /\ sems' \in Seq(Sem) /\ Len(sems') = Len(sems) + 1 /\ sems'[Len(sems) + 1] = new
      /\ \A h \in 1..Len(sems) : sems'[h] = sems[h]
  BY <1>0, <1>2, <1>3
<1>5. LanTypeOK'
  <2>1. Len(sems') \in 1..MaxSems /\ allowance' \in Nat
    BY <1>0, <1>1, <1>3, <1>4
  <2> QED
    BY <1>0, <1>3, <1>4, <2>1 DEF LanTypeOK, Sem
<1>6. QueueInv'
  BY <1>0, <1>3, <1>4 DEF QueueInv
<1>7. SlotInv'
  <2>1. Posted' = Posted
    BY <1>3 DEF Posted
  <2>2. \A u \in Posted' : lan[u].sem \in 1..Len(sems)
    BY <1>0, <2>1 DEF QueueInv, Posted
  <2> QED
    BY <1>3, <1>4, <2>1, <2>2, FitsStays
<1>11. PICK last \in Nat : last = Len(sems) + 1
  BY <1>0
<1> DEFINE added == {last} \X (1..limit)
<1>8. IsFiniteSet(added) /\ Cardinality(added) = limit
  <2>1. limit \in Nat \ {0}
    BY <1>1
  <2> QED
    BY <2>1, SlotsOfOne
<1>10. \A s \in 1..Len(sems) + 1 : \A x :
        x \in Slots(s)' <=> x \in added \/ (s <= Len(sems) /\ x \in Slots(s))
  <2> SUFFICES ASSUME NEW s \in 1..Len(sems) + 1, NEW x
      PROVE  x \in Slots(s)' <=> x \in added \/ (s <= Len(sems) /\ x \in Slots(s))
    OBVIOUS
  <2>1. x \in Slots(s)' <=> /\ x \in (s..last) \X (1..8)
                            /\ x[2] <= sems'[x[1]].limit
    BY <1>4, <1>11 DEF Slots
  <2>2. x \in Slots(s) <=> /\ x \in (s..Len(sems)) \X (1..8)
                           /\ x[2] <= sems[x[1]].limit
    BY DEF Slots
  <2>3. ASSUME x \in (s..last) \X (1..8)
        PROVE  x \in Slots(s)' <=> x \in added \/ (s <= Len(sems) /\ x \in Slots(s))
    <3>1. PICK h \in s..last, k \in 1..8 : x = <<h, k>>
      BY <2>3
    <3>2. CASE h = last
      <4>1. sems'[h].limit = limit
        BY <1>2, <1>4, <1>11, <3>2
      <4> QED
        BY <1>0, <1>11, <1>1, <2>1, <2>2, <3>1, <3>2, <4>1
    <3>3. CASE h # last
      <4>1. h \in s..Len(sems) /\ s <= Len(sems) /\ sems'[h] = sems[h]
        BY <1>0, <1>11, <1>4, <3>3
      <4> QED
        BY <1>0, <1>11, <2>1, <2>2, <3>1, <3>3, <4>1
    <3> QED
      BY <3>2, <3>3
  <2>4. ASSUME x \notin (s..last) \X (1..8)
        PROVE  ~(x \in added \/ (s <= Len(sems) /\ x \in Slots(s)))
    BY <1>0, <1>11, <1>1, <2>2, <2>4
  <2> QED
    BY <2>1, <2>3, <2>4
<1>9. AllowInv'
  <2>1. CASE ~Busy
    <3>1. Slots(last)' = added
      BY <1>0, <1>11, <1>10
    <3>2. Covers(last)'
      <4>1. \A t \in Tasks : lan'[t].at \notin {"queued", "posted"}
        BY <1>3, <2>1 DEF Busy
      <4>2. allowance' = limit
        BY <1>3, <2>1
      <4> QED
        BY <1>1, <1>8, <3>1, <4>1, <4>2 DEF Covers
    <3>3. last \in 1..Len(sems')
      BY <1>0, <1>11, <1>4
    <3> QED
      BY <3>2, <3>3 DEF AllowInv
  <2>2. CASE Busy
    <3>1. PICK s \in 1..Len(sems) : Covers(s)
      BY DEF LanInv, AllowInv
    <3>2. Slots(s)' = Slots(s) \cup added
      BY <1>0, <1>11, <1>10
    <3>3. Slots(s) \cap added = {}
      <4>1. ASSUME NEW x \in Slots(s), x \in added
            PROVE  FALSE
        <5>1. x \in (s..Len(sems)) \X (1..8)
          BY DEF Slots
        <5>2. x[1] \in s..Len(sems) /\ x[1] = last
          BY <4>1, <5>1
        <5> QED
          BY <1>0, <1>11, <5>2
      <4> QED
        BY <4>1
    <3>4. Cardinality(Slots(s) \cup added) = Cardinality(Slots(s)) + limit
      <4> HIDE DEF added
      <4>1. /\ IsFiniteSet(Slots(s)) /\ Cardinality(Slots(s)) \in Nat
            /\ Cardinality({}) = 0
        BY SlotsFinite, FS_EmptySet
      <4>2. Cardinality(Slots(s) \cup added)
              = Cardinality(Slots(s)) + Cardinality(added) - Cardinality(Slots(s) \cap added)
        BY <1>8, <4>1, FS_Union
      <4>3. Cardinality(Slots(s) \cap added) = 0
        BY <3>3, <4>1, Zenon
      <4> QED
        BY <1>1, <1>8, <4>1, <4>2, <4>3
    <3>5. Covers(s)'
      BY <1>0, <1>11, <1>1, <1>3, <2>2, <3>1, <3>2, <3>4, SlotsFinite DEF Covers
    <3> QED
      BY <1>0, <1>11, <1>4, <3>5 DEF AllowInv
  <2> QED
    BY <2>1, <2>2
<1> QED
  BY <1>5, <1>6, <1>7, <1>9 DEF LanInv

LEMMA UnchangedKeeps ==
  ASSUME LanInv, host' \in {"up", "silent", "off"}, UNCHANGED <<sems, lan, allowance>>
  PROVE  LanInv'
<1>1. LanTypeOK' /\ QueueInv'
  BY DEF LanInv, LanTypeOK, QueueInv
<1>2. SlotInv'
  <2>1. Posted' = Posted
    BY DEF Posted
  <2> QED
    BY <2>1, FitsStays
<1>3. AllowInv'
  BY CoversStays
<1> QED
  BY <1>1, <1>2, <1>3 DEF LanInv

LEMMA InitialLan ==
  ASSUME LanInit
  PROVE  LanInv
<1>1. PICK n \in Settings : sems = <<[limit |-> Clamped(n), queue |-> <<>>]>>
  BY DEF LanInit
<1>2. PICK limit \in 1..8 : limit = Clamped(n)
  BY LanAssumption DEF Clamped
<1>3. sems \in Seq(Sem) /\ Len(sems) = 1 /\ sems[1].limit = limit
  <2>1. [limit |-> Clamped(n), queue |-> <<>>] \in Sem
    BY <1>2 DEF Sem
  <2> QED
    BY <1>1, <1>2, <2>1
<1>4. lan = [t \in Tasks |-> NoRequest] /\ allowance = limit /\ NoRequest.at = "none"
  BY <1>3 DEF LanInit, Limit, Current, NoRequest
<1>5. LanTypeOK
  <2>1. Len(sems) \in 1..MaxSems
    BY <1>3, LanAssumption
  <2> QED
    BY <1>2, <1>3, <1>4, <2>1 DEF LanInit, LanTypeOK, Sem
<1>6. QueueInv
  BY <1>4 DEF QueueInv
<1>7. SlotInv
  <2>1. Posted = {}
    BY <1>4 DEF Posted
  <2>2. [t \in Posted |-> 1] \in [Posted -> 1..8] /\ Fits([t \in Posted |-> 1])
    BY <2>1 DEF Fits
  <2> QED
    BY <2>2 DEF SlotInv
<1>8. AllowInv
  <2>1. Slots(1) = {1} \X (1..limit)
    <3>1. \A x \in (1..1) \X (1..8) : x[1] = 1 /\ x[2] \in 1..8 /\ x = <<x[1], x[2]>>
      OBVIOUS
    <3>2. Slots(1) = {x \in (1..1) \X (1..8) : x[2] <= sems[x[1]].limit}
      BY <1>3 DEF Slots
    <3>3. ASSUME NEW x \in Slots(1)
          PROVE  x \in {1} \X (1..limit)
      BY <1>2, <1>3, <3>1, <3>2
    <3>4. ASSUME NEW x \in {1} \X (1..limit)
          PROVE  x \in Slots(1)
      BY <1>2, <1>3, <3>2
    <3> QED
      BY <3>3, <3>4
  <2>2. Cardinality(Slots(1)) = limit
    BY <1>2, <2>1, SlotsOfOne
  <2>3. Covers(1)
    BY <1>2, <1>4, <2>2 DEF Covers
  <2> QED
    BY <1>3, <2>3 DEF AllowInv
<1> QED
  BY <1>5, <1>6, <1>7, <1>8 DEF LanInv

\* A request under way has a slot of its own among the slots that are allowed.
LEMMA SlotsBound ==
  ASSUME LanInv
  PROVE  Cardinality(Posted) <= allowance
<1>0. lan \in [Tasks -> {NoRequest} \cup Request] /\ NoRequest.at = "none" /\ QueueInv
      /\ Len(sems) \in Nat /\ allowance \in Nat
  BY LanFacts DEF LanInv
<1>1. PICK slot \in [Posted -> 1..8] : Fits(slot)
  BY DEF LanInv, SlotInv
<1>2. PICK s \in 1..Len(sems) : Covers(s)
  BY DEF LanInv, AllowInv
<1> DEFINE f == [t \in Posted |-> <<lan[t].sem, slot[t]>>]
<1>3. \A t \in Posted : lan[t].sem \in s..Len(sems) /\ slot[t] \in 1..8
                       /\ slot[t] <= sems[lan[t].sem].limit
  BY <1>0, <1>1, <1>2 DEF QueueInv, Fits, Covers, Posted
<1>4. \A t \in Posted : f[t] \in Slots(s)
  BY <1>3 DEF Slots
<1>5. \A t, u \in Posted : f[t] = f[u] => t = u
  BY <1>1 DEF Fits
<1>6. f \in Injection(Posted, Slots(s))
  BY <1>4, <1>5 DEF Injection, IsInjective
<1>7. IsFiniteSet(Slots(s)) /\ Cardinality(Slots(s)) \in Nat
  BY SlotsFinite
<1>8. IsFiniteSet(Posted) /\ Cardinality(Posted) <= Cardinality(Slots(s))
  <2> HIDE DEF f
  <2> QED
    BY <1>6, <1>7, FS_Injection
<1>9. Cardinality(Posted) \in Nat
  BY <1>8, FS_CardinalityType
<1> QED
  BY <1>0, <1>2, <1>7, <1>8, <1>9 DEF Covers

LanStep(t) ==
  \/ LanStart(t) \/ Post(t) \/ LanBackoff(t) \/ LanRetry(t)
  \/ \E result \in LanResults : LanEnds(t, result)

LEMMA LanStepKeeps ==
  ASSUME LanInv, NEW t \in Tasks, LanStep(t)
  PROVE  LanInv'
<1>0. lan[t] \in {NoRequest} \cup Request /\ NoRequest.at = "none" /\ Retries \in Nat \ {0}
      /\ QueueInv
  BY LanFacts DEF LanInv
<1>1. CASE LanStart(t)
  <2>1. 1 \in 1..Retries
    BY <1>0
  <2> QED
    BY <1>1, <2>1, QueueKeeps DEF LanStart
<1>2. CASE Post(t)
  BY <1>2, PostKeeps
<1>3. CASE LanBackoff(t)
  BY <1>3, LeaveKeeps
<1>4. CASE LanRetry(t)
  <2>1. lan[t].attempt + 1 \in 1..Retries
    BY <1>0, <1>4 DEF LanRetry, QueueInv, Request
  <2> QED
    BY <1>4, <2>1, QueueKeeps DEF LanRetry
<1>5. ASSUME NEW result \in LanResults, LanEnds(t, result)
      PROVE  LanInv'
  BY <1>5, LeaveKeeps DEF LanEnds
<1> QED
  BY <1>1, <1>2, <1>3, <1>4, <1>5 DEF LanStep

-----------------------------------------------------------------------------
(* Steps of the writes and the polls, and what they do to requests *)

\* A write's own steps that send no request over the LAN.
CallMoves(t) ==
  StartWrite(t) \/ Send(t) \/ Obey(t) \/ ObeyLost(t) \/ CloudOk(t) \/ CloudAuth(t)
    \/ CloudFails(t) \/ SignInFails(t)
\* A write's steps that do.
CallSends(t) == WriteLan(t) \/ LanOk(t) \/ LanFails(t) \/ GiveUp(t) \/ Repeat(t)
                  \/ (Post(t) /\ UNCHANGED routeVars)
\* The same of a poll.
FetchMoves(t) == StartFetch(t) \/ CheckPort(t) \/ NextPass(t)
FetchSends(t) ==
  Ask(t) \/ PostRead(t) \/ RepeatRead(t) \/ StatesOk(t) \/ StatesFail(t) \/ ReadOne(t)

LEMMA Steps ==
  ASSUME [Next]_vars
  PROVE  \/ \E t \in Callers : CallMoves(t) \/ CallSends(t)
         \/ \E t \in Pollers : FetchMoves(t) \/ FetchSends(t)
         \/ \E command \in Commands : ObeyLate(command)
         \/ Settle \/ Surroundings \/ UNCHANGED vars
BY DEF Next, WriteStep, FetchStep, CallMoves, CallSends, FetchMoves, FetchSends

LEMMA CallLan ==
  ASSUME NEW t
  PROVE  /\ CallMoves(t) => UNCHANGED lanVars /\ UNCHANGED fetch
         /\ CallSends(t) => LanStep(t) /\ UNCHANGED dev /\ UNCHANGED fetch
<1>1. \A lost : CloudRaises(t, lost) => UNCHANGED lanVars /\ UNCHANGED fetch
  BY DEF CloudRaises
<1>2. CallMoves(t) => UNCHANGED lanVars /\ UNCHANGED fetch
  BY <1>1 DEF CallMoves, StartWrite, Send, Obey, ObeyLost, CloudOk, CloudAuth, CloudFails,
              SignInFails
<1>3. CallSends(t) => LanStep(t) /\ UNCHANGED dev /\ UNCHANGED fetch
  BY DEF CallSends, WriteLan, LanOk, LanFails, GiveUp, Repeat, LanStep, LanResults, routeVars
<1> QED
  BY <1>2, <1>3

LEMMA FetchLan ==
  ASSUME NEW t
  PROVE  /\ FetchMoves(t) => UNCHANGED lanVars /\ UnchangedByFetch
         /\ FetchSends(t) => LanStep(t) /\ UnchangedByFetch
BY DEF FetchMoves, StartFetch, CheckPort, NextPass, FetchSends, Ask, PostRead, RepeatRead,
       StatesOk, StatesFail, ReadOne, LanStep, LanResults

LEMMA LanKept ==
  ASSUME LanInv, [Next]_vars
  PROVE  LanInv'
<1>0. Callers \subseteq Tasks /\ Pollers \subseteq Tasks /\ host \in {"up", "silent", "off"}
  BY RouteAssumption, LanFacts
<1>1. CASE UNCHANGED lanVars
  BY <1>0, <1>1, UnchangedKeeps DEF lanVars
<1>2. ASSUME NEW t \in Tasks, LanStep(t)
      PROVE  LanInv'
  BY <1>2, LanStepKeeps
<1>3. CASE Settle
  BY <1>3, ConfigureKeeps DEF Settle
<1>4. CASE Surroundings
  BY <1>4, UnchangedKeeps DEF Surroundings, HostChanges
<1> QED
  BY <1>0, <1>1, <1>2, <1>3, <1>4, Steps, CallLan, FetchLan DEF ObeyLate, vars

-----------------------------------------------------------------------------
(* Calls of async_write *)

CallTypeOK ==
  /\ dev \in [Keys -> Values] /\ late \in [Commands -> 0..MaxCopies]
  /\ write \in [Callers -> Call \cup {NoCall}]

\* A call c of a task whose request is r: it signs in while requests are left, has a LAN
\* request only when it writes over the LAN, has not been refused, and what is done has
\* been taken.
Sound(c, r) ==
  /\ c.at = "cloud" => c.sends < MaxSends
  /\ r.at # "none" => c.at = "lan"
  /\ ~c.refused
  /\ c.done => c.taken
CallInv == \A t \in Callers : Sound(write[t], lan[t])

\* What is heard when EMS has done the command or not, and the outcome is this one.
HeardOf(done, outcome) ==
  {[answered |-> reply \in Replies, token |-> reply.body = "token"] :
     reply \in {reply \in Replies \cup NoReplies :
                  /\ Honest(done, reply)
                  /\ \E cooling \in BOOLEAN : Outcome(reply, cooling) = outcome}}

LEMMA HeardIs ==
  ASSUME NEW done \in BOOLEAN, NEW outcome \in Outcomes
  PROVE  Heard[done][outcome] = HeardOf(done, outcome)
<1>1. Heard = [d \in BOOLEAN |-> [o \in Outcomes |-> HeardOf(d, o)]]
  BY DEF Heard, HeardOf
<1> QED
  BY <1>1

\* The only answer that sends a write again is that the token has expired.
LEMMA HeardAuth ==
  ASSUME NEW done \in BOOLEAN, NEW heard \in Heard[done]["auth"]
  PROVE  heard.token = TRUE
<1>1. heard \in HeardOf(done, "auth")
  BY HeardIs DEF Outcomes
<1>2. PICK reply \in Replies \cup NoReplies, cooling \in BOOLEAN :
        /\ heard = [answered |-> reply \in Replies, token |-> reply.body = "token"]
        /\ Outcome(reply, cooling) = "auth"
  BY <1>1 DEF HeardOf
<1>3. reply.body = "token"
  BY <1>2 DEF Outcome
<1> QED
  BY <1>2, <1>3

\* EMS says it has done a command only when it has.
LEMMA HeardOk ==
  ASSUME NEW done \in BOOLEAN, Heard[done]["ok"] # {}
  PROVE  done
<1>1. HeardOf(done, "ok") # {}
  BY HeardIs DEF Outcomes
<1>2. PICK reply \in Replies \cup NoReplies, cooling \in BOOLEAN :
        Honest(done, reply) /\ Outcome(reply, cooling) = "ok"
  BY <1>1 DEF HeardOf
<1> QED
  BY <1>2 DEF Outcome, Honest

\* What a step of a call leaves of the call.
CallBecomes(t, c) ==
  /\ c \in Call \cup {NoCall} /\ write' = [write EXCEPT ![t] = c]
  /\ dev' \in [Keys -> Values] /\ late' \in [Commands -> 0..MaxCopies]

LEMMA CallFacts ==
  ASSUME CallTypeOK, CallInv, NEW t \in Callers
  PROVE  /\ write[t] \in Call \cup {NoCall} /\ Sound(write[t], lan[t])
         /\ write[t].at # "idle" => write[t] \in Call
         /\ write[t].at = "idle" => write[t] = NoCall
         /\ MaxCopies \in Nat /\ NoCall.at = "idle" /\ ~NoCall.refused /\ ~NoCall.done
BY RouteAssumption DEF CallTypeOK, CallInv, Call, NoCall

LEMMA ObeyedType ==
  ASSUME dev \in [Keys -> Values], NEW command \in Commands
  PROVE  Obeyed(command) \in [Keys -> Values]
BY RouteAssumption DEF Obeyed

LEMMA EndsBecomes ==
  ASSUME CallTypeOK, NEW t \in Callers, write[t] \in Call, NEW lost \in 0..MaxCopies,
         Ends(t, lost), UNCHANGED dev
  PROVE  CallBecomes(t, NoCall)
<1>1. write[t].command \in Commands
  BY DEF Call
<1>2. late[write[t].command] + lost \in Nat /\ MaxCopies \in Nat
  BY <1>1, RouteAssumption DEF CallTypeOK
<1> QED
  BY <1>1, <1>2 DEF CallTypeOK, CallBecomes, Ends

\* A call with one field changed.
LEMMA Edits ==
  ASSUME NEW c \in Call
  PROVE  /\ \A at \in {"cloud", "sent", "lan"} : [c EXCEPT !.at = at] \in Call
         /\ \A n \in 0..MaxSends : [c EXCEPT !.sends = n] \in Call
         /\ \A n \in 0..MaxCopies : [c EXCEPT !.lost = n] \in Call
         /\ \A b \in BOOLEAN : /\ [c EXCEPT !.done = b] \in Call
                              /\ [c EXCEPT !.taken = b] \in Call
                              /\ [c EXCEPT !.refused = b] \in Call
                              /\ [c EXCEPT !.assist = b] \in Call
BY DEF Call

LEMMA NewCall ==
  ASSUME NEW at \in {"cloud", "sent", "lan"}, NEW command \in Commands, NEW assist \in BOOLEAN,
         NEW taken \in BOOLEAN, NEW lost \in 0..MaxCopies
  PROVE  /\ [NoCall EXCEPT !.at = at, !.command = command, !.assist = assist] \in Call
         /\ [NoCall EXCEPT !.at = at, !.command = command, !.taken = taken, !.lost = lost] \in Call
<1>1. 0 \in 0..MaxSends /\ 0 \in 0..MaxCopies
  BY RouteAssumption DEF MaxSends
<1>2. [NoCall EXCEPT !.at = at]
        \in [at : {"cloud", "sent", "lan"}, command : {NoCommand}, assist : BOOLEAN,
            sends : 0..MaxSends, done : BOOLEAN, taken : BOOLEAN, lost : 0..MaxCopies,
            refused : BOOLEAN]
  BY <1>1 DEF NoCall
<1>3. \A c \in [at : {"cloud", "sent", "lan"}, command : {NoCommand}, assist : BOOLEAN,
               sends : 0..MaxSends, done : BOOLEAN, taken : BOOLEAN, lost : 0..MaxCopies,
               refused : BOOLEAN] :
        [c EXCEPT !.command = command] \in Call
  BY DEF Call
<1>4. [NoCall EXCEPT !.at = at, !.command = command] \in Call
  BY <1>2, <1>3, Zenon
<1>5. [NoCall EXCEPT !.at = at, !.command = command, !.taken = taken] \in Call
  BY <1>4, Edits, Zenon
<1> QED
  BY <1>4, <1>5, Edits, Zenon

LEMMA RaisesBecomes ==
  ASSUME CallTypeOK, NEW t \in Callers, write[t] \in Call, NEW lost \in 0..MaxCopies,
         CloudRaises(t, lost), ~write[t].refused, lan[t].at = "none"
  PROVE  \E c : CallBecomes(t, c) /\ Sound(c, lan[t])
<1> DEFINE c == [NoCall EXCEPT !.at = "lan", !.command = write[t].command,
                               !.taken = write[t].taken, !.lost = lost]
<1>1. CASE Ends(t, lost)
  BY <1>1, EndsBecomes DEF CloudRaises, Sound, NoCall
<1>2. CASE write' = [write EXCEPT ![t] = c] /\ UNCHANGED late
  <2>1. c \in Call
    <3>1. write[t].command \in Commands /\ write[t].taken \in BOOLEAN
      BY DEF Call
    <3> QED
      BY <3>1, NewCall
  <2>3. Sound(c, lan[t])
    BY DEF NoCall, Sound
  <2> QED
    BY <1>2, <2>1, <2>3 DEF CallBecomes, CallTypeOK, CloudRaises
<1> QED
  BY <1>1, <1>2 DEF CloudRaises

LEMMA MayArriveType ==
  ASSUME NEW t, write[t] \in Call
  PROVE  MayArrive(t) \subseteq 0..MaxCopies
BY RouteAssumption DEF MayArrive, Call

LEMMA CallMovesTo ==
  ASSUME CallTypeOK, CallInv, NEW t \in Callers, CallMoves(t)
  PROVE  \E c : CallBecomes(t, c) /\ Sound(c, lan[t])
<1>0. /\ write[t] \in Call \cup {NoCall} /\ Sound(write[t], lan[t])
      /\ write[t].at # "idle" => write[t] \in Call
      /\ write[t].at = "idle" => write[t] = NoCall
      /\ MaxCopies \in Nat /\ NoCall.at = "idle" /\ ~NoCall.refused /\ ~NoCall.done
      /\ write \in [Callers -> Call \cup {NoCall}]
  BY CallFacts DEF CallTypeOK
<1>1. ASSUME StartWrite(t)
      PROVE  \E c : CallBecomes(t, c) /\ Sound(c, lan[t])
  <2>1. PICK command \in Commands, at \in {"cloud", "lan"}, assist \in BOOLEAN :
          write' = [write EXCEPT ![t] = [NoCall EXCEPT !.at = at, !.command = command,
                                                       !.assist = assist]]
    BY <1>1 DEF StartWrite
  <2> DEFINE c == [NoCall EXCEPT !.at = at, !.command = command, !.assist = assist]
  <2>2. c \in Call
    <3>1. at \in {"cloud", "sent", "lan"} /\ FALSE \in BOOLEAN /\ 0 \in 0..MaxCopies
      BY <1>0
    <3> QED
      BY <3>1, NewCall, Zenon
  <2>3. Sound(c, lan[t])
    BY <1>0, <1>1 DEF Sound, NoCall, MaxSends, StartWrite
  <2> QED
    BY <1>1, <2>1, <2>2, <2>3 DEF CallBecomes, CallTypeOK, StartWrite
<1>2. ASSUME Send(t)
      PROVE  \E c : CallBecomes(t, c) /\ Sound(c, lan[t])
  <2> DEFINE c == [write[t] EXCEPT !.at = "sent", !.sends = @ + 1, !.done = FALSE]
  <2>1. write[t] \in Call /\ write[t].at = "cloud" /\ write[t].sends < MaxSends
    BY <1>0, <1>2 DEF Send, Sound
  <2>4. write[t].sends + 1 \in 0..MaxSends
    BY <2>1 DEF Call, MaxSends
  <2>2. c \in Call /\ Sound(c, lan[t])
    <3>1. c \in Call
      <4>1. [write[t] EXCEPT !.at = "sent"] \in Call
        BY <2>1, Edits
      <4>2. [write[t] EXCEPT !.at = "sent", !.sends = @ + 1] \in Call
        BY <2>4, <4>1, Edits, Zenon
      <4> QED
        BY <4>2, Edits, Zenon
    <3> QED
      BY <1>0, <2>1, <3>1 DEF Sound, Call
  <2>3. write' = [write EXCEPT ![t] = c]
    BY <1>2 DEF Send
  <2> QED
    BY <1>2, <2>2, <2>3 DEF CallBecomes, CallTypeOK, Send
<1>3. ASSUME Obey(t), lan[t].at = "posted" => write[t].at # "idle"
      PROVE  \E c : CallBecomes(t, c) /\ Sound(c, lan[t])
  <2> DEFINE c == [write[t] EXCEPT !.done = TRUE, !.taken = TRUE]
  <2>1. write[t] \in Call
    BY <1>0, <1>3 DEF Obey, Posted
  <2>2. c \in Call /\ Sound(c, lan[t]) /\ write[t].command \in Commands
    BY <1>0, <2>1 DEF Call, Sound
  <2>3. write' = [write EXCEPT ![t] = c] /\ dev' = Obeyed(write[t].command) /\ late' = late
    BY <1>3 DEF Obey
  <2> QED
    BY <2>2, <2>3, ObeyedType DEF CallBecomes, CallTypeOK
<1>4. ASSUME ObeyLost(t)
      PROVE  \E c : CallBecomes(t, c) /\ Sound(c, lan[t])
  <2> DEFINE c == [write[t] EXCEPT !.lost = @ - 1, !.taken = TRUE]
             d == [write[t] EXCEPT !.lost = @ - 1]
  <2>1. write[t] \in Call /\ write[t].lost > 0
    BY <1>0, <1>4 DEF ObeyLost, NoCall
  <2>4. write[t].lost - 1 \in 0..MaxCopies
    BY <1>0, <2>1 DEF Call
  <2>2. /\ c \in Call /\ Sound(c, lan[t]) /\ write[t].command \in Commands
        /\ d \in Call /\ Sound(d, lan[t])
    <3>1. c \in Call /\ write[t].command \in Commands
      BY <2>1, <2>4 DEF Call
    <3>2. d \in Call
      BY <2>1, <2>4 DEF Call
    <3>3. Sound(c, lan[t])
      BY <1>0, <2>1 DEF Sound, Call
    <3>4. Sound(d, lan[t])
      BY <1>0, <2>1 DEF Sound, Call
    <3> QED
      BY <3>1, <3>2, <3>3, <3>4
  <2>3. /\ late' = late
        /\ \/ dev' = Obeyed(write[t].command) /\ write' = [write EXCEPT ![t] = c]
           \/ dev' = dev /\ write' = [write EXCEPT ![t] = d]
    BY <1>4 DEF ObeyLost
  <2> QED
    BY <2>2, <2>3, ObeyedType DEF CallBecomes, CallTypeOK
<1>5. ASSUME write[t].at \in {"cloud", "sent"}
      PROVE  /\ write[t] \in Call /\ lan[t].at = "none" /\ ~write[t].refused
             /\ write[t].lost \in 0..MaxCopies /\ write[t].done \in BOOLEAN
  BY <1>0, <1>5 DEF Sound, Call
<1>6. ASSUME CloudOk(t)
      PROVE  \E c : CallBecomes(t, c) /\ Sound(c, lan[t])
  BY <1>0, <1>5, <1>6, EndsBecomes DEF CloudOk, Sound
<1>7. ASSUME CloudAuth(t)
      PROVE  \E c : CallBecomes(t, c) /\ Sound(c, lan[t])
  <2>1. PICK heard \in Heard[write[t].done]["auth"] :
          write' = [write EXCEPT ![t].at = "cloud", ![t].refused = ~heard.token]
    BY <1>7 DEF CloudAuth
  <2>2. write[t].at = "sent" /\ write[t].sends < MaxSends /\ write[t] \in Call
    BY <1>5, <1>7 DEF CloudAuth
  <2>3. heard.token = TRUE
    BY <1>5, <2>2, HeardAuth
  <2> DEFINE c == [write[t] EXCEPT !.at = "cloud", !.refused = FALSE]
  <2>4. c \in Call /\ Sound(c, lan[t])
    BY <1>0, <1>5, <2>2 DEF Call, Sound
  <2>5. write' = [write EXCEPT ![t] = c]
    BY <2>1, <2>3
  <2> QED
    BY <1>7, <2>4, <2>5 DEF CallBecomes, CallTypeOK, CloudAuth
<1>8. ASSUME CloudFails(t)
      PROVE  \E c : CallBecomes(t, c) /\ Sound(c, lan[t])
  <2>1. write[t].at = "sent"
    BY <1>8 DEF CloudFails
  <2>2. PICK lost \in {write[t].lost} \cup MayArrive(t) : CloudRaises(t, lost)
    BY <1>8 DEF CloudFails
  <2>3. lost \in 0..MaxCopies
    BY <1>5, <2>1, <2>2, MayArriveType
  <2> QED
    BY <1>5, <2>1, <2>2, <2>3, RaisesBecomes
<1>9. ASSUME SignInFails(t)
      PROVE  \E c : CallBecomes(t, c) /\ Sound(c, lan[t])
  BY <1>5, <1>9, RaisesBecomes DEF SignInFails
<1>10. lan[t].at = "posted" => write[t].at # "idle"
  BY <1>0 DEF Sound
<1> QED
  BY <1>1, <1>2, <1>3, <1>4, <1>6, <1>7, <1>8, <1>9, <1>10 DEF CallMoves

LEMMA CallSendsTo ==
  ASSUME LanInv, CallTypeOK, CallInv, NEW t \in Callers, CallSends(t)
  PROVE  \E c : CallBecomes(t, c) /\ Sound(c, lan'[t])
<1>0. /\ write[t] \in Call \cup {NoCall} /\ Sound(write[t], lan[t])
      /\ write[t].at # "idle" => write[t] \in Call
      /\ MaxCopies \in Nat /\ NoCall.at = "idle" /\ ~NoCall.refused /\ ~NoCall.done
      /\ write \in [Callers -> Call \cup {NoCall}] /\ late \in [Commands -> 0..MaxCopies]
      /\ dev \in [Keys -> Values]
      /\ lan \in [Tasks -> {NoRequest} \cup Request] /\ t \in Tasks /\ NoRequest.at = "none"
  BY CallFacts, LanFacts, RouteAssumption DEF CallTypeOK
<1>1. UNCHANGED dev
  BY CallLan
<1>2. write[t].at = "lan" => write[t] \in Call /\ write[t].lost \in 0..MaxCopies
  BY <1>0 DEF Call
<1> DEFINE fresh == [write[t] EXCEPT !.done = FALSE]
<1>3. ASSUME WriteLan(t) \/ Repeat(t)
      PROVE  \E c : CallBecomes(t, c) /\ Sound(c, lan'[t])
  <2>1. write[t].at = "lan" /\ write' = [write EXCEPT ![t] = fresh] /\ UNCHANGED late
    BY <1>3 DEF WriteLan, Repeat
  <2>2. fresh \in Call /\ Sound(fresh, lan'[t])
    <3>1. fresh \in Call
      BY <1>2, <2>1, Edits
    <3>2. fresh.at = "lan" /\ fresh.refused = write[t].refused /\ fresh.done = FALSE
      BY <1>2, <2>1 DEF Call
    <3> QED
      BY <1>0, <3>1, <3>2 DEF Sound
  <2> QED
    BY <1>0, <1>1, <2>1, <2>2 DEF CallBecomes
<1>4. ASSUME LanOk(t) \/ LanFails(t)
      PROVE  \E c : CallBecomes(t, c) /\ Sound(c, lan'[t])
  <2>1. /\ write[t].at = "lan" /\ lan' = [lan EXCEPT ![t] = NoRequest]
        /\ \E lost \in {write[t].lost} \cup MayArrive(t) : Ends(t, lost)
    BY <1>4 DEF LanOk, LanFails, LanEnds
  <2>2. CallBecomes(t, NoCall)
    BY <1>1, <1>2, <2>1, MayArriveType, EndsBecomes
  <2>3. Sound(NoCall, lan'[t])
    BY <1>0, <2>1 DEF Sound
  <2> QED
    BY <2>2, <2>3
<1>5. ASSUME GiveUp(t)
      PROVE  \E c : CallBecomes(t, c) /\ Sound(c, lan'[t])
  <2>1. PICK lost \in MayArrive(t) : write' = [write EXCEPT ![t].lost = lost]
    BY <1>5 DEF GiveUp
  <2> DEFINE c == [write[t] EXCEPT !.lost = lost]
  <2>2. write[t].at = "lan" /\ write' = [write EXCEPT ![t] = c] /\ UNCHANGED late
    BY <1>5, <2>1 DEF GiveUp
  <2>3. c \in Call
    BY <1>2, <2>1, <2>2, MayArriveType, Edits
  <2>4. Sound(c, lan'[t])
    BY <1>0, <1>2, <2>2 DEF Sound, Call
  <2> QED
    BY <1>0, <1>1, <2>2, <2>3, <2>4 DEF CallBecomes
<1>6. ASSUME Post(t), UNCHANGED routeVars
      PROVE  \E c : CallBecomes(t, c) /\ Sound(c, lan'[t])
  <2>1. lan'[t].at = "posted" /\ lan[t].at = "queued"
    <3>1. lan[t] \in Request
      BY <1>0, <1>6 DEF Post
    <3> QED
      BY <1>0, <1>6, <3>1 DEF Post, Request
  <2>2. write' = [write EXCEPT ![t] = write[t]] /\ UNCHANGED late
    BY <1>0, <1>6 DEF routeVars
  <2>3. Sound(write[t], lan'[t])
    BY <1>0, <2>1 DEF Sound
  <2> QED
    BY <1>0, <1>1, <2>2, <2>3 DEF CallBecomes
<1> QED
  BY <1>3, <1>4, <1>5, <1>6 DEF CallSends

LEMMA LanStepOthers ==
  ASSUME LanInv, NEW t, LanStep(t)
  PROVE  \A u \in Tasks \ {t} : lan'[u] = lan[u]
BY LanFacts DEF LanStep, LanStart, LanRetry, Queue, Post, LanBackoff, LanEnds

LEMMA CallKept ==
  ASSUME LanInv, CallTypeOK, CallInv, [Next]_vars
  PROVE  CallTypeOK' /\ CallInv'
<1>0. Callers \subseteq Tasks /\ Callers \cap Pollers = {}
  BY RouteAssumption
<1>1. ASSUME NEW t \in Callers, CallMoves(t) \/ CallSends(t)
      PROVE  CallTypeOK' /\ CallInv'
  <2>1. \A u \in Callers \ {t} : lan'[u] = lan[u]
    BY <1>0, <1>1, CallLan, LanStepOthers DEF lanVars
  <2>2. PICK c : CallBecomes(t, c) /\ Sound(c, lan'[t])
    <3>1. CASE CallMoves(t)
      BY <3>1, CallMovesTo, CallLan DEF lanVars
    <3>2. CASE CallSends(t)
      BY <3>2, CallSendsTo
    <3> QED
      BY <1>1, <3>1, <3>2
  <2>3. CallTypeOK'
    BY <2>2 DEF CallTypeOK, CallBecomes
  <2>4. CallInv'
    <3> SUFFICES ASSUME NEW u \in Callers
        PROVE  Sound(write'[u], lan'[u])
      BY DEF CallInv
    <3>1. write'[u] = IF u = t THEN c ELSE write[u]
      BY <2>2 DEF CallTypeOK, CallBecomes
    <3> QED
      BY <2>1, <2>2, <3>1 DEF CallInv
  <2> QED
    BY <2>3, <2>4
<1>2. ASSUME NEW t \in Pollers, FetchMoves(t) \/ FetchSends(t)
      PROVE  CallTypeOK' /\ CallInv'
  <2>1. \A u \in Callers : lan'[u] = lan[u]
    BY <1>0, <1>2, FetchLan, LanStepOthers DEF lanVars
  <2>2. UNCHANGED <<dev, late, write>>
    BY <1>2, FetchLan DEF UnchangedByFetch
  <2> QED
    BY <2>1, <2>2 DEF CallTypeOK, CallInv
<1>3. ASSUME NEW command \in Commands, ObeyLate(command)
      PROVE  CallTypeOK' /\ CallInv'
  <2>1. late[command] - 1 \in 0..MaxCopies
    BY <1>3, RouteAssumption DEF ObeyLate, CallTypeOK
  <2>2. dev' \in [Keys -> Values]
    BY <1>3, ObeyedType DEF ObeyLate, CallTypeOK
  <2> QED
    BY <1>3, <2>1, <2>2 DEF ObeyLate, CallTypeOK, CallInv, lanVars
<1>4. CASE Settle \/ Surroundings \/ UNCHANGED vars
  <2>1. UNCHANGED <<dev, late, write, lan>>
    BY <1>4 DEF Settle, Configure, Surroundings, HostChanges, vars, lanVars, routeVars
  <2> QED
    BY <2>1 DEF CallTypeOK, CallInv
<1> QED
  BY <1>1, <1>2, <1>3, <1>4, Steps

-----------------------------------------------------------------------------
(* Polls *)

\* Attempts of a request that have been sent.
Sent(r) == IF r.at = "none" THEN 0 ELSE IF r.at = "queued" THEN r.attempt - 1 ELSE r.attempt

\* A poll f whose request is r: what it has still to read is bounded, and while the module
\* has been off all the time it has sent the attempts of its first request.
Polls(f, r) ==
  /\ r.at # "none" => f.at \in {"states", "walk", "fill"} /\ (f.at = "states" \/ f.todo > 0)
  /\ f.todo + f.missing <= Services /\ (f.at \in {"idle", "states", "port"} => f.missing = 0)
  /\ f.dead => /\ host = "off"
               /\ \/ f.at = "states" /\ f.posts = Sent(r)
                  \/ f.at = "port" /\ f.posts = Retries /\ r.at = "none"
FetchTypeOK == fetch \in [Pollers -> Fetch]
FetchInv == \A t \in Pollers : Polls(fetch[t], lan[t])

LEMMA FetchEdits ==
  ASSUME NEW f \in Fetch
  PROVE  /\ \A at \in {"idle", "states", "port", "walk", "fill"} : [f EXCEPT !.at = at] \in Fetch
         /\ \A n \in 0..Services : /\ [f EXCEPT !.todo = n] \in Fetch
                                  /\ [f EXCEPT !.missing = n] \in Fetch
         /\ \A n \in 0..Retries + 1 : [f EXCEPT !.posts = n] \in Fetch
         /\ \A b \in BOOLEAN : [f EXCEPT !.dead = b] \in Fetch
BY DEF Fetch

LEMMA FetchFacts ==
  ASSUME LanInv, FetchTypeOK, FetchInv, NEW t \in Pollers
  PROVE  /\ fetch[t] \in Fetch /\ Polls(fetch[t], lan[t]) /\ t \in Tasks
         /\ fetch \in [Pollers -> Fetch]
         /\ fetch[t].at \in {"idle", "states", "port", "walk", "fill"}
         /\ fetch[t].todo \in 0..Services /\ fetch[t].missing \in 0..Services
         /\ fetch[t].posts \in 0..Retries + 1 /\ fetch[t].dead \in BOOLEAN
         /\ Services \in Nat /\ Retries \in Nat \ {0}
         /\ NoFetch \in Fetch /\ NoFetch.at = "idle" /\ NoFetch.todo = 0 /\ NoFetch.missing = 0
         /\ NoFetch.dead = FALSE /\ NoFetch.posts = 0
         /\ NoRequest.at = "none"
<1>1. Services \in Nat /\ Retries \in Nat \ {0} /\ t \in Tasks /\ NoRequest.at = "none"
  BY RouteAssumption, LanFacts
<1>2. 0 \in 0..Services /\ 0 \in 0..Retries + 1
  BY <1>1
<1>3. /\ NoFetch \in Fetch /\ NoFetch.at = "idle" /\ NoFetch.todo = 0 /\ NoFetch.missing = 0
      /\ NoFetch.dead = FALSE /\ NoFetch.posts = 0
  BY <1>2 DEF NoFetch, Fetch
<1>4. fetch[t] \in Fetch /\ Polls(fetch[t], lan[t]) /\ fetch \in [Pollers -> Fetch]
  BY DEF FetchTypeOK, FetchInv
<1> QED
  BY <1>1, <1>3, <1>4 DEF Fetch

FetchBecomes(t, f) == f \in Fetch /\ fetch' = [fetch EXCEPT ![t] = f]

LEMMA FetchMovesTo ==
  ASSUME LanInv, FetchTypeOK, FetchInv, NEW t \in Pollers, FetchMoves(t)
  PROVE  \E f : FetchBecomes(t, f) /\ Polls(f, lan[t])
<1>0. /\ fetch[t] \in Fetch /\ Polls(fetch[t], lan[t])
      /\ fetch[t].todo \in 0..Services /\ fetch[t].missing \in 0..Services
      /\ fetch[t].posts \in 0..Retries + 1 /\ fetch[t].dead \in BOOLEAN
      /\ Services \in Nat /\ 0 \in 0..Services /\ Services \in 0..Services
      /\ NoFetch \in Fetch /\ NoFetch.at = "idle" /\ NoFetch.todo = 0 /\ NoFetch.missing = 0
      /\ NoFetch.dead = FALSE /\ NoFetch.posts = 0
  <2>1. Services \in Nat
    BY FetchFacts
  <2>2. 0 \in 0..Services /\ Services \in 0..Services
    BY <2>1
  <2> QED
    BY <2>1, <2>2, FetchFacts, Zenon
<1>1. ASSUME StartFetch(t)
      PROVE  \E f : FetchBecomes(t, f) /\ Polls(f, lan[t])
  <2>1. PICK dead \in BOOLEAN : dead = (host = "off")
    OBVIOUS
  <2> DEFINE f == [NoFetch EXCEPT !.at = "states", !.dead = dead]
  <2>2. fetch' = [fetch EXCEPT ![t] = f] /\ fetch[t].at = "idle"
    BY <1>1, <2>1 DEF StartFetch
  <2>3. f \in Fetch
    <3>1. [NoFetch EXCEPT !.at = "states"] \in Fetch
      BY <1>0, FetchEdits
    <3> QED
      BY <3>1, FetchEdits, Zenon
  <2>4. f.at = "states" /\ f.todo = 0 /\ f.missing = 0 /\ f.posts = 0 /\ f.dead = dead
    BY DEF NoFetch
  <2>5. lan[t].at = "none"
    BY <1>0, <2>2 DEF Polls
  <2>6. Polls(f, lan[t])
    <3> HIDE DEF f
    <3> QED
      BY <1>0, <2>1, <2>4, <2>5 DEF Polls, Sent
  <2> QED
    BY <2>2, <2>3, <2>6 DEF FetchBecomes
<1>2. FetchBecomes(t, NoFetch) /\ lan[t].at = "none" => Polls(NoFetch, lan[t])
  BY <1>0 DEF Polls
<1>3. ASSUME CheckPort(t)
      PROVE  \E f : FetchBecomes(t, f) /\ Polls(f, lan[t])
  <2>1. fetch[t].at = "port" /\ lan[t].at = "none"
    BY <1>0, <1>3 DEF CheckPort, Polls
  <2>2. CASE host = "off"
    BY <1>0, <1>2, <1>3, <2>1, <2>2 DEF CheckPort, FetchBecomes
  <2>3. CASE host # "off"
    <3> DEFINE f == [fetch[t] EXCEPT !.at = "walk", !.todo = Services]
    <3>1. fetch' = [fetch EXCEPT ![t] = f]
      BY <1>3, <2>3 DEF CheckPort, Walk
    <3>2. f \in Fetch
      <4>1. [fetch[t] EXCEPT !.at = "walk"] \in Fetch
        BY <1>0, FetchEdits
      <4> QED
        BY <1>0, <4>1, FetchEdits, Zenon
    <3>3. f.todo = Services /\ f.missing = fetch[t].missing /\ f.dead = fetch[t].dead
      BY <1>0 DEF Fetch
    <3>4. fetch[t].missing = 0
      BY <1>0, <2>1 DEF Polls
    <3>5. Polls(f, lan[t])
      <4> HIDE DEF f
      <4> QED
        BY <1>0, <2>1, <2>3, <3>3, <3>4 DEF Polls
    <3> QED
      BY <3>1, <3>2, <3>5 DEF FetchBecomes
  <2> QED
    BY <2>2, <2>3
<1>4. ASSUME NextPass(t)
      PROVE  \E f : FetchBecomes(t, f) /\ Polls(f, lan[t])
  <2>1. CASE fetch[t].at = "fill" /\ fetch' = [fetch EXCEPT ![t] = NoFetch]
    BY <1>0, <1>2, <1>4, <2>1 DEF NextPass, FetchBecomes
  <2>2. CASE fetch[t].at = "walk"
    <3> DEFINE f == [fetch[t] EXCEPT !.at = "fill", !.todo = fetch[t].missing, !.missing = 0]
    <3>1. fetch' = [fetch EXCEPT ![t] = f] /\ lan[t].at = "none"
      BY <1>4, <2>2 DEF NextPass
    <3>2. f \in Fetch
      <4>1. [fetch[t] EXCEPT !.at = "fill"] \in Fetch
        BY <1>0, FetchEdits
      <4>2. [fetch[t] EXCEPT !.at = "fill", !.todo = fetch[t].missing] \in Fetch
        BY <1>0, <4>1, FetchEdits, Zenon
      <4> QED
        BY <1>0, <4>2, FetchEdits, Zenon
    <3>3. f.todo = fetch[t].missing /\ f.missing = 0 /\ f.dead = fetch[t].dead
      BY <1>0 DEF Fetch
    <3>4. Polls(f, lan[t])
      <4> HIDE DEF f
      <4> QED
        BY <1>0, <2>2, <3>1, <3>3 DEF Polls
    <3> QED
      BY <3>1, <3>2, <3>4 DEF FetchBecomes
  <2> QED
    BY <1>4, <2>1, <2>2 DEF NextPass
<1> QED
  BY <1>1, <1>3, <1>4 DEF FetchMoves

LEMMA FetchSendsTo ==
  ASSUME LanInv, FetchTypeOK, FetchInv, NEW t \in Pollers, FetchSends(t)
  PROVE  \E f : FetchBecomes(t, f) /\ Polls(f, lan'[t])
<1>0. /\ fetch[t] \in Fetch /\ Polls(fetch[t], lan[t]) /\ t \in Tasks
      /\ fetch \in [Pollers -> Fetch]
      /\ fetch[t].todo \in 0..Services /\ fetch[t].missing \in 0..Services
      /\ fetch[t].posts \in 0..Retries + 1 /\ fetch[t].dead \in BOOLEAN
      /\ Services \in Nat /\ Retries \in Nat \ {0}
      /\ NoFetch \in Fetch /\ NoFetch.at = "idle" /\ NoFetch.todo = 0 /\ NoFetch.missing = 0
      /\ NoFetch.dead = FALSE /\ NoFetch.posts = 0 /\ NoRequest.at = "none"
      /\ fetch' = fetch => FetchBecomes(t, fetch[t])
  BY FetchFacts DEF FetchBecomes
<1>1. /\ lan \in [Tasks -> {NoRequest} \cup Request]
      /\ lan[t].at # "none" => lan[t].attempt \in 1..Retries
      /\ lan[t].at \in {"none", "queued", "posted", "backoff"}
      /\ lan[t].at = "backoff" => lan[t].attempt < Retries
  BY <1>0, LanFacts DEF Request, LanInv, QueueInv
<1>2. 0 \in 0..Services /\ Services \in 0..Services
  BY <1>0
<1>3. ASSUME Ask(t)
      PROVE  \E f : FetchBecomes(t, f) /\ Polls(f, lan'[t])
  <2>1. lan'[t].at = "queued" /\ lan'[t].attempt = 1 /\ lan[t].at = "none"
    BY <1>0, <1>1, <1>3 DEF Ask, LanStart, Queue
  <2>2. fetch' = fetch /\ (fetch[t].at = "states" \/ (fetch[t].at \in {"walk", "fill"} /\ fetch[t].todo > 0))
    BY <1>3 DEF Ask
  <2>3. Polls(fetch[t], lan'[t])
    BY <1>0, <2>1, <2>2 DEF Polls, Sent
  <2> QED
    BY <1>0, <2>2, <2>3
<1>4. ASSUME PostRead(t)
      PROVE  \E f : FetchBecomes(t, f) /\ Polls(f, lan'[t])
  <2>1. lan[t].at = "queued" /\ lan' = [lan EXCEPT ![t].at = "posted"]
    BY <1>4 DEF PostRead, Post
  <2>2. lan'[t].at = "posted" /\ lan'[t].attempt = lan[t].attempt
    <3>1. lan[t] \in Request
      BY <1>0, <1>1, <2>1
    <3> QED
      BY <1>0, <1>1, <2>1, <3>1 DEF Request
  <2>3. PICK n \in 0..Retries + 1 :
          n = IF fetch[t].posts <= Retries THEN fetch[t].posts + 1 ELSE fetch[t].posts
    BY <1>0
  <2> DEFINE f == [fetch[t] EXCEPT !.posts = n]
  <2>4. fetch' = [fetch EXCEPT ![t] = f]
    BY <1>4, <2>3 DEF PostRead
  <2>5. f \in Fetch
    BY <1>0, FetchEdits
  <2>6. /\ f.at = fetch[t].at /\ f.todo = fetch[t].todo /\ f.missing = fetch[t].missing
        /\ f.dead = fetch[t].dead /\ f.posts = n
    BY <1>0 DEF Fetch
  <2>7. Polls(f, lan'[t])
    <3> HIDE DEF f
    <3> QED
      BY <1>0, <1>1, <2>1, <2>2, <2>3, <2>6 DEF Polls, Sent
  <2> QED
    BY <2>4, <2>5, <2>7 DEF FetchBecomes
<1>5. ASSUME RepeatRead(t)
      PROVE  \E f : FetchBecomes(t, f) /\ Polls(f, lan'[t])
  <2>1. CASE LanBackoff(t)
    <3>1. lan[t].at = "posted" /\ lan' = [lan EXCEPT ![t].at = "backoff"] /\ fetch' = fetch
      BY <1>5, <2>1 DEF LanBackoff, RepeatRead
    <3>2. lan'[t].at = "backoff" /\ lan'[t].attempt = lan[t].attempt
      <4>1. lan[t] \in Request
        BY <1>0, <1>1, <3>1
      <4> QED
        BY <1>0, <1>1, <3>1, <4>1 DEF Request
    <3>3. Polls(fetch[t], lan'[t])
      BY <1>0, <3>1, <3>2 DEF Polls, Sent
    <3> QED
      BY <1>0, <3>1, <3>3
  <2>2. CASE LanRetry(t)
    <3>1. lan[t].at = "backoff" /\ lan'[t].at = "queued" /\ lan'[t].attempt = lan[t].attempt + 1
          /\ fetch' = fetch
      BY <1>0, <1>1, <1>5, <2>2 DEF LanRetry, Queue, RepeatRead
    <3>2. Polls(fetch[t], lan'[t])
      BY <1>0, <1>1, <3>1 DEF Polls, Sent
    <3> QED
      BY <1>0, <3>1, <3>2
  <2> QED
    BY <1>5, <2>1, <2>2 DEF RepeatRead
<1>6. ASSUME NEW result, LanEnds(t, result)
      PROVE  /\ lan[t].at = "posted" /\ lan'[t] = NoRequest
             /\ result = "transport" => lan[t].attempt = Retries
             /\ result # "transport" => host = "up" /\ ~fetch[t].dead
  BY <1>0, <1>1, <1>6 DEF LanEnds, Repeats, Polls
<1> DEFINE walk == [fetch[t] EXCEPT !.at = "walk", !.todo = Services]
<1>7. /\ walk \in Fetch /\ walk.at = "walk" /\ walk.todo = Services
      /\ walk.missing = fetch[t].missing /\ walk.dead = fetch[t].dead
  <2>1. [fetch[t] EXCEPT !.at = "walk"] \in Fetch
    BY <1>0, FetchEdits
  <2>2. walk \in Fetch
    BY <1>2, <2>1, FetchEdits, Zenon
  <2>3. /\ walk.at = "walk" /\ walk.todo = Services
        /\ walk.missing = fetch[t].missing /\ walk.dead = fetch[t].dead
    BY <1>0 DEF Fetch
  <2> QED
    BY <2>2, <2>3
<1>8. ASSUME StatesOk(t)
      PROVE  \E f : FetchBecomes(t, f) /\ Polls(f, lan'[t])
  <2>1. PICK n \in 0..Services : fetch' = [fetch EXCEPT ![t].at = "fill", ![t].todo = n]
    BY <1>8 DEF StatesOk
  <2>2. LanEnds(t, "ok") /\ fetch[t].at = "states"
    BY <1>8 DEF StatesOk
  <2> DEFINE f == [fetch[t] EXCEPT !.at = "fill", !.todo = n]
  <2>3. f \in Fetch
    <3>1. [fetch[t] EXCEPT !.at = "fill"] \in Fetch
      BY <1>0, FetchEdits
    <3> QED
      BY <3>1, FetchEdits, Zenon
  <2>4. f.at = "fill" /\ f.todo = n /\ f.missing = fetch[t].missing /\ f.dead = fetch[t].dead
    BY <1>0 DEF Fetch
  <2>6. lan'[t].at = "none" /\ ~fetch[t].dead /\ fetch[t].missing = 0
    BY <1>0, <1>6, <2>2 DEF Polls
  <2>5. Polls(f, lan'[t])
    <3> HIDE DEF f
    <3> QED
      BY <1>0, <2>4, <2>6 DEF Polls
  <2> QED
    BY <2>1, <2>3, <2>5 DEF FetchBecomes
<1>9. ASSUME StatesFail(t)
      PROVE  \E f : FetchBecomes(t, f) /\ Polls(f, lan'[t])
  <2>0. fetch[t].at = "states"
    BY <1>9 DEF StatesFail
  <2>1. CASE LanEnds(t, "rejected") /\ Walk(t)
    <3>2. lan'[t].at = "none" /\ ~fetch[t].dead /\ fetch[t].missing = 0
      BY <1>0, <1>6, <2>0, <2>1 DEF Polls
    <3>1. Polls(walk, lan'[t])
      <4> HIDE DEF walk
      <4> QED
        BY <1>0, <1>7, <3>2 DEF Polls
    <3> QED
      BY <1>7, <2>1, <3>1 DEF FetchBecomes, Walk
  <2>2. CASE LanEnds(t, "transport") /\ fetch' = [fetch EXCEPT ![t].at = "port"]
    <3> DEFINE f == [fetch[t] EXCEPT !.at = "port"]
    <3>1. f \in Fetch
      BY <1>0, FetchEdits
    <3>2. /\ f.at = "port" /\ f.todo = fetch[t].todo /\ f.missing = fetch[t].missing
          /\ f.dead = fetch[t].dead /\ f.posts = fetch[t].posts
      BY <1>0 DEF Fetch
    <3>4. /\ lan[t].at = "posted" /\ lan'[t].at = "none" /\ lan[t].attempt = Retries
          /\ fetch[t].missing = 0
      BY <1>0, <1>6, <2>0, <2>2 DEF Polls
    <3>3. Polls(f, lan'[t])
      <4> HIDE DEF f
      <4> QED
        BY <1>0, <2>0, <3>2, <3>4 DEF Polls, Sent
    <3> QED
      BY <2>2, <3>1, <3>3 DEF FetchBecomes
  <2>3. CASE LanEnds(t, "other") /\ fetch' = [fetch EXCEPT ![t] = NoFetch]
    <3>2. lan'[t].at = "none"
      BY <1>0, <1>6, <2>3
    <3>1. Polls(NoFetch, lan'[t])
      BY <1>0, <3>2 DEF Polls
    <3> QED
      BY <1>0, <2>3, <3>1 DEF FetchBecomes
  <2> QED
    BY <1>9, <2>1, <2>2, <2>3 DEF StatesFail
<1>10. ASSUME ReadOne(t)
       PROVE  \E f : FetchBecomes(t, f) /\ Polls(f, lan'[t])
  <2>1. PICK result \in LanResults :
          /\ LanEnds(t, result)
          /\ fetch' = [fetch EXCEPT ![t].todo = @ - 1,
                 ![t].missing = IF result = "ok" \/ fetch[t].at = "fill" THEN @ ELSE @ + 1]
    BY <1>10 DEF ReadOne
  <2>2. fetch[t].at \in {"walk", "fill"} /\ fetch[t].todo > 0
    BY <1>0, <1>6, <1>10, <2>1 DEF ReadOne, Polls
  <2>3. PICK missing \in 0..Services :
          missing = IF result = "ok" \/ fetch[t].at = "fill" THEN fetch[t].missing
                                                           ELSE fetch[t].missing + 1
    BY <1>0, <2>2 DEF Polls
  <2> DEFINE f == [fetch[t] EXCEPT !.todo = @ - 1, !.missing = missing]
  <2>4. fetch' = [fetch EXCEPT ![t] = f]
    BY <2>1, <2>3
  <2>5. f \in Fetch
    <3>1. fetch[t].todo - 1 \in 0..Services
      BY <1>0, <2>2
    <3>2. [fetch[t] EXCEPT !.todo = @ - 1] \in Fetch
      BY <1>0, <3>1, FetchEdits
    <3> QED
      BY <3>2, FetchEdits, Zenon
  <2>6. /\ f.at = fetch[t].at /\ f.todo = fetch[t].todo - 1 /\ f.missing = missing
        /\ f.dead = fetch[t].dead
    BY <1>0 DEF Fetch
  <2>7. fetch[t].dead = FALSE
    BY <1>0, <2>2 DEF Polls
  <2>9. lan'[t].at = "none" /\ fetch[t].todo + fetch[t].missing <= Services
    BY <1>0, <1>6, <2>1 DEF Polls
  <2>8. Polls(f, lan'[t])
    <3> HIDE DEF f
    <3> QED
      BY <1>0, <2>2, <2>3, <2>6, <2>7, <2>9 DEF Polls
  <2> QED
    BY <2>4, <2>5, <2>8 DEF FetchBecomes
<1> QED
  BY <1>3, <1>4, <1>5, <1>8, <1>9, <1>10 DEF FetchSends

LEMMA FetchKept ==
  ASSUME LanInv, FetchTypeOK, FetchInv, [Next]_vars
  PROVE  FetchTypeOK' /\ FetchInv'
<1>0. Pollers \subseteq Tasks /\ Callers \cap Pollers = {}
  BY RouteAssumption
<1>1. ASSUME NEW t \in Pollers, FetchMoves(t) \/ FetchSends(t)
      PROVE  FetchTypeOK' /\ FetchInv'
  <2>1. UNCHANGED host /\ \A u \in Pollers \ {t} : lan'[u] = lan[u]
    <3>1. CASE FetchMoves(t)
      BY <3>1, FetchLan DEF lanVars
    <3>2. CASE FetchSends(t)
      <4>1. LanStep(t)
        BY <3>2, FetchLan
      <4> QED
        BY <1>0, <4>1, LanStepOthers DEF LanStep, LanStart, LanRetry, Queue, Post, LanBackoff, LanEnds
    <3> QED
      BY <1>1, <3>1, <3>2
  <2>2. PICK f : FetchBecomes(t, f) /\ Polls(f, lan'[t])
    <3>1. CASE FetchMoves(t)
      BY <3>1, FetchMovesTo, FetchLan DEF lanVars
    <3>2. CASE FetchSends(t)
      BY <3>2, FetchSendsTo
    <3> QED
      BY <1>1, <3>1, <3>2
  <2>3. FetchTypeOK'
    BY <2>2 DEF FetchTypeOK, FetchBecomes
  <2>4. FetchInv'
    <3> SUFFICES ASSUME NEW u \in Pollers
        PROVE  Polls(fetch[u], lan[u])'
      BY DEF FetchInv
    <3>1. fetch'[u] = IF u = t THEN f ELSE fetch[u]
      BY <2>2 DEF FetchTypeOK, FetchBecomes
    <3>2. Polls(f, lan'[t]) /\ (u # t => Polls(fetch[u], lan[u]))
      BY <2>2 DEF FetchInv
    <3> QED
      BY <2>1, <3>1, <3>2 DEF Polls
  <2> QED
    BY <2>3, <2>4
<1>2. ASSUME UNCHANGED <<fetch, host>>, \A u \in Pollers : lan'[u] = lan[u]
      PROVE  FetchTypeOK' /\ FetchInv'
  <2>1. FetchTypeOK'
    BY <1>2 DEF FetchTypeOK
  <2>2. FetchInv'
    BY <1>2 DEF FetchInv, Polls
  <2> QED
    BY <2>1, <2>2
<1>3. ASSUME NEW t \in Callers, CallMoves(t) \/ CallSends(t)
      PROVE  FetchTypeOK' /\ FetchInv'
  <2>1. CASE CallMoves(t)
    BY <1>2, <2>1, CallLan DEF lanVars
  <2>2. CASE CallSends(t)
    <3>1. LanStep(t) /\ UNCHANGED fetch
      BY <2>2, CallLan
    <3>2. UNCHANGED host
      BY <3>1 DEF LanStep, LanStart, LanRetry, Queue, Post, LanBackoff, LanEnds
    <3> QED
      BY <1>0, <1>2, <3>1, <3>2, LanStepOthers
  <2> QED
    BY <1>3, <2>1, <2>2
<1>4. CASE Surroundings
  <2>1. UNCHANGED lan /\ fetch' = [t \in Pollers |-> [fetch[t] EXCEPT !.dead = @ /\ host' = "off"]]
    BY <1>4 DEF Surroundings, HostChanges
  <2>2. ASSUME NEW t \in Pollers
        PROVE  fetch'[t] \in Fetch /\ Polls(fetch[t], lan[t])'
    <3>1. PICK dead \in BOOLEAN : dead = (fetch[t].dead /\ host' = "off")
      OBVIOUS
    <3>2. fetch'[t] = [fetch[t] EXCEPT !.dead = dead]
      BY <2>1, <3>1
    <3>3. fetch[t] \in Fetch /\ Polls(fetch[t], lan[t]) /\ fetch[t].dead \in BOOLEAN
      BY FetchFacts
    <3>4. fetch'[t] \in Fetch
      BY <3>2, <3>3, FetchEdits
    <3>5. /\ fetch'[t].at = fetch[t].at /\ fetch'[t].todo = fetch[t].todo
          /\ fetch'[t].missing = fetch[t].missing /\ fetch'[t].posts = fetch[t].posts
          /\ fetch'[t].dead = dead
      BY <3>2, <3>3 DEF Fetch
    <3>6. Polls(fetch[t], lan[t])'
      BY <2>1, <3>1, <3>3, <3>5 DEF Polls
    <3> QED
      BY <3>4, <3>6
  <2>3. FetchTypeOK'
    BY <2>1, <2>2 DEF FetchTypeOK
  <2> QED
    BY <2>2, <2>3 DEF FetchInv
<1>5. ASSUME NEW command \in Commands, ObeyLate(command)
      PROVE  FetchTypeOK' /\ FetchInv'
  BY <1>2, <1>5 DEF ObeyLate, lanVars
<1>6. CASE Settle \/ UNCHANGED vars
  BY <1>2, <1>6 DEF Settle, Configure, vars, lanVars, routeVars
<1> QED
  BY <1>1, <1>3, <1>4, <1>5, <1>6, Steps

-----------------------------------------------------------------------------
(* What CommandDelivery sees of the writes *)

Out == [t \in Callers |-> write[t].command]
Taken == {t \in Callers : write[t].taken}
Deliver == Delivery!DeliveryNext \/ UNCHANGED Delivery!deliveryVars

LEMMA Sees ==
  ASSUME CallTypeOK, NEW t \in Callers, NEW c, write' = [write EXCEPT ![t] = c],
         c.taken \in BOOLEAN
  PROVE  /\ Out' = [Out EXCEPT ![t] = c.command]
         /\ Taken' = IF c.taken THEN Taken \cup {t} ELSE Taken \ {t}
         /\ c.command = write[t].command => Out' = Out
         /\ c.taken = write[t].taken => Taken' = Taken
<1>1. \A u \in Callers : write'[u] = IF u = t THEN c ELSE write[u]
  BY DEF CallTypeOK
<1>2. Out' = [Out EXCEPT ![t] = c.command]
  <2>1. Out' = [u \in Callers |-> write'[u].command]
    BY DEF Out
  <2>2. [Out EXCEPT ![t] = c.command] = [u \in Callers |-> IF u = t THEN c.command ELSE write[u].command]
    BY DEF Out
  <2>3. \A u \in Callers : write'[u].command = IF u = t THEN c.command ELSE write[u].command
    BY <1>1
  <2> QED
    BY <2>1, <2>2, <2>3
<1>3. \A u \in Callers : u \in Taken' <=> IF u = t THEN c.taken ELSE u \in Taken
  BY <1>1 DEF Taken
<1>4. Taken' \subseteq Callers /\ Taken \subseteq Callers
  BY DEF Taken
<1>5. c.taken = write[t].taken => Taken' = Taken
  BY <1>3, <1>4 DEF Taken
<1>6. c.command = write[t].command => Out' = Out
  BY <1>1 DEF Out
<1> QED
  BY <1>2, <1>3, <1>4, <1>5, <1>6

\* Steps that change neither the command a call waits for nor what is known of it.
LEMMA SeesNothing ==
  ASSUME UNCHANGED <<dev, late>>, Out' = Out, Taken' = Taken
  PROVE  Deliver
BY DEF Deliver, Delivery!deliveryVars, Out, Taken

LEMMA EndsLeaves ==
  ASSUME CallTypeOK, NEW t \in Callers, write[t] \in Call, NEW lost \in 0..MaxCopies,
         Ends(t, lost), UNCHANGED dev
  PROVE  Delivery!Leave(t, NoCommand) /\ Deliver
<1>1. write[t].command \in Commands /\ NoCommand \notin Commands /\ MaxCopies \in Nat
  BY RouteAssumption DEF Call
<1>2. NoCall.taken = FALSE /\ NoCall.command = NoCommand
  BY DEF NoCall
<1>3. Out' = [Out EXCEPT ![t] = NoCommand] /\ Taken' = Taken \ {t}
  BY <1>2, Sees DEF Ends
<1>4. late[write[t].command] \in 0..MaxCopies
  BY <1>1 DEF CallTypeOK
<1>5. PICK n \in 0..MaxCopies :
        late' = [late EXCEPT ![write[t].command] = late[write[t].command] + n]
  <2>1. CASE late[write[t].command] + lost <= MaxCopies
    BY <2>1 DEF Ends
  <2>2. CASE ~(late[write[t].command] + lost <= MaxCopies)
    <3>1. PICK n \in 0..MaxCopies : late[write[t].command] + n = MaxCopies
      <4>1. MaxCopies - late[write[t].command] \in 0..MaxCopies
        BY <1>1, <1>4
      <4>2. late[write[t].command] + (MaxCopies - late[write[t].command]) = MaxCopies
        BY <1>1, <1>4
      <4> QED
        BY <4>1, <4>2
    <3> QED
      BY <2>2, <3>1 DEF Ends
  <2> QED
    BY <2>1, <2>2
<1>6. Out[t] = write[t].command
  BY DEF Out
<1>7. Delivery!Leave(t, NoCommand)
  BY <1>1, <1>3, <1>5, <1>6 DEF Delivery!Leave, Delivery!Quiet, Out, Taken
<1>8. Delivery!Return(t)
  BY <1>7 DEF Delivery!Return, Delivery!Fail
<1> QED
  BY <1>7, <1>8 DEF Deliver, Delivery!DeliveryNext

LEMMA TakeSeen ==
  ASSUME CallTypeOK, NEW t \in Callers, write[t] \in Call, NEW c,
         write' = [write EXCEPT ![t] = c], c.command = write[t].command, c.taken = TRUE,
         dev' = Obeyed(write[t].command), UNCHANGED late
  PROVE  Deliver
<1>1. write[t].command \in Commands /\ NoCommand \notin Commands
  BY RouteAssumption DEF Call
<1>2. Out' = Out /\ Taken' = Taken \cup {t}
  BY Sees
<1>3. Out[t] = write[t].command
  BY DEF Out
<1>4. Delivery!Take(t)
  BY <1>1, <1>2, <1>3 DEF Delivery!Take, Delivery!Quiet, Delivery!Obeyed, Obeyed, Out, Taken
<1> QED
  BY <1>4 DEF Deliver, Delivery!DeliveryNext

LEMMA RaisesSeen ==
  ASSUME CallTypeOK, NEW t \in Callers, write[t] \in Call, NEW lost \in 0..MaxCopies,
         CloudRaises(t, lost)
  PROVE  Deliver
<1> DEFINE c == [NoCall EXCEPT !.at = "lan", !.command = write[t].command,
                               !.taken = write[t].taken, !.lost = lost]
<1>1. CASE Ends(t, lost)
  BY <1>1, EndsLeaves DEF CloudRaises
<1>2. CASE write' = [write EXCEPT ![t] = c] /\ UNCHANGED late
  <2>1. c.command = write[t].command /\ c.taken = write[t].taken
    BY DEF NoCall
  <2>2. write[t].taken \in BOOLEAN
    BY DEF Call
  <2>3. Out' = Out /\ Taken' = Taken
    <3> HIDE DEF c
    <3> QED
      BY <1>2, <2>1, <2>2, Sees
  <2> QED
    BY <1>2, <2>3, SeesNothing DEF CloudRaises
<1> QED
  BY <1>1, <1>2 DEF CloudRaises

\* A call that changes in other fields only.
LEMMA OtherFields ==
  ASSUME CallTypeOK, NEW t \in Callers, NEW c, write' = [write EXCEPT ![t] = c],
         write[t] \in Call, c.command = write[t].command, c.taken = write[t].taken,
         UNCHANGED <<dev, late>>
  PROVE  Deliver
<1>1. c.taken \in BOOLEAN
  BY DEF Call
<1>2. Out' = Out /\ Taken' = Taken
  BY <1>1, Sees
<1> QED
  BY <1>2, SeesNothing

LEMMA CallMovesSeen ==
  ASSUME CallTypeOK, CallInv, NEW t \in Callers, CallMoves(t)
  PROVE  Deliver /\ (CloudOk(t) => Delivery!Succeed(t, NoCommand))
<1>0. /\ write[t] \in Call \cup {NoCall} /\ Sound(write[t], lan[t])
      /\ write[t].at # "idle" => write[t] \in Call
      /\ write[t].at = "idle" => write[t] = NoCall
      /\ MaxCopies \in Nat /\ NoCall.at = "idle"
      /\ write \in [Callers -> Call \cup {NoCall}]
  BY CallFacts DEF CallTypeOK
<1>1. ASSUME StartWrite(t)
      PROVE  Deliver
  <2>1. PICK command \in Commands, at \in {"cloud", "lan"}, assist \in BOOLEAN :
          write' = [write EXCEPT ![t] = [NoCall EXCEPT !.at = at, !.command = command,
                                                       !.assist = assist]]
    BY <1>1 DEF StartWrite
  <2> DEFINE c == [NoCall EXCEPT !.at = at, !.command = command, !.assist = assist]
  <2>2. c.command = command /\ c.taken = FALSE
    BY DEF NoCall
  <2>3. Out' = [Out EXCEPT ![t] = command] /\ Taken' = Taken \ {t}
    <3> HIDE DEF c
    <3> QED
      BY <2>1, <2>2, Sees DEF c
  <2>4. Out[t] = NoCommand
    BY <1>0, <1>1 DEF StartWrite, Out, NoCall
  <2>5. Delivery!Open(t, command)
    BY <1>1, <2>3, <2>4 DEF Delivery!Open, Delivery!Quiet, Out, Taken, StartWrite
  <2> QED
    BY <2>5 DEF Deliver, Delivery!DeliveryNext
<1>2. ASSUME Send(t)
      PROVE  Deliver
  <2> DEFINE c == [write[t] EXCEPT !.at = "sent", !.sends = @ + 1, !.done = FALSE]
  <2>1. write[t] \in Call /\ write' = [write EXCEPT ![t] = c] /\ UNCHANGED <<dev, late>>
    BY <1>0, <1>2 DEF Send
  <2>2. c.command = write[t].command /\ c.taken = write[t].taken
    BY <2>1 DEF Call
  <2> HIDE DEF c
  <2> QED
    BY <2>1, <2>2, OtherFields
<1>3. ASSUME Obey(t), lan[t].at = "posted" => write[t].at # "idle"
      PROVE  Deliver
  <2> DEFINE c == [write[t] EXCEPT !.done = TRUE, !.taken = TRUE]
  <2>1. write[t] \in Call
    BY <1>0, <1>3 DEF Obey, Posted
  <2>2. c.command = write[t].command /\ c.taken = TRUE
    BY <2>1 DEF Call
  <2>3. write' = [write EXCEPT ![t] = c] /\ dev' = Obeyed(write[t].command) /\ late' = late
    BY <1>3 DEF Obey
  <2> HIDE DEF c
  <2> QED
    BY <2>1, <2>2, <2>3, TakeSeen
<1>4. ASSUME ObeyLost(t)
      PROVE  Deliver
  <2> DEFINE c == [write[t] EXCEPT !.lost = @ - 1, !.taken = TRUE]
             d == [write[t] EXCEPT !.lost = @ - 1]
  <2>1. write[t] \in Call /\ write[t].lost > 0
    BY <1>0, <1>4 DEF ObeyLost, NoCall
  <2>2. /\ c.command = write[t].command /\ c.taken = TRUE
        /\ d.command = write[t].command /\ d.taken = write[t].taken
    BY <2>1 DEF Call
  <2>3. /\ late' = late
        /\ \/ dev' = Obeyed(write[t].command) /\ write' = [write EXCEPT ![t] = c]
           \/ dev' = dev /\ write' = [write EXCEPT ![t] = d]
    BY <1>4 DEF ObeyLost
  <2> HIDE DEF c, d
  <2> QED
    BY <2>1, <2>2, <2>3, TakeSeen, OtherFields
<1>5. ASSUME write[t].at \in {"cloud", "sent"}
      PROVE  /\ write[t] \in Call /\ write[t].lost \in 0..MaxCopies /\ write[t].done \in BOOLEAN
  BY <1>0, <1>5 DEF Call
<1>6. ASSUME CloudOk(t)
      PROVE  Deliver /\ Delivery!Succeed(t, NoCommand)
  <2>1. Deliver /\ Delivery!Leave(t, NoCommand)
    BY <1>5, <1>6, EndsLeaves DEF CloudOk
  <2>2. write[t].done
    BY <1>5, <1>6, HeardOk DEF CloudOk
  <2>3. t \in Taken
    BY <1>0, <2>2 DEF Sound, Taken
  <2> QED
    BY <2>1, <2>3 DEF Delivery!Succeed, Taken
<1>7. ASSUME CloudAuth(t)
      PROVE  Deliver
  <2>1. PICK heard \in Heard[write[t].done]["auth"] :
          write' = [write EXCEPT ![t].at = "cloud", ![t].refused = ~heard.token]
    BY <1>7 DEF CloudAuth
  <2> DEFINE c == [write[t] EXCEPT !.at = "cloud", !.refused = ~heard.token]
  <2>2. write[t] \in Call /\ write' = [write EXCEPT ![t] = c] /\ UNCHANGED <<dev, late>>
    BY <1>5, <1>7, <2>1 DEF CloudAuth
  <2>3. c.command = write[t].command /\ c.taken = write[t].taken
    BY <2>2 DEF Call
  <2> HIDE DEF c
  <2> QED
    BY <2>2, <2>3, OtherFields
<1>8. ASSUME CloudFails(t)
      PROVE  Deliver
  <2>1. write[t].at = "sent"
    BY <1>8 DEF CloudFails
  <2>2. PICK lost \in {write[t].lost} \cup MayArrive(t) : CloudRaises(t, lost)
    BY <1>8 DEF CloudFails
  <2>3. lost \in 0..MaxCopies
    BY <1>5, <2>1, <2>2, MayArriveType
  <2> QED
    BY <1>5, <2>1, <2>2, <2>3, RaisesSeen
<1>9. ASSUME SignInFails(t)
      PROVE  Deliver
  BY <1>5, <1>9, RaisesSeen DEF SignInFails
<1>10. lan[t].at = "posted" => write[t].at # "idle"
  BY <1>0 DEF Sound
<1> QED
  BY <1>1, <1>2, <1>3, <1>4, <1>6, <1>7, <1>8, <1>9, <1>10 DEF CallMoves

LEMMA CallSendsSeen ==
  ASSUME CallTypeOK, CallInv, NEW t \in Callers, CallSends(t)
  PROVE  Deliver /\ (LanOk(t) => Delivery!Succeed(t, NoCommand))
<1>0. /\ Sound(write[t], lan[t])
      /\ write[t].at = "lan" => /\ write[t] \in Call /\ write[t].lost \in 0..MaxCopies
      /\ UNCHANGED dev
  BY CallFacts, CallLan DEF Call
<1>1. ASSUME WriteLan(t) \/ Repeat(t)
      PROVE  Deliver
  <2> DEFINE c == [write[t] EXCEPT !.done = FALSE]
  <2>1. write[t] \in Call /\ write' = [write EXCEPT ![t] = c] /\ UNCHANGED <<dev, late>>
    BY <1>0, <1>1 DEF WriteLan, Repeat
  <2>2. c.command = write[t].command /\ c.taken = write[t].taken
    BY <2>1 DEF Call
  <2> HIDE DEF c
  <2> QED
    BY <2>1, <2>2, OtherFields
<1>2. ASSUME LanOk(t)
      PROVE  Deliver /\ Delivery!Succeed(t, NoCommand)
  <2>1. Deliver /\ Delivery!Leave(t, NoCommand)
    BY <1>0, <1>2, EndsLeaves DEF LanOk
  <2>2. t \in Taken
    BY <1>0, <1>2 DEF Sound, Taken, LanOk
  <2> QED
    BY <2>1, <2>2 DEF Delivery!Succeed, Taken
<1>3. ASSUME LanFails(t)
      PROVE  Deliver
  <2>1. write[t].at = "lan" /\ \E lost \in {write[t].lost} \cup MayArrive(t) : Ends(t, lost)
    BY <1>3 DEF LanFails
  <2> QED
    BY <1>0, <2>1, MayArriveType, EndsLeaves
<1>4. ASSUME GiveUp(t)
      PROVE  Deliver
  <2>1. PICK lost \in MayArrive(t) : write' = [write EXCEPT ![t].lost = lost]
    BY <1>4 DEF GiveUp
  <2> DEFINE c == [write[t] EXCEPT !.lost = lost]
  <2>2. write[t] \in Call /\ write' = [write EXCEPT ![t] = c] /\ UNCHANGED <<dev, late>>
    BY <1>0, <1>4, <2>1 DEF GiveUp
  <2>3. c.command = write[t].command /\ c.taken = write[t].taken
    BY <2>2 DEF Call
  <2> HIDE DEF c
  <2> QED
    BY <2>2, <2>3, OtherFields
<1>5. ASSUME Post(t), UNCHANGED routeVars
      PROVE  Deliver
  BY <1>5, SeesNothing DEF routeVars, Out, Taken
<1>6. CASE LanOk(t)
  BY <1>2, <1>6
<1>7. CASE ~LanOk(t)
  BY <1>1, <1>3, <1>4, <1>5, <1>7 DEF CallSends
<1> QED
  BY <1>6, <1>7

LEMMA DeliveredStep ==
  ASSUME CallTypeOK, CallInv, [Next]_vars
  PROVE  /\ Deliver
         /\ \A t \in Callers : CloudOk(t) \/ LanOk(t) => Delivery!Succeed(t, NoCommand)
<1>1. ASSUME NEW t \in Callers, CallMoves(t) \/ CallSends(t)
      PROVE  Deliver
  BY <1>1, CallMovesSeen, CallSendsSeen
<1>2. ASSUME NEW command \in Commands, ObeyLate(command)
      PROVE  Deliver
  <2>1. Delivery!Land(command)
    BY <1>2 DEF ObeyLate, Delivery!Land, Delivery!Obeyed, Obeyed
  <2> QED
    BY <2>1 DEF Deliver, Delivery!DeliveryNext
<1>3. ASSUME UNCHANGED <<dev, late, write>>
      PROVE  Deliver
  BY <1>3, SeesNothing DEF Out, Taken
<1>4. ASSUME NEW t \in Pollers, FetchMoves(t) \/ FetchSends(t)
      PROVE  Deliver
  BY <1>3, <1>4, FetchLan DEF UnchangedByFetch
<1>5. ASSUME Settle \/ Surroundings \/ UNCHANGED vars
      PROVE  Deliver
  BY <1>3, <1>5 DEF Settle, Surroundings, vars, routeVars
<1>6. \A t \in Callers : CloudOk(t) \/ LanOk(t) => Delivery!Succeed(t, NoCommand)
  <2> SUFFICES ASSUME NEW t \in Callers, CloudOk(t) \/ LanOk(t)
      PROVE  Delivery!Succeed(t, NoCommand)
    OBVIOUS
  <2>1. CASE CloudOk(t)
    BY <2>1, CallMovesSeen DEF CallMoves
  <2>2. CASE LanOk(t)
    BY <2>2, CallSendsSeen DEF CallSends
  <2> QED
    BY <2>1, <2>2
<1>7. Deliver
  BY <1>1, <1>2, <1>4, <1>5, Steps
<1> QED
  BY <1>6, <1>7

-----------------------------------------------------------------------------
(* The theorems *)

RouteInv == LanInv /\ CallTypeOK /\ CallInv /\ FetchTypeOK /\ FetchInv

LEMMA RouteInitially == Init => RouteInv
<1> SUFFICES ASSUME Init
    PROVE  RouteInv
  OBVIOUS
<1>1. LanInv
  BY InitialLan DEF Init
<1>2. /\ lan = [t \in Tasks |-> NoRequest] /\ NoRequest.at = "none"
      /\ Callers \subseteq Tasks /\ Pollers \subseteq Tasks
      /\ Services \in Nat /\ MaxCopies \in Nat
  BY RouteAssumption DEF Init, LanInit, NoRequest
<1>3. CallTypeOK
  <2>1. 0 \in 0..MaxCopies
    BY <1>2
  <2> QED
    BY <2>1 DEF Init, CallTypeOK
<1>4. CallInv
  <2>1. /\ NoCall.at = "idle" /\ ~NoCall.refused /\ ~NoCall.done
    BY DEF NoCall
  <2>2. \A t \in Callers : write[t] = NoCall /\ lan[t].at = "none"
    BY <1>2 DEF Init
  <2> QED
    BY <2>1, <2>2 DEF CallInv, Sound
<1>5. \A t \in Pollers : fetch[t] = NoFetch /\ lan[t].at = "none"
  BY <1>2 DEF Init
<1>6. /\ NoFetch \in Fetch /\ NoFetch.at = "idle" /\ NoFetch.todo = 0 /\ NoFetch.missing = 0
      /\ ~NoFetch.dead
  <2>1. 0 \in 0..Services /\ 0 \in 0..Retries + 1
    BY <1>2, LanAssumption
  <2> QED
    BY <2>1 DEF NoFetch, Fetch
<1>7. FetchTypeOK
  BY <1>6 DEF Init, FetchTypeOK
<1>8. FetchInv
  BY <1>2, <1>5, <1>6 DEF FetchInv, Polls
<1> QED
  BY <1>1, <1>3, <1>4, <1>7, <1>8 DEF RouteInv

LEMMA RouteKept == RouteInv /\ [Next]_vars => RouteInv'
BY LanKept, CallKept, FetchKept DEF RouteInv

LEMMA RouteTypes == RouteInv => TypeOK
BY DEF RouteInv, LanInv, CallTypeOK, FetchTypeOK, TypeOK

\* Every request, semaphore, call and poll keeps its type, the queues among them.
THEOREM RouteTyped == Spec => []TypeOK
BY RouteInitially, RouteKept, RouteTypes, PTL DEF Spec

\* However often the limit changes, the requests that run at once have slots of their own
\* in the semaphores that were allowed.
THEOREM LanBounded == Spec => []ThunderBounded
<1>1. RouteInv => ThunderBounded
  BY SlotsBound DEF RouteInv, ThunderBounded, Posted
<1> QED
  BY <1>1, RouteInitially, RouteKept, PTL DEF Spec

\* A module that is off for a whole poll gets the attempts of one request.
THEOREM DeadHostGetsOneRequest == Spec => []DeadHostBounded
<1>1. ASSUME RouteInv
      PROVE  DeadHostBounded
  <2> SUFFICES ASSUME NEW t \in Pollers, fetch[t].dead
      PROVE  fetch[t].posts <= Retries
    BY DEF DeadHostBounded
  <2>1. Polls(fetch[t], lan[t]) /\ Retries \in Nat \ {0}
    BY <1>1, FetchFacts DEF RouteInv
  <2>2. lan[t].at = "none" \/ lan[t].attempt \in 1..Retries
    BY <1>1, FetchFacts, LanFacts DEF RouteInv, Request
  <2> QED
    BY <2>1, <2>2 DEF Polls, Sent
<1> QED
  BY <1>1, RouteInitially, RouteKept, PTL DEF Spec

\* No write is sent again by a route whose answer was a refusal.
THEOREM RefusalIsFinal == Spec => NotAskedAgain
<1>1. RouteInv =>
        \A t \in Callers :
          Send(t) \/ ((t \in Posted)' /\ t \notin Posted) => ~write[t].refused
  BY DEF RouteInv, CallInv, Sound
<1> QED
  BY <1>1, RouteInitially, RouteKept, PTL DEF Spec, NotAskedAgain

\* Writes are delivered as CommandDelivery says, and one that returns a path was obeyed.
THEOREM RouteDelivers == Spec => Delivered
<1>1. Init => Delivery!DeliveryInit
  <2>1. NoCall.command = NoCommand /\ NoCall.taken = FALSE
    BY DEF NoCall
  <2> QED
    BY <2>1 DEF Init, Delivery!DeliveryInit
<1>2. RouteInv /\ [Next]_vars =>
        /\ Delivery!DeliveryNext \/ UNCHANGED Delivery!deliveryVars
        /\ \A t \in Callers : CloudOk(t) \/ LanOk(t) => Delivery!Succeed(t, NoCommand)
  BY DeliveredStep DEF RouteInv, Deliver
<1> QED
  BY <1>1, <1>2, RouteInitially, RouteKept, PTL DEF Spec, Delivered
=============================================================================
