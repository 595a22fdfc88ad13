--------------------------- MODULE InstallProofs ----------------------------
(***************************************************************************)
(* Proofs about Install and HostScan, for any modules, account, addresses, *)
(* lifetime of a scan and number of events.                                *)
(***************************************************************************)
EXTENDS Install, WellFoundedInduction, FiniteSetTheorems, TLAPS

-----------------------------------------------------------------------------
(* Addresses *)

\* A set of addresses has a first and a last one: a smallest set without would
\* have them once an element is taken out.
LEMMA Extremes ==
  ASSUME NEW S, S \subseteq Hosts, S # {}
  PROVE  Min(S) \in S /\ Max(S) \in S
<1> DEFINE HasMin(T) == \E x \in T : \A y \in T : x <= y
           HasMax(T) == \E x \in T : \A y \in T : x >= y
           Bad == {T \in SUBSET Hosts : T # {} /\ ~(HasMin(T) /\ HasMax(T))}
<1>1. Bad = {}
  <2>1. SUFFICES ASSUME Bad # {} PROVE FALSE
    OBVIOUS
  <2>2. IsWellFoundedOn(StrictSubsetOrdering(Hosts), SUBSET Hosts)
    BY FS_StrictSubsetOrderingWellFounded, FS_FiniteSubsetsOfFinite, ScanAssumption
  <2>3. PICK T \in Bad : \A U \in Bad : <<U, T>> \notin StrictSubsetOrdering(Hosts)
    <3> HIDE DEF Bad
    <3>1. Bad \subseteq SUBSET Hosts
      BY DEF Bad
    <3> QED
      BY <2>1, <2>2, <3>1, WFMin
  <2>4. PICK t \in T : TRUE
    OBVIOUS
  <2>5. T \ {t} \notin Bad
    BY <2>3, <2>4 DEF StrictSubsetOrdering
  <2>6. T \subseteq Nat
    BY ScanAssumption
  <2>7. CASE T = {t}
    BY <2>6, <2>7
  <2>8. CASE T \ {t} # {}
    <3>1. PICK a \in T \ {t}, b \in T \ {t} :
            \A y \in T \ {t} : a <= y /\ b >= y
      BY <2>5, <2>8
    <3>2. \A y \in T : (IF a <= t THEN a ELSE t) <= y /\ (IF b >= t THEN b ELSE t) >= y
      BY <2>6, <3>1
    <3> QED
      BY <3>1, <3>2, <2>4
  <2> QED
    BY <2>7, <2>8
<1> QED
  BY <1>1 DEF Min, Max

\* Where a module was found is one of the answers.
LEMMA Finds ==
  ASSUME NEW found \in SUBSET Answer, NEW m
  PROVE  /\ HostsOf(found, m) \subseteq Hosts
         /\ Match(found, m) \in Hosts \cup {NoHost}
         /\ Match(found, m) # NoHost => HostsOf(found, m) # {}
         /\ HostsOf(found, m) # {} =>
              Where(found, m) \in found /\ Where(found, m).mac = m
<1>1. HostsOf(found, m) \subseteq Hosts
  BY DEF HostsOf, Answer
<1>2. Match(found, m) \in Hosts \cup {NoHost} /\ (Match(found, m) # NoHost => HostsOf(found, m) # {})
  BY <1>1, Extremes DEF Match
<1>3. ASSUME HostsOf(found, m) # {}
      PROVE  Where(found, m) \in found /\ Where(found, m).mac = m
  <2>1. Max(HostsOf(found, m)) \in HostsOf(found, m)
    BY <1>1, <1>3, Extremes
  <2>2. \E a \in found : a.mac = m /\ a.host = Max(HostsOf(found, m))
    BY <2>1 DEF HostsOf
  <2> QED
    BY <2>2 DEF Where
<1> QED
  BY <1>1, <1>2, <1>3

-----------------------------------------------------------------------------
(* The inductive invariant *)

DevsOf(E) == {e.dev : e \in E}

\* Who looks for its module has an entry, and who scans holds the lock.
Known ==
  /\ \A m \in Modules : seek[m].pc # "idle" => m \in DevsOf(entries)
  /\ scan.by # Nobody => seek[scan.by].pc = "scan"

\* An answer is filed under the module that gave it, and what is to be imported at an
\* address was answered from there.
AnswersOwn == \A a \in cache.found \cup scan.found \cup flow.found : a.by = a.mac
Mine(c) == c.host # NoHost => c.by = c.dev
CandidatesOwn == \A c \in pending \cup inits : Mine(c)

\* The unique id of an entry is the one its appliance has by its kind: this is what
\* keeps two flows from making two entries under two names.
Named(E) == \A e \in E : e.uid = Uid(e)
EntriesOK(E) ==
  /\ E \subseteq Entry /\ Named(E)
  /\ \A e, f \in E : e.dev = f.dev => e = f
  /\ \A e \in E : Mine(e)

IInv == TypeOK /\ Known /\ AnswersOwn /\ CandidatesOwn /\ EntriesOK(entries)

LEMMA EntryOfKnown ==
  ASSUME NEW m, m \in DevsOf(entries)
  PROVE  EntryOf(m) \in entries /\ EntryOf(m).dev = m
BY DEF EntryOf, DevsOf

LEMMA ProbeFacts ==
  ASSUME NEW h \in Hosts, NEW got \in Probe(h)
  PROVE  got \subseteq Answer /\ \A a \in got : a.by = a.mac
BY DEF Probe, Answer

\* A moved entry is the same appliance's.
LEMMA MovedKeeps ==
  ASSUME EntriesOK(entries), NEW e \in entries, NEW a \in Answer,
         a.mac = e.dev, a.by = a.mac, Moved(e, a)
  PROVE  EntriesOK(entries') /\ DevsOf(entries') = DevsOf(entries)
<1>1. At(e, a) \in Entry /\ At(e, a).dev = e.dev /\ At(e, a).uid = e.uid
      /\ At(e, a).host = a.host /\ At(e, a).by = a.by
  BY DEF At, Entry, Answer, EntriesOK
<1>2. \A x \in entries' : (x \in entries /\ x # e) \/ x = At(e, a)
  BY DEF Moved
<1>3. Uid(At(e, a)) = Uid(e)
  BY <1>1 DEF Uid
<1>4. EntriesOK(entries')
  <2>1. entries' \subseteq Entry /\ \A x \in entries' : Mine(x)
    BY <1>1, <1>2 DEF EntriesOK, Mine
  <2>2. Named(entries')
    BY <1>1, <1>2, <1>3 DEF EntriesOK, Named
  <2>3. \A x, y \in entries' : x.dev = y.dev => x = y
    BY <1>1, <1>2 DEF EntriesOK
  <2> QED
    BY <2>1, <2>2, <2>3 DEF EntriesOK
<1>5. DevsOf(entries') = DevsOf(entries)
  BY <1>1 DEF DevsOf, Moved
<1> QED
  BY <1>4, <1>5

\* Whichever flow adds an appliance, under its own unique id, there is one entry of it.
LEMMA AddKeeps ==
  ASSUME EntriesOK(entries), NEW c \in Candidate, Mine(c), Add(c, Uid(c))
  PROVE  EntriesOK(entries') /\ DevsOf(entries) \subseteq DevsOf(entries')
<1> DEFINE u == Uid(c)
           new == [uid |-> u, dev |-> c.dev, linked |-> c.linked, host |-> c.host, by |-> c.by]
<1>1. u \in {"mac", "gwid"} \X Devices
  BY DEF Uid, Candidate
<1>2. \A e \in entries : e.uid = u <=> e.dev = c.dev
  BY DEF EntriesOK, Named, Uid
<1>3. CASE \E e \in entries : e.uid = u
  <2> DEFINE F(e) == IF e.uid = u /\ c.host # NoHost THEN At(e, c) ELSE e
  <2>1. entries' = {F(e) : e \in entries}
    BY <1>3 DEF Add
  <2>2. \A e \in entries : F(e) \in Entry /\ F(e).dev = e.dev /\ F(e).uid = e.uid /\ Mine(F(e))
    BY <1>2 DEF EntriesOK, Entry, At, Candidate, Mine
  <2>3. \A e \in entries : Uid(F(e)) = Uid(e)
    BY <2>2 DEF Uid
  <2> HIDE DEF F
  <2>4. entries' \subseteq Entry /\ \A x \in entries' : Mine(x)
    BY <2>1, <2>2
  <2>5. Named(entries')
    BY <2>1, <2>2, <2>3 DEF EntriesOK, Named
  <2>6. \A x, y \in entries' : x.dev = y.dev => x = y
    BY <2>1, <2>2 DEF EntriesOK
  <2>7. DevsOf(entries) \subseteq DevsOf(entries')
    BY <2>1, <2>2 DEF DevsOf
  <2> QED
    BY <2>4, <2>5, <2>6, <2>7 DEF EntriesOK
<1>4. CASE ~\E e \in entries : e.uid = u
  <2>1. entries' = entries \cup {new}
    BY <1>4 DEF Add
  <2>2. new \in Entry /\ Mine(new) /\ Uid(new) = u
    BY <1>1 DEF Entry, Candidate, Mine, Uid
  <2>3. \A e \in entries : e.dev # new.dev
    BY <1>2, <1>4
  <2> HIDE DEF new
  <2>4. new.uid = u
    BY DEF new
  <2> QED
    BY <2>1, <2>2, <2>3, <2>4 DEF EntriesOK, Named, DevsOf
<1> QED
  BY <1>3, <1>4

LEMMA CreateLocalKeeps ==
  ASSUME EntriesOK(entries), NEW a \in Answer, a.by = a.mac, CreateLocal(a)
  PROVE  EntriesOK(entries') /\ DevsOf(entries) \subseteq DevsOf(entries')
<1>1. Local(a) \in Candidate /\ Mine(Local(a)) /\ Uid(Local(a)) = <<"mac", a.mac>>
  BY DEF Local, Candidate, Mine, Uid, Answer, Devices
<1> QED
  BY <1>1, AddKeeps DEF CreateLocal

-----------------------------------------------------------------------------
(* Lookups *)

EntriesKept == EntriesOK(entries') /\ DevsOf(entries') = DevsOf(entries)
SeekTypes == [pc : {"idle", "lock", "scan", "gwip", "probe"}, recover : BOOLEAN, todo : Seq(Hosts)]

\* What the end of a lookup does.
LEMMA ReturnKeeps ==
  ASSUME IInv, NEW m \in Modules, seek[m].pc # "idle", scan.by \in {Nobody, m},
         NEW found \in SUBSET Answer, \A a \in found : a.by = a.mac, Return(m, found)
  PROVE  /\ EntriesKept
         /\ scan' = NoScan
         /\ \E s \in SeekTypes : seek' = [seek EXCEPT ![m] = s]
<1>1. EntryOf(m) \in entries /\ EntryOf(m).dev = m
  BY EntryOfKnown DEF IInv, Known
<1>2. seek[m] \in SeekTypes
  BY DEF IInv, TypeOK, ScanTypeOK, SeekTypes
<1>3. Idle \in SeekTypes
  BY DEF Idle, SeekTypes
<1>4. CASE Recover(m, found)
  <2>1. Match(found, m) \in Hosts \cup {NoHost}
    BY Finds
  <2>2. (IF Match(found, m) = NoHost THEN <<>> ELSE <<Match(found, m)>>) \in Seq(Hosts)
    BY <2>1
  <2> DEFINE first == IF Match(found, m) = NoHost THEN <<>> ELSE <<Match(found, m)>>
             s == [seek[m] EXCEPT !.todo = first,
                                  !.pc = IF EntryOf(m).linked THEN "gwip" ELSE "probe"]
  <2>3. seek' = [seek EXCEPT ![m] = s] /\ entries' = entries
    BY <1>4, <1>2 DEF Recover, SeekTypes, IInv, TypeOK, ScanTypeOK
  <2>4. s \in SeekTypes
    BY <1>2, <2>2 DEF SeekTypes
  <2> HIDE DEF s
  <2> QED
    BY <2>3, <2>4 DEF Return, EntriesKept, IInv
<1>5. CASE Rebind(m, found)
  <2>1. EntriesKept
    <3>1. CASE Match(found, m) \in {NoHost, EntryOf(m).host}
      BY <1>5, <3>1 DEF Rebind, EntriesKept, IInv
    <3>2. CASE Match(found, m) \notin {NoHost, EntryOf(m).host}
      BY <1>1, <1>5, <3>2, MovedKeeps DEF Rebind, EntriesKept, IInv
    <3> QED
      BY <3>1, <3>2
  <2> QED
    BY <1>3, <1>5, <2>1 DEF Rebind, Return
<1> QED
  BY <1>4, <1>5 DEF Return

LEMMA StartScanKeeps ==
  ASSUME IInv, NEW m \in Modules, NEW full \in BOOLEAN, StartScan(m, full)
  PROVE  /\ entries' = entries
         /\ \E todo \in SUBSET Hosts :
              scan' = [by |-> m, full |-> full, todo |-> todo, found |-> {}]
         /\ \E s \in SeekTypes : seek' = [seek EXCEPT ![m] = s] /\ s.pc = "scan"
<1>1. InUse \subseteq Hosts
  BY DEF InUse, IInv, TypeOK, ScanTypeOK
<1>2. [seek[m] EXCEPT !.pc = "scan"] \in SeekTypes /\ [seek[m] EXCEPT !.pc = "scan"].pc = "scan"
      /\ seek' = [seek EXCEPT ![m] = [seek[m] EXCEPT !.pc = "scan"]]
  BY DEF StartScan, SeekTypes, IInv, TypeOK, ScanTypeOK
<1> QED
  BY <1>1, <1>2 DEF StartScan, HostsToProbe, SsdpAnswers

\* A step of one lookup: it ends, goes on, or scans.
LookupKept(m) ==
  /\ EntriesKept
  /\ \E s \in SeekTypes :
       /\ seek' = [seek EXCEPT ![m] = s]
       /\ \/ scan' = NoScan
          \/ /\ s.pc = "scan"
             /\ \E todo \in SUBSET Hosts, full \in BOOLEAN :
                  scan' = [by |-> m, full |-> full, todo |-> todo, found |-> {}]

LEMMA HitOrWidenKeeps ==
  ASSUME IInv, NEW m \in Modules, seek[m].pc # "idle", scan.by \in {Nobody, m},
         NEW c, c.found \subseteq Answer, \A a \in c.found : a.by = a.mac, HitOrWiden(m, c)
  PROVE  LookupKept(m)
<1>1. CASE Return(m, c.found)
  BY <1>1, ReturnKeeps DEF LookupKept
<1>2. CASE StartScan(m, TRUE)
  BY <1>2, StartScanKeeps DEF LookupKept, EntriesKept, IInv
<1> QED
  BY <1>1, <1>2 DEF HitOrWiden

\* With everything but the lookup left alone, or the scan's result stored, it keeps IInv.
LEMMA LookupKeeps ==
  ASSUME IInv, NEW m \in Modules, scan.by \in {Nobody, m}, LookupKept(m),
         UNCHANGED netVars, UNCHANGED flowVars,
         cache' \in [age : 0..TTL, full : BOOLEAN, found : SUBSET Answer],
         ago' \in [BOOLEAN -> 0..TTL], \A a \in cache'.found : a.by = a.mac,
         seek'[m].pc # "idle" => m \in DevsOf(entries)
  PROVE  IInv'
<1> USE DEF flowVars, netVars
<1>1. PICK s \in SeekTypes :
        /\ seek' = [seek EXCEPT ![m] = s]
        /\ \/ scan' = NoScan
           \/ /\ s.pc = "scan"
              /\ \E todo \in SUBSET Hosts, full \in BOOLEAN :
                   scan' = [by |-> m, full |-> full, todo |-> todo, found |-> {}]
  BY DEF LookupKept
<1>2. entries' \subseteq Entry /\ EntriesOK(entries') /\ DevsOf(entries') = DevsOf(entries)
  BY DEF LookupKept, EntriesKept, EntriesOK
<1>3. seek \in [Modules -> SeekTypes]
  BY DEF IInv, TypeOK, ScanTypeOK, SeekTypes
<1>4. seek' \in [Modules -> SeekTypes]
  BY <1>1, <1>3
<1>5. /\ scan' \in [by : Modules \cup {Nobody}, full : BOOLEAN,
                    todo : SUBSET Hosts, found : SUBSET Answer]
      /\ scan'.found = {}
      /\ scan'.by # Nobody => scan'.by = m /\ s.pc = "scan"
  <2>1. CASE scan' = NoScan
    BY <2>1 DEF NoScan
  <2>2. CASE s.pc = "scan" /\ \E todo \in SUBSET Hosts, full \in BOOLEAN :
                  scan' = [by |-> m, full |-> full, todo |-> todo, found |-> {}]
    <3>1. PICK todo \in SUBSET Hosts, full \in BOOLEAN :
                  scan' = [by |-> m, full |-> full, todo |-> todo, found |-> {}]
      BY <2>2
    <3> QED
      BY <2>2, <3>1
  <2> QED
    BY <1>1, <2>1, <2>2
<1>6. TypeOK'
  BY <1>2, <1>4, <1>5 DEF IInv, TypeOK, ScanTypeOK, SeekTypes
<1>7. Known'
  BY <1>1, <1>2, <1>3, <1>5 DEF IInv, Known
<1>8. AnswersOwn' /\ CandidatesOwn'
  BY <1>5 DEF IInv, AnswersOwn, CandidatesOwn
<1> QED
  BY <1>2, <1>6, <1>7, <1>8 DEF IInv

\* Another step of the lookup leaves the scan to who holds it, or drops its own.
LEMMA SeekKeeps ==
  ASSUME IInv, NEW m \in Modules, NEW s \in SeekTypes, seek' = [seek EXCEPT ![m] = s],
         s.pc # "idle" => m \in DevsOf(entries),
         (scan' = scan /\ scan.by # m) \/ scan' = NoScan,
         EntriesKept, UNCHANGED <<at, cache, ago, flowVars>>, events' \in 0..MaxEvents
  PROVE  IInv'
<1> USE DEF flowVars
<1>1. seek \in [Modules -> SeekTypes]
  BY DEF IInv, TypeOK, ScanTypeOK, SeekTypes
<1>2. seek' \in [Modules -> SeekTypes]
  BY <1>1
<1>3. scan' \in [by : Modules \cup {Nobody}, full : BOOLEAN,
                 todo : SUBSET Hosts, found : SUBSET Answer]
      /\ scan'.found \subseteq scan.found /\ (scan'.by # Nobody => scan' = scan /\ scan.by # m)
  <2>1. CASE scan' = NoScan
    BY <2>1 DEF NoScan
  <2>2. CASE scan' = scan /\ scan.by # m
    BY <2>2 DEF IInv, TypeOK, ScanTypeOK
  <2> QED
    BY <2>1, <2>2
<1>4. TypeOK'
  BY <1>2, <1>3 DEF IInv, TypeOK, ScanTypeOK, SeekTypes, EntriesKept, EntriesOK
<1>5. Known'
  <2>1. \A k \in Modules : seek'[k].pc # "idle" => k \in DevsOf(entries')
    BY <1>1 DEF IInv, Known, EntriesKept
  <2>2. ASSUME scan'.by # Nobody PROVE seek'[scan'.by].pc = "scan"
    BY <1>1, <1>3, <2>2 DEF IInv, Known, TypeOK, ScanTypeOK
  <2> QED
    BY <2>1, <2>2 DEF Known
<1>6. AnswersOwn' /\ CandidatesOwn'
  BY <1>3 DEF IInv, AnswersOwn, CandidatesOwn
<1> QED
  BY <1>4, <1>5, <1>6 DEF IInv, EntriesKept

LEMMA GetsLockKeeps ==
  ASSUME IInv, NEW m \in Modules, GetsLock(m), UNCHANGED flowVars
  PROVE  IInv'
<1>1. seek[m].pc # "idle" /\ m \in DevsOf(entries)
  BY DEF GetsLock, IInv, Known
<1>2. cache \in [age : 0..TTL, full : BOOLEAN, found : SUBSET Answer]
      /\ \A a \in cache.found : a.by = a.mac
  BY DEF IInv, TypeOK, ScanTypeOK, AnswersOwn
<1>3. LookupKept(m)
  <2>1. CASE HitOrWiden(m, cache)
    BY <1>1, <1>2, <2>1, HitOrWidenKeeps DEF GetsLock
  <2>2. CASE StartScan(m, FALSE)
    BY <2>2, StartScanKeeps DEF LookupKept, EntriesKept, IInv
  <2> QED
    BY <2>1, <2>2 DEF GetsLock
<1> QED
  BY <1>1, <1>2, <1>3, LookupKeeps DEF GetsLock, IInv, TypeOK, ScanTypeOK

LEMMA ScanEndsKeeps ==
  ASSUME IInv, ScanEnds, UNCHANGED flowVars
  PROVE  IInv'
<1> DEFINE m == scan.by
           c == [age |-> 0, full |-> scan.full, found |-> scan.found]
<1>1. m \in Modules /\ seek[m].pc # "idle" /\ m \in DevsOf(entries)
  BY DEF ScanEnds, IInv, Known, TypeOK, ScanTypeOK
<1>2. c \in [age : 0..TTL, full : BOOLEAN, found : SUBSET Answer]
      /\ c.found \subseteq Answer /\ \A a \in c.found : a.by = a.mac
  BY ScanAssumption DEF IInv, TypeOK, ScanTypeOK, AnswersOwn
<1>3. LookupKept(m)
  <2>1. CASE Return(m, c.found)
    BY <1>1, <1>2, <2>1, ReturnKeeps DEF LookupKept
  <2>2. CASE HitOrWiden(m, c)
    <3> HIDE DEF c
    <3> QED
      BY <1>1, <1>2, <2>2, HitOrWidenKeeps
  <2> QED
    BY <2>1, <2>2 DEF ScanEnds
<1>4. ago' \in [BOOLEAN -> 0..TTL]
  BY ScanAssumption DEF ScanEnds, IInv, TypeOK, ScanTypeOK
<1>5. cache' = c
  BY DEF ScanEnds
<1>6. UNCHANGED netVars
  BY DEF ScanEnds
<1> HIDE DEF c
<1> QED
  BY <1>1, <1>2, <1>3, <1>4, <1>5, <1>6, LookupKeeps

LEMMA SeekStepKeeps ==
  ASSUME IInv, NEW m \in Modules, UNCHANGED flowVars,
         Seek(m) \/ GwIp(m) \/ StaysCloud(m) \/ TryHost(m) \/ CancelLookup(m)
  PROVE  IInv'
<1>1. seek[m] \in SeekTypes /\ Idle \in SeekTypes
  BY DEF IInv, TypeOK, ScanTypeOK, SeekTypes, Idle
<1>2. seek[m].pc # "scan" => scan.by # m
  BY ScanAssumption DEF IInv, Known, Devices
<1>3. seek[m].pc # "idle" => m \in DevsOf(entries)
  BY DEF IInv, Known
<1>4. events \in 0..MaxEvents
  BY DEF IInv, TypeOK, ScanTypeOK
<1>5. entries' = entries => EntriesKept
  BY DEF IInv, EntriesKept
<1>6. CASE Seek(m)
  <2> DEFINE s == [seek[m] EXCEPT !.pc = "lock", !.recover = EntryOf(m).host = NoHost]
  <2>1. s \in SeekTypes
    BY <1>1 DEF SeekTypes
  <2>2. seek' = [seek EXCEPT ![m] = s]
    BY <1>6 DEF Seek, IInv, TypeOK, ScanTypeOK
  <2>3. m \in DevsOf(entries)
    BY <1>6 DEF Seek, DevsOf
  <2>4. events' \in 0..MaxEvents
    BY <1>4, <1>6, ScanAssumption DEF Seek, Event
  <2> HIDE DEF s
  <2> QED
    BY <1>2, <1>5, <1>6, <2>1, <2>2, <2>3, <2>4, SeekKeeps DEF Seek
<1>7. CASE GwIp(m)
  <2>1. PICK ip \in Hosts \cup {NoHost} :
          seek' = [seek EXCEPT ![m].pc = "probe",
                               ![m].todo = IF NewHost(ip, @) THEN Append(@, ip) ELSE @]
    BY <1>7 DEF GwIp
  <2> DEFINE t == IF NewHost(ip, seek[m].todo) THEN Append(seek[m].todo, ip) ELSE seek[m].todo
             s == [seek[m] EXCEPT !.pc = "probe", !.todo = t]
  <2>2. t \in Seq(Hosts)
    BY <1>1 DEF SeekTypes, NewHost
  <2>3. s \in SeekTypes
    <3> HIDE DEF t
    <3> QED
      BY <1>1, <2>2 DEF SeekTypes
  <2>4. seek' = [seek EXCEPT ![m] = s]
    BY <1>7, <2>1 DEF IInv, TypeOK, ScanTypeOK
  <2> HIDE DEF s
  <2> QED
    BY <1>2, <1>3, <1>4, <1>5, <1>7, <2>3, <2>4, SeekKeeps DEF GwIp, netVars
<1>8. CASE StaysCloud(m)
  BY <1>1, <1>2, <1>4, <1>5, <1>8, SeekKeeps DEF StaysCloud, netVars, Idle
<1>9. CASE TryHost(m)
  <2>1. PICK got \in Probe(Head(seek[m].todo)) :
          IF \E a \in got : a.mac = m
          THEN (\E a \in got : Moved(EntryOf(m), a)) /\ seek' = [seek EXCEPT ![m] = Idle]
          ELSE seek' = [seek EXCEPT ![m].todo = Tail(@)] /\ UNCHANGED entries
    BY <1>9 DEF TryHost
  <2>2. Head(seek[m].todo) \in Hosts /\ Tail(seek[m].todo) \in Seq(Hosts)
    BY <1>1, <1>9 DEF TryHost, SeekTypes
  <2>3. got \subseteq Answer /\ \A a \in got : a.by = a.mac
    BY <2>1, <2>2, ProbeFacts
  <2>4. CASE \E a \in got : a.mac = m
    <3>1. \A a \in got : a.mac = m
      BY <2>1, <2>4 DEF Probe
    <3>2. EntryOf(m) \in entries /\ EntryOf(m).dev = m
      BY <1>3, <1>9, EntryOfKnown DEF TryHost
    <3>3. EntriesKept
      BY <2>1, <2>3, <2>4, <3>1, <3>2, MovedKeeps DEF EntriesKept, IInv
    <3> QED
      BY <1>1, <1>2, <1>4, <1>9, <2>1, <2>4, <3>3, SeekKeeps DEF TryHost, netVars, Idle
  <2>5. CASE ~\E a \in got : a.mac = m
    <3> DEFINE s == [seek[m] EXCEPT !.todo = Tail(seek[m].todo)]
    <3>1. s \in SeekTypes /\ seek' = [seek EXCEPT ![m] = s]
      BY <1>1, <2>1, <2>2, <2>5 DEF SeekTypes, IInv, TypeOK, ScanTypeOK
    <3> HIDE DEF s
    <3> QED
      BY <1>2, <1>3, <1>4, <1>5, <1>9, <2>1, <2>5, <3>1, SeekKeeps DEF TryHost, netVars
  <2> QED
    BY <2>4, <2>5
<1>10. CASE CancelLookup(m)
  <2>1. events' \in 0..MaxEvents
    BY <1>4, <1>10, ScanAssumption DEF CancelLookup, Event
  <2> QED
    BY <1>1, <1>5, <1>10, <2>1, SeekKeeps DEF CancelLookup, Idle
<1> QED
  BY <1>6, <1>7, <1>8, <1>9, <1>10

LEMMA ScanProbesKeeps ==
  ASSUME IInv, ScanProbes, UNCHANGED flowVars
  PROVE  IInv'
<1> USE DEF flowVars, netVars
<1>1. Min(scan.todo) \in Hosts
  BY Extremes DEF ScanProbes, IInv, TypeOK, ScanTypeOK
<1>2. PICK got \in Probe(Min(scan.todo)) :
        scan' = [scan EXCEPT !.todo = @ \ {Min(@)}, !.found = @ \cup got]
  BY DEF ScanProbes
<1>3. got \subseteq Answer /\ \A a \in got : a.by = a.mac
  BY <1>1, <1>2, ProbeFacts
<1>4. /\ scan' \in [by : Modules \cup {Nobody}, full : BOOLEAN,
                    todo : SUBSET Hosts, found : SUBSET Answer]
      /\ scan'.by = scan.by /\ scan'.found = scan.found \cup got
  BY <1>2, <1>3 DEF IInv, TypeOK, ScanTypeOK
<1>5. TypeOK'
  BY <1>4 DEF ScanProbes, IInv, TypeOK, ScanTypeOK
<1>6. Known' /\ EntriesOK(entries')
  BY <1>4 DEF ScanProbes, IInv, Known
<1>7. AnswersOwn' /\ CandidatesOwn'
  BY <1>3, <1>4 DEF ScanProbes, IInv, AnswersOwn, CandidatesOwn
<1> QED
  BY <1>5, <1>6, <1>7 DEF IInv

LEMMA TickKeeps ==
  ASSUME IInv, Tick, UNCHANGED flowVars
  PROVE  IInv'
<1> USE DEF flowVars, netVars
<1>1. /\ cache' \in [age : 0..TTL, full : BOOLEAN, found : SUBSET Answer]
      /\ cache'.found \subseteq cache.found
  <2>1. CASE cache.age + 1 < TTL
    <3>1. cache.age \in 0..TTL /\ cache.age + 1 \in 0..TTL
      BY <2>1, ScanAssumption DEF IInv, TypeOK, ScanTypeOK
    <3> QED
      BY <2>1, <3>1 DEF Tick, IInv, TypeOK, ScanTypeOK
  <2>2. CASE ~(cache.age + 1 < TTL)
    BY <2>2, ScanAssumption DEF Tick, NoCache
  <2> QED
    BY <2>1, <2>2
<1>2. ago' \in [BOOLEAN -> 0..TTL]
  BY ScanAssumption DEF Tick, Older, IInv, TypeOK, ScanTypeOK
<1>3. TypeOK'
  BY <1>1, <1>2 DEF Tick, IInv, TypeOK, ScanTypeOK
<1>4. AnswersOwn'
  BY <1>1 DEF Tick, IInv, AnswersOwn
<1> QED
  BY <1>3, <1>4 DEF Tick, IInv, Known, CandidatesOwn

LEMMA MovesKeeps ==
  ASSUME IInv, NEW m \in Modules, Moves(m), UNCHANGED flowVars
  PROVE  IInv'
<1>1. at' \in [Modules -> Hosts \cup {NoHost}] /\ events' \in 0..MaxEvents
  BY ScanAssumption DEF Moves, Event, IInv, TypeOK, ScanTypeOK
<1> QED
  BY <1>1 DEF Moves, scanVars, flowVars, IInv, TypeOK, ScanTypeOK, Known, AnswersOwn,
              CandidatesOwn

LEMMA LookupStepKeeps ==
  ASSUME IInv, LookupStep, UNCHANGED flowVars
  PROVE  IInv'
BY GetsLockKeeps, ScanEndsKeeps, SeekStepKeeps, ScanProbesKeeps, TickKeeps, MovesKeeps
   DEF LookupStep

-----------------------------------------------------------------------------
(* Flows *)

\* What a step of a flow must keep for the invariant.
LEMMA FlowKeeps ==
  ASSUME IInv, UNCHANGED <<at, scanVars>>, events' \in 0..MaxEvents,
         EntriesOK(entries'), DevsOf(entries) \subseteq DevsOf(entries'),
         hub' \in BOOLEAN, flow' \in Flow, \A a \in flow'.found : a.by = a.mac,
         pending' \cup inits' \subseteq Candidate, \A c \in pending' \cup inits' : Mine(c),
         card' \in [Modules -> Hosts \cup {NoHost}]
  PROVE  IInv'
<1> USE DEF scanVars
<1>1. TypeOK'
  BY DEF IInv, TypeOK, ScanTypeOK, EntriesOK
<1>2. Known'
  BY DEF IInv, Known
<1>3. AnswersOwn' /\ CandidatesOwn'
  BY DEF IInv, AnswersOwn, CandidatesOwn
<1> QED
  BY <1>1, <1>2, <1>3 DEF IInv

\* A step that moves only the user's flow on.
LEMMA MovesOn ==
  ASSUME IInv, UNCHANGED <<at, entries, scanVars, hub, pending, inits, card>>,
         events' \in 0..MaxEvents, flow' \in Flow, \A a \in flow'.found : a.by = a.mac
  PROVE  IInv'
BY FlowKeeps DEF IInv, TypeOK, CandidatesOwn

LEMMA EventCounts ==
  ASSUME IInv
  PROVE  /\ events \in 0..MaxEvents
         /\ UNCHANGED netVars => events' \in 0..MaxEvents
         /\ Event => events' \in 0..MaxEvents
BY ScanAssumption DEF IInv, TypeOK, ScanTypeOK, netVars, Event

LEMMA FlowFacts ==
  ASSUME IInv
  PROVE  /\ flow \in Flow /\ \A a \in flow.found : a.by = a.mac
         /\ NoFlow \in Flow /\ NoFlow.found = {}
         /\ InUse \subseteq Hosts
         /\ Configured \subseteq Devices
BY DEF IInv, TypeOK, ScanTypeOK, AnswersOwn, Flow, NoFlow, InUse, Configured, EntriesOK, Entry

\* What the import builds are candidates, each at an address where it answered.
LEMMA CandidatesFacts ==
  ASSUME NEW f \in Flow, \A a \in f.found : a.by = a.mac
  PROVE  /\ Candidates(f) \subseteq Candidate /\ \A c \in Candidates(f) : Mine(c)
         /\ {Key(c) : c \in Candidates(f)} \in SUBSET (Devices \X BOOLEAN)
<1>1. f.found \in SUBSET Answer /\ f.cloud \subseteq Listed
  BY DEF Flow
<1>2. ASSUME NEW d \in (f.cloud \cup {a.mac : a \in f.found}) \ f.seen
      PROVE  CandidateOf(f, d) \in Candidate /\ Mine(CandidateOf(f, d))
  <2>1. d \in Devices
    BY <1>1 DEF Answer, Devices
  <2>2. CASE HostsOf(f.found, d) # {}
    <3>1. Where(f.found, d) \in f.found
      BY <1>1, <2>2, Finds
    <3> DEFINE w == Where(f.found, d)
    <3>2. w \in Answer /\ w.by = w.mac
      BY <1>1, <3>1
    <3> HIDE DEF w
    <3> DEFINE b == d \in f.cloud
    <3>3. b \in BOOLEAN
      OBVIOUS
    <3> HIDE DEF b
    <3>4. [Local(w) EXCEPT !.linked = b]
            = [dev |-> w.mac, linked |-> b, host |-> w.host, by |-> w.by]
      BY DEF Local
    <3>5. [Local(w) EXCEPT !.linked = b] \in Candidate /\ Mine([Local(w) EXCEPT !.linked = b])
      BY <3>2, <3>3, <3>4 DEF Candidate, Mine, Answer, Devices
    <3> QED
      BY <2>2, <3>5 DEF CandidateOf, w, b
  <2>3. CASE HostsOf(f.found, d) = {}
    BY <2>1, <2>3 DEF CandidateOf, CloudOnly, Candidate, Mine
  <2> QED
    BY <2>2, <2>3
<1>3. Candidates(f) \subseteq Candidate /\ \A c \in Candidates(f) : Mine(c)
  BY <1>2 DEF Candidates
<1>4. \A c \in Candidates(f) : Key(c) \in Devices \X BOOLEAN
  BY <1>3 DEF Key, Candidate
<1> QED
  BY <1>3, <1>4

\* The flows move on without touching an entry.
LEMMA FormStepsKeep ==
  ASSUME IInv, StartImport \/ StartDiscover \/ FlowProbes \/ ListDevices \/ Submit
               \/ CloseFlow \/ Discovered \/ \E m \in Modules : Resolve(m)
  PROVE  IInv'
<1> USE EventCounts, FlowFacts
<1>1. CASE StartImport \/ StartDiscover
  <2>1. flow' \in Flow /\ flow'.found = {}
    <3>1. CASE StartImport
      BY <3>1 DEF StartImport, NoFlow, Flow
    <3>2. CASE StartDiscover
      BY <3>2 DEF StartDiscover, NoFlow, Flow
    <3> QED
      BY <1>1, <3>1, <3>2
  <2> QED
    BY <1>1, <2>1, MovesOn DEF StartImport, StartDiscover
<1>2. CASE FlowProbes
  <2>1. flow.todo \subseteq Hosts /\ flow.todo # {}
    BY <1>2 DEF FlowProbes, Flow
  <2>2. Min(flow.todo) \in Hosts
    BY <2>1, Extremes
  <2>3. PICK got \in Probe(Min(flow.todo)) :
          flow' = [flow EXCEPT !.todo = @ \ {Min(@)}, !.found = @ \cup got]
    BY <1>2 DEF FlowProbes
  <2>4. got \subseteq Answer /\ \A a \in got : a.by = a.mac
    BY <2>2, <2>3, ProbeFacts
  <2>5. flow' \in Flow /\ flow'.found = flow.found \cup got
    BY <2>3, <2>4 DEF Flow
  <2> QED
    BY <1>2, <2>4, <2>5, MovesOn DEF FlowProbes, netVars
<1>3. CASE ListDevices
  <2>1. PICK list \in IF flow.cloud # {} THEN {flow.cloud} ELSE {{}, Listed} :
          flow' = [flow EXCEPT
            !.pc = "gwip", !.cloud = list, !.seen = Configured,
            !.gwip = {m \in (list \cap Modules) \ Configured : HostsOf(flow.found, m) = {}}]
    BY <1>3 DEF ListDevices
  <2>2. list \subseteq Listed
    BY <2>1 DEF Flow
  <2> DEFINE missing == {m \in (list \cap Modules) \ Configured : HostsOf(flow.found, m) = {}}
  <2>3. missing \subseteq Modules
    OBVIOUS
  <2> HIDE DEF missing
  <2>4. flow' = [flow EXCEPT !.pc = "gwip", !.cloud = list, !.seen = Configured,
                             !.gwip = missing]
    BY <2>1 DEF missing
  <2>5. flow' \in Flow /\ flow'.found = flow.found
    BY <2>2, <2>3, <2>4 DEF Flow
  <2> QED
    BY <1>3, <2>5, MovesOn DEF ListDevices, netVars
<1>4. CASE Submit
  <2>1. PICK keys \in SUBSET flow.picked :
          flow' = [flow EXCEPT !.pc = "scan", !.todo = InUse, !.picked = keys,
                               !.submitted = TRUE]
    BY <1>4 DEF Submit
  <2>2. keys \in SUBSET (Devices \X BOOLEAN)
    BY <2>1 DEF Flow
  <2>3. flow' \in Flow /\ flow'.found = flow.found
    BY <2>1, <2>2 DEF Flow
  <2> QED
    BY <1>4, <2>3, MovesOn DEF Submit, netVars
<1>5. CASE CloseFlow
  BY <1>5, MovesOn DEF CloseFlow, netVars
<1>6. CASE Discovered
  <2> DEFINE new == {a \in flow.found : a.mac \notin Configured}
  <2>1. new \subseteq flow.found
    OBVIOUS
  <2> HIDE DEF new
  <2>2. flow' = [flow EXCEPT !.pc = "form", !.found = new]
    BY <1>6 DEF Discovered, new
  <2>3. flow' \in Flow /\ flow'.found = new
    BY <2>1, <2>2 DEF Flow
  <2> QED
    BY <1>6, <2>1, <2>3, MovesOn DEF Discovered, netVars
<1>7. ASSUME NEW m \in Modules, Resolve(m) PROVE IInv'
  <2>1. PICK got \in {{}} \cup UNION {Probe(h) : h \in Hosts} :
          flow' = [flow EXCEPT !.gwip = @ \ {m}, !.found = @ \cup File(m, got)]
    BY <1>7 DEF Resolve
  <2>2. got \subseteq Answer /\ \A a \in got : a.by = a.mac
    BY <2>1, ProbeFacts
  <2>3. File(m, got) \subseteq got
    BY DEF File
  <2>4. flow' \in Flow /\ flow'.found = flow.found \cup File(m, got)
    BY <2>1, <2>2, <2>3 DEF Flow
  <2> QED
    BY <1>7, <2>2, <2>3, <2>4, MovesOn DEF Resolve, netVars
<1> QED
  BY <1>1, <1>2, <1>3, <1>4, <1>5, <1>6, <1>7

\* The import is finished, or its form shown.
LEMMA BuiltKeeps ==
  ASSUME IInv, Built
  PROVE  IInv'
<1> USE FlowFacts
<1> DEFINE cands == Candidates(flow)
           chosen == {c \in cands : Key(c) \in flow.picked}
           keys == {Key(c) : c \in cands}
<1>1. cands \subseteq Candidate /\ (\A c \in cands : Mine(c)) /\ keys \in SUBSET (Devices \X BOOLEAN)
  BY CandidatesFacts
<1>2. chosen \subseteq cands
  OBVIOUS
<1>3. IF flow.submitted /\ (chosen # {} \/ ~hub)
      THEN Finish(chosen)
      ELSE /\ flow' = [NoFlow EXCEPT !.pc = "form", !.import = TRUE, !.cloud = flow.cloud,
                                     !.picked = keys]
           /\ UNCHANGED <<hub, pending, inits>>
  BY DEF Built
<1> HIDE DEF cands, chosen, keys
<1>4. UNCHANGED <<at, entries, scanVars, card>> /\ events' \in 0..MaxEvents
  BY EventCounts DEF Built, netVars
<1>5. CASE Finish(chosen)
  BY <1>1, <1>2, <1>4, <1>5, FlowKeeps DEF Finish, IInv, TypeOK, CandidatesOwn
<1>6. CASE ~Finish(chosen)
  <2>1. flow' \in Flow /\ flow'.found = {}
    <3>1. flow.cloud \subseteq Listed
      BY DEF Flow
    <3>2. flow' = [NoFlow EXCEPT !.pc = "form", !.import = TRUE, !.cloud = flow.cloud,
                                 !.picked = keys]
      BY <1>3, <1>6
    <3>3. flow' = [pc |-> "form", import |-> TRUE, todo |-> {}, found |-> {},
                   cloud |-> flow.cloud, seen |-> {}, gwip |-> {}, picked |-> keys,
                   submitted |-> FALSE]
      BY <3>2 DEF NoFlow
    <3> QED
      BY <1>1, <3>1, <3>3 DEF Flow
  <2> QED
    BY <1>3, <1>4, <1>6, <2>1, MovesOn
<1> QED
  BY <1>5, <1>6

\* A step that adds at most an entry.
LEMMA Adds ==
  ASSUME IInv, UNCHANGED <<at, scanVars, hub, pending>>, events' \in 0..MaxEvents,
         flow' \in {flow, NoFlow}, inits' \subseteq inits,
         card' \in [Modules -> Hosts \cup {NoHost}],
         \/ UNCHANGED entries
         \/ \E a \in Answer : a.by = a.mac /\ CreateLocal(a)
         \/ \E c \in Candidate : Mine(c) /\ Add(c, Uid(c))
  PROVE  IInv'
<1>1. EntriesOK(entries') /\ DevsOf(entries) \subseteq DevsOf(entries')
  BY AddKeeps, CreateLocalKeeps DEF IInv
<1> QED
  BY <1>1, FlowFacts, FlowKeeps DEF IInv, TypeOK, CandidatesOwn

LEMMA EntryStepsKeep ==
  ASSUME IInv, \/ \E c \in inits : DeviceImport(c)
               \/ PickDiscovered \/ Manual
               \/ \E m \in Modules : Announced(m) \/ ConfirmCard(m)
  PROVE  IInv'
<1> USE EventCounts, FlowFacts
<1>0. card \in [Modules -> Hosts \cup {NoHost}] /\ inits \subseteq Candidate
  BY DEF IInv, TypeOK
<1>1. ASSUME NEW c \in inits, DeviceImport(c) PROVE IInv'
  <2>1. c \in Candidate /\ Mine(c)
    BY <1>0 DEF IInv, CandidatesOwn
  <2> QED
    BY <1>0, <1>1, <2>1, Adds DEF DeviceImport, netVars
<1>2. CASE PickDiscovered
  <2>1. flow.found \subseteq Answer
    BY DEF Flow
  <2> QED
    BY <1>0, <1>2, <2>1, Adds DEF PickDiscovered, FromUser, netVars
<1>3. CASE Manual
  <2>1. PICK h \in InUse : \E got \in Probe(h) : \E a \in got : FromUser(a)
    BY <1>3 DEF Manual
  <2>2. PICK got \in Probe(h) : \E a \in got : FromUser(a)
    BY <2>1
  <2>3. got \subseteq Answer /\ \A a \in got : a.by = a.mac
    BY <2>2, ProbeFacts
  <2> QED
    BY <1>0, <1>3, <2>2, <2>3, Adds DEF Manual, FromUser, flowVars
<1>4. ASSUME NEW m \in Modules, Announced(m) PROVE IInv'
  <2> DEFINE a == [mac |-> m, host |-> at[m], by |-> m]
  <2>1. a \in Answer /\ a.by = a.mac
    BY <1>4 DEF Announced, Answer, IInv, TypeOK, ScanTypeOK
  <2>2. card' \in [Modules -> Hosts \cup {NoHost}]
    BY <1>0, <1>4, <2>1 DEF Announced, Answer
  <2>3. UNCHANGED entries \/ CreateLocal(a)
    BY <1>4 DEF Announced
  <2> HIDE DEF a
  <2> QED
    BY <1>4, <2>1, <2>2, <2>3, Adds DEF Announced
<1>5. ASSUME NEW m \in Modules, ConfirmCard(m) PROVE IInv'
  <2> DEFINE a == [mac |-> m, host |-> card[m], by |-> m]
  <2>1. a \in Answer /\ a.by = a.mac
    BY <1>0, <1>5 DEF ConfirmCard, Answer
  <2>2. card' \in [Modules -> Hosts \cup {NoHost}]
    BY <1>0, <1>5 DEF ConfirmCard
  <2>3. UNCHANGED entries \/ CreateLocal(a)
    BY <1>5 DEF ConfirmCard
  <2> HIDE DEF a
  <2> QED
    BY <1>5, <2>1, <2>2, <2>3, Adds DEF ConfirmCard, netVars
<1> QED
  BY <1>1, <1>2, <1>3, <1>4, <1>5

LEMMA HubStepsKeep ==
  ASSUME IInv, HubSetup \/ Sync
  PROVE  IInv'
<1> USE EventCounts, FlowFacts
<1>1. CASE HubSetup
  BY <1>1, FlowKeeps DEF HubSetup, netVars, IInv, TypeOK, CandidatesOwn
<1>2. CASE Sync
  <2>1. entries' = {Merged(e) : e \in entries}
    BY <1>2 DEF Sync
  <2>2. ASSUME NEW e \in entries
        PROVE  /\ Merged(e) \in Entry /\ Merged(e).dev = e.dev /\ Merged(e).uid = e.uid
               /\ Mine(Merged(e))
    <3> DEFINE b == e.linked \/ e.dev \in Listed
    <3>1. b \in BOOLEAN
      OBVIOUS
    <3> HIDE DEF b
    <3>2. Merged(e) = [e EXCEPT !.linked = b]
      BY DEF Merged, b
    <3> QED
      BY <3>1, <3>2 DEF IInv, EntriesOK, Entry, Mine
  <2>3. \A e \in entries : Uid(Merged(e)) = Uid(e)
    BY <2>2 DEF Uid
  <2> HIDE DEF Merged
  <2>4. entries' \subseteq Entry /\ \A x \in entries' : Mine(x)
    BY <2>1, <2>2
  <2>5. Named(entries')
    BY <2>1, <2>2, <2>3 DEF IInv, EntriesOK, Named
  <2>6. \A x, y \in entries' : x.dev = y.dev => x = y
    BY <2>1, <2>2 DEF IInv, EntriesOK
  <2>7. DevsOf(entries) \subseteq DevsOf(entries')
    BY <2>1, <2>2 DEF DevsOf
  <2>8. EntriesOK(entries')
    BY <2>4, <2>5, <2>6 DEF EntriesOK
  <2> QED
    BY <1>2, <2>7, <2>8, FlowKeeps DEF Sync, netVars, flowVars, IInv, TypeOK, CandidatesOwn
<1> QED
  BY <1>1, <1>2

-----------------------------------------------------------------------------
(* The theorems *)

LEMMA InitHolds == Init => IInv
<1> SUFFICES ASSUME Init PROVE IInv
  OBVIOUS
<1> USE DEF ScanInit
<1>1. PICK where \in [Devices -> Hosts \cup {NoHost}], D \in SUBSET Devices :
        /\ \A d \in D : where[d] \in MayBeAt(d)
        /\ entries = {Stored(d, where[d]) : d \in D}
  BY DEF Init
<1>2. ASSUME NEW d \in D
      PROVE  LET e == Stored(d, where[d]) IN
             e \in Entry /\ e.dev = d /\ e.uid = Uid(e) /\ Mine(e)
  <2> DEFINE h == where[d]
             l == hub /\ d \in Listed
             b == IF h = NoHost THEN Nobody ELSE d
             u == <<IF d \in Modules THEN "mac" ELSE "gwid", d>>
             e == Stored(d, where[d])
  <2>1. h \in Hosts \cup {NoHost} /\ (h # NoHost => d \in Modules)
    BY <1>1, <1>2 DEF MayBeAt
  <2>2. l \in BOOLEAN
    OBVIOUS
  <2>3. u \in {"mac", "gwid"} \X Devices
    BY <1>1, <1>2
  <2>4. e = [uid |-> u, dev |-> d, linked |-> l, host |-> h, by |-> b]
    BY DEF Stored, Uid
  <2>5. Uid(e) = u
    BY <2>4 DEF Uid
  <2> HIDE DEF l, u, e, h
  <2> QED
    BY <1>1, <2>1, <2>2, <2>3, <2>4, <2>5 DEF Entry, Mine, e, h
<1> DEFINE F(d) == Stored(d, where[d])
<1>3. EntriesOK(entries)
  <2>1. entries = {F(d) : d \in D}
    BY <1>1
  <2>2. \A d \in D : F(d) \in Entry /\ F(d).dev = d /\ F(d).uid = Uid(F(d)) /\ Mine(F(d))
    BY <1>2
  <2> HIDE DEF F
  <2> QED
    BY <2>1, <2>2 DEF EntriesOK, Named
<1>4. Idle \in SeekTypes
  BY DEF Idle, SeekTypes
<1>5. ScanTypeOK
  BY <1>3, <1>4, ScanAssumption DEF Init, ScanTypeOK, EntriesOK, NoCache, NoScan, SeekTypes
<1>6. TypeOK
  BY <1>5 DEF Init, TypeOK, NoFlow, Flow
<1>7. Known /\ AnswersOwn /\ CandidatesOwn
  BY DEF Init, Known, AnswersOwn, CandidatesOwn, Idle, NoCache, NoScan, NoFlow
<1> QED
  BY <1>3, <1>6, <1>7 DEF IInv

LEMMA StepHolds == IInv /\ [Next]_vars => IInv'
<1> SUFFICES ASSUME IInv, [Next]_vars PROVE IInv'
  OBVIOUS
<1>1. CASE LookupStep /\ UNCHANGED flowVars
  BY <1>1, LookupStepKeeps
<1>2. CASE FlowStep
  BY <1>2, FormStepsKeep, BuiltKeeps, EntryStepsKeep, HubStepsKeep DEF FlowStep
<1>3. CASE UNCHANGED vars
  BY <1>3 DEF vars, netVars, scanVars, flowVars, IInv, TypeOK, ScanTypeOK, Known,
              AnswersOwn, CandidatesOwn
<1> QED
  BY <1>1, <1>2, <1>3 DEF Next

\* The inductive invariant of Install holds in every reachable state.
THEOREM Inductive == Spec => []IInv
BY InitHolds, StepHolds, PTL DEF Spec

\* Every variable of the lookups and flows keeps its type.
THEOREM InstallTypes == Spec => []TypeOK
<1>1. IInv => TypeOK
  BY DEF IInv
<1> QED
  BY <1>1, Inductive, PTL

\* However the import, the hub's imports, the cards, the manual flow and the lookups
\* interleave, an appliance never has two device entries.
THEOREM NoTwinEntries == Spec => []NoTwins
<1>1. IInv => NoTwins
  BY DEF IInv, EntriesOK, NoTwins
<1> QED
  BY <1>1, Inductive, PTL

\* An entry's address is always one at which its own module answered, though modules
\* swap addresses, scans are shared and EMS's addresses are old.
THEOREM AddressesOwn == Spec => []OwnAddress
<1>1. IInv => OwnAddress
  BY DEF IInv, EntriesOK, Mine, OwnAddress
<1> QED
  BY <1>1, Inductive, PTL

-----------------------------------------------------------------------------
(* The shared scans *)

\* The cache is as young as the last scan of either kind; while a result by SSDP is in
\* it, the last scan of the subnet is TTL old; and so is the last of its kind when a
\* scan is under way, and the cache, if that scan is by SSDP.
ScanAges ==
  /\ \A full \in BOOLEAN : cache.age <= ago[full]
  /\ cache.age < TTL /\ ~cache.full => ago[TRUE] = TTL
  /\ scan.by # Nobody => ago[scan.full] = TTL
  /\ scan.by # Nobody /\ ~scan.full => cache.age = TTL

\* A scan is started only when it may be.
LEMMA StartAges ==
  ASSUME NEW m, NEW full \in BOOLEAN, StartScan(m, full)
  PROVE  scan'.by = m /\ scan'.full = full
BY DEF StartScan

LEMMA ReturnAges ==
  ASSUME NEW m, NEW found, Return(m, found)
  PROVE  scan' = NoScan
BY DEF Return

LEMMA AgesStep == TypeOK /\ ScanAges /\ [Next]_vars => ScanAges'
<1> SUFFICES ASSUME TypeOK, ScanAges, [Next]_vars PROVE ScanAges'
  OBVIOUS
<1>1. /\ cache.age \in 0..TTL /\ cache.full \in BOOLEAN
      /\ scan.full \in BOOLEAN /\ ago \in [BOOLEAN -> 0..TTL] /\ TTL \in Nat \ {0}
  BY ScanAssumption DEF TypeOK, ScanTypeOK
<1>0. \A full \in BOOLEAN : cache.age = TTL => ago[full] = TTL
  <2> TAKE full \in BOOLEAN
  <2>1. ago[full] \in 0..TTL /\ cache.age <= ago[full]
    BY <1>1 DEF ScanAges
  <2> QED
    BY <1>1, <2>1
<1>2. NoScan.by = Nobody
  BY DEF NoScan
<1>3. CASE UNCHANGED <<cache, ago>> /\ (scan' = NoScan \/ scan' = scan)
  BY <1>2, <1>3 DEF ScanAges
<1>4. ASSUME NEW m \in Modules, GetsLock(m) PROVE ScanAges'
  <2>1. UNCHANGED <<cache, ago>>
    BY <1>4 DEF GetsLock
  <2>2. CASE cache.age < TTL
    <3>1. CASE Return(m, cache.found)
      BY <1>3, <2>1, <3>1, ReturnAges
    <3>2. CASE StartScan(m, TRUE) /\ ~CanReuse(cache, TRUE)
      <4>1. ~cache.full /\ ago[TRUE] = TTL
        BY <1>1, <2>2, <3>2 DEF CanReuse, ScanAges
      <4> QED
        BY <2>1, <3>2, <4>1, StartAges DEF ScanAges
    <3> QED
      BY <1>1, <1>4, <2>2, <3>1, <3>2 DEF GetsLock, HitOrWiden, CanReuse
  <2>3. CASE ~(cache.age < TTL)
    <3>1. StartScan(m, FALSE)
      BY <1>4, <2>3 DEF GetsLock, CanReuse
    <3>2. cache.age = TTL /\ ago[FALSE] = TTL
      <4>1. cache.age = TTL
        BY <1>1, <2>3
      <4> QED
        BY <1>0, <4>1
    <3> QED
      BY <2>1, <3>1, <3>2, StartAges DEF ScanAges
  <2> QED
    BY <2>2, <2>3
<1>5. CASE ScanEnds
  <2>1. /\ cache'.age = 0 /\ cache'.full = scan.full
        /\ ago' = [ago EXCEPT ![scan.full] = 0] /\ scan.by # Nobody
    BY <1>5 DEF ScanEnds
  <2>2. \A full \in BOOLEAN : ago'[full] >= 0
    BY <1>1, <2>1
  <2>3. CASE scan.full
    <3>1. scan' = NoScan
      BY <1>5, <2>3, ReturnAges DEF ScanEnds
    <3>2. cache'.full
      BY <2>1, <2>3
    <3> QED
      BY <1>2, <2>1, <2>2, <3>1, <3>2 DEF ScanAges
  <2>4. CASE ~scan.full
    <3>1. scan.full = FALSE
      BY <1>1, <2>4
    <3>2. ago[TRUE] = TTL
      BY <1>0, <2>1, <2>4 DEF ScanAges
    <3>3. ago'[TRUE] = TTL
      BY <1>1, <2>1, <3>1, <3>2
    <3>4. scan' = NoScan \/ (scan'.by = scan.by /\ scan'.full = TRUE)
      BY <1>5, <2>4, ReturnAges, StartAges DEF ScanEnds, HitOrWiden
    <3> QED
      BY <1>2, <2>1, <2>2, <3>3, <3>4 DEF ScanAges
  <2> QED
    BY <2>3, <2>4
<1>6. CASE ScanProbes
  <2>1. scan'.by = scan.by /\ scan'.full = scan.full /\ UNCHANGED <<cache, ago>>
    BY <1>6 DEF ScanProbes, TypeOK, ScanTypeOK
  <2> QED
    BY <2>1 DEF ScanAges
<1>7. CASE Tick
  <2>1. \A full \in BOOLEAN : /\ ago[full] \in 0..TTL /\ cache.age <= ago[full]
                              /\ ago'[full] = Older(ago[full])
    BY <1>1, <1>7 DEF Tick, ScanAges
  <2>2. \A full \in BOOLEAN : ago[full] = TTL => ago'[full] = TTL
    BY <1>1, <2>1 DEF Older
  <2>3. scan' = scan
    BY <1>7 DEF Tick
  <2>4. CASE cache.age + 1 < TTL
    <3>1. cache'.age = cache.age + 1 /\ cache'.full = cache.full
      BY <1>1, <1>7, <2>4 DEF Tick, TypeOK, ScanTypeOK
    <3>2. \A full \in BOOLEAN : cache'.age <= ago'[full]
      BY <1>1, <2>1, <2>4, <3>1 DEF Older
    <3>3. cache.age < TTL /\ cache.age # TTL
      BY <1>1, <2>4
    <3> QED
      BY <1>1, <2>2, <2>3, <3>1, <3>2, <3>3 DEF ScanAges
  <2>5. CASE ~(cache.age + 1 < TTL)
    <3>1. cache'.age = TTL
      BY <1>7, <2>5 DEF Tick, NoCache
    <3>2. \A full \in BOOLEAN : ago'[full] = TTL
      BY <1>1, <2>1, <2>5 DEF Older
    <3>3. \A full \in BOOLEAN : cache'.age <= ago'[full]
      BY <1>1, <3>1, <3>2
    <3>4. ~(cache'.age < TTL)
      BY <1>1, <3>1
    <3>5. ago'[scan.full] = TTL
      BY <1>1, <3>2
    <3> QED
      BY <2>3, <3>1, <3>3, <3>4, <3>5 DEF ScanAges
  <2> QED
    BY <2>4, <2>5
<1>8. CASE \E m \in Modules : Seek(m) \/ GwIp(m) \/ TryHost(m) \/ StaysCloud(m)
                              \/ CancelLookup(m) \/ Moves(m)
  <2>1. UNCHANGED <<cache, ago>> /\ (scan' = NoScan \/ scan' = scan)
    BY <1>8 DEF Seek, GwIp, TryHost, StaysCloud, CancelLookup, Moves, scanVars
  <2> QED
    BY <1>3, <2>1
<1>9. CASE FlowStep
  <2>1. UNCHANGED scanVars
    BY <1>9 DEF FlowStep, StartImport, FlowProbes, ListDevices, Built, Submit, CloseFlow,
        Resolve, DeviceImport, HubSetup, Sync, StartDiscover, Discovered, PickDiscovered,
        Manual, Announced, ConfirmCard
  <2> QED
    BY <1>3, <2>1 DEF scanVars
<1>10. CASE UNCHANGED vars
  BY <1>3, <1>10 DEF vars, scanVars
<1> QED
  BY <1>4, <1>5, <1>6, <1>7, <1>8, <1>9, <1>10 DEF Next, LookupStep

\* However many entries look for their modules at once, are cancelled or find nothing,
\* a scan of either kind is shared for as long as its result is fresh.
THEOREM ScansShared == Spec => []ScansBounded
<1>1. Init => ScanAges
  BY ScanAssumption DEF Init, ScanInit, ScanAges, NoCache, NoScan
<1>2. ScanAges => ScansBounded
  BY DEF ScanAges, ScansBounded
<1> QED
  BY <1>1, <1>2, AgesStep, InstallTypes, PTL DEF Spec
=============================================================================
