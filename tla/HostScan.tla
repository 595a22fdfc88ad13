------------------------------ MODULE HostScan ------------------------------
(***************************************************************************)
(* Finding modules on the LAN: the scan that all device entries share, the *)
(* lookups of an entry whose module moved (_async_rebinding_host) and of a *)
(* cloud-only entry whose module may have appeared                         *)
(* (_async_recover_lan_for_cloud_only).                                    *)
(*                                                                         *)
(* A module's MAC is its appliance's identity here, and so is the GWID EMS *)
(* lists it under (the two are the same twelve digits).  An action is the  *)
(* code between two awaits; a probe is one step, at its answer.            *)
(***************************************************************************)
EXTENDS Integers, Sequences, FiniteSetsExt

CONSTANTS
  Modules,    \* appliances with a LAN module
  Listed,     \* appliances of the EMS account
  Hosts,      \* LAN addresses, by their order
  Nobody,
  TTL,        \* _HOST_SCAN_TTL_S in ticks
  MaxEvents   \* bound on lookups, moves, announcements and flows

NoHost == 0   \* "0.0.0.0"
Devices == Modules \cup Listed

ASSUME ScanAssumption ==
  /\ Hosts \subseteq Nat \ {NoHost} /\ IsFiniteSet(Hosts) /\ Nobody \notin Devices
  /\ TTL \in Nat \ {0} /\ MaxEvents \in Nat

VARIABLES
  at,        \* where every module answers, or NoHost
  entries,   \* the stored device entries
  cache,     \* _host_scan_cache, forgotten when it is TTL old
  scan,      \* the shared scan under way, made by the holder of the lock
  seek,      \* every entry's lookup
  ago,       \* history: how long ago a shared scan of each kind ended, TTL or more as TTL
  events     \* history: lookups, moves, announcements and flows so far

netVars == <<at, events>>
scanVars == <<cache, scan, seek, ago>>

\* What a probe returns, filed under a MAC; "by" is the module that answered.
Answer == [mac : Modules, host : Hosts, by : Modules]

\* "by" is history: the module whose answer gave the entry its address.
Entry == [uid : {"mac", "gwid"} \X Devices, dev : Devices, linked : BOOLEAN,
          host : Hosts \cup {NoHost}, by : Modules \cup {Nobody}]

NoScan == [by |-> Nobody, full |-> FALSE, todo |-> {}, found |-> {}]
NoCache == [age |-> TTL, full |-> FALSE, found |-> {}]   \* as good as an expired one
Idle == [pc |-> "idle", recover |-> FALSE, todo |-> <<>>]

ScanTypeOK ==
  /\ at \in [Modules -> Hosts \cup {NoHost}]
  /\ entries \subseteq Entry
  /\ cache \in [age : 0..TTL, full : BOOLEAN, found : SUBSET Answer]
  /\ scan \in [by : Modules \cup {Nobody}, full : BOOLEAN,
               todo : SUBSET Hosts, found : SUBSET Answer]
  /\ seek \in [Modules -> [pc : {"idle", "lock", "scan", "gwip", "probe"},
                           recover : BOOLEAN, todo : Seq(Hosts)]]
  /\ ago \in [BOOLEAN -> 0..TTL]
  /\ events \in 0..MaxEvents

Event == events < MaxEvents /\ events' = events + 1

-----------------------------------------------------------------------------
(* Probes and scans *)

\* async_probe_host: nothing, if nobody is there or the module does not answer.
Probe(h) == {{}} \cup {{[mac |-> m, host |-> h, by |-> m]} : m \in {k \in Modules : at[k] = h}}

InUse == {at[m] : m \in Modules} \ {NoHost}

\* _ssdp_search: datagrams get lost.
SsdpAnswers == SUBSET InUse

\* async_discover_devices: _scan_port_57223 adds every open port of the subnet.
HostsToProbe(full) == IF full THEN {InUse} ELSE SsdpAnswers

HostsOf(found, m) == {a.host : a \in {b \in found : b.mac = m}}

\* _match_mac takes the first of a module seen twice, in the order of addresses.
Match(found, m) == IF HostsOf(found, m) = {} THEN NoHost ELSE Min(HostsOf(found, m))

\* Mutant: a scan of one kind is never used for the other.
SameKind(c, full) == c.age < TTL /\ c.full = full

\* The test of _scan_hosts_shared (both callers give no hints).
CanReuse(c, full) == c.age < TTL /\ (c.full \/ ~full)

-----------------------------------------------------------------------------
(* Lookups: async_find_host_by_mac *)

Older(age) == IF age < TTL THEN age + 1 ELSE TTL

\* The entry e now has the address of answer a.
At(e, a) == [e EXCEPT !.host = a.host, !.by = a.by]

Moved(e, a) == entries' = (entries \ {e}) \cup {At(e, a)}

EntryOf(m) == CHOOSE e \in entries : e.dev = m

\* _async_rebinding_host, with the answer of the lookup.
Rebind(m, found) ==
  LET h == Match(found, m) IN
  /\ IF h \in {NoHost, EntryOf(m).host}
     THEN UNCHANGED entries
     ELSE \E a \in found : a.mac = m /\ a.host = h /\ Moved(EntryOf(m), a)
  /\ seek' = [seek EXCEPT ![m] = Idle]

\* _async_recover_lan_for_cloud_only: the first candidate; EMS is asked for another.
Recover(m, found) ==
  LET h == Match(found, m)
      first == IF h = NoHost THEN <<>> ELSE <<h>>
  IN /\ seek' = [seek EXCEPT ![m].todo = first,
                             ![m].pc = IF EntryOf(m).linked THEN "gwip" ELSE "probe"]
     /\ UNCHANGED entries

\* The lookup ends, and with it its hold on the lock.
Return(m, found) ==
  /\ scan' = NoScan
  /\ IF seek[m].recover THEN Recover(m, found) ELSE Rebind(m, found)

StartScan(m, full) ==
  /\ \E todo \in HostsToProbe(full) :
       scan' = [by |-> m, full |-> full, todo |-> todo, found |-> {}]
  /\ seek' = [seek EXCEPT ![m].pc = "scan"]
  /\ UNCHANGED entries

\* With the SSDP answers, or the cached ones, at hand: the hit, or the wider scan.
HitOrWiden(m, c) ==
  IF Match(c.found, m) # NoHost \/ CanReuse(c, TRUE)
  THEN Return(m, c.found)
  ELSE StartScan(m, TRUE)

\* A poll lost its module, or a cloud-only entry is set up.
Seek(m) ==
  /\ Event
  /\ seek[m].pc = "idle" /\ \E e \in entries : e.dev = m
  /\ seek' = [seek EXCEPT ![m].pc = "lock", ![m].recover = EntryOf(m).host = NoHost]
  /\ UNCHANGED <<at, entries, cache, scan, ago>>

GetsLock(m) ==
  /\ seek[m].pc = "lock" /\ scan.by = Nobody
  /\ IF CanReuse(cache, FALSE) THEN HitOrWiden(m, cache) ELSE StartScan(m, FALSE)
  /\ UNCHANGED <<netVars, cache, ago>>

\* Modules are probed one by one, and may move meanwhile.
ScanProbes ==
  /\ scan.todo # {}
  /\ \E got \in Probe(Min(scan.todo)) :
       scan' = [scan EXCEPT !.todo = @ \ {Min(@)}, !.found = @ \cup got]
  /\ UNCHANGED <<netVars, entries, cache, seek, ago>>

ScanEnds ==
  LET c == [age |-> 0, full |-> scan.full, found |-> scan.found] IN
  /\ scan.by # Nobody /\ scan.todo = {}
  /\ cache' = c /\ ago' = [ago EXCEPT ![scan.full] = 0]
  /\ IF scan.full THEN Return(scan.by, c.found) ELSE HitOrWiden(scan.by, c)
  /\ UNCHANGED netVars

\* Mutant: no address is taken for one.
NewHostOrNone(ip, hosts) == \A i \in DOMAIN hosts : hosts[i] # ip

\* What async_get_gw_ip gives is tried as well, if it is an address and another one.
NewHost(ip, hosts) == ip # NoHost /\ \A i \in DOMAIN hosts : hosts[i] # ip

\* async_get_gw_ip: the address EMS last heard of, however old, or none.
GwIp(m) ==
  /\ seek[m].pc = "gwip"
  /\ \E ip \in Hosts \cup {NoHost} :
       seek' = [seek EXCEPT ![m].pc = "probe",
                            ![m].todo = IF NewHost(ip, @) THEN Append(@, ip) ELSE @]
  /\ UNCHANGED <<netVars, entries, cache, scan, ago>>

\* Every candidate is probed: another module may answer there.
TryHost(m) ==
  /\ seek[m].pc = "probe" /\ seek[m].todo # <<>>
  /\ \E got \in Probe(Head(seek[m].todo)) :
       IF \E a \in got : a.mac = m
       THEN /\ \E a \in got : Moved(EntryOf(m), a)
            /\ seek' = [seek EXCEPT ![m] = Idle]
       ELSE /\ seek' = [seek EXCEPT ![m].todo = Tail(@)]
            /\ UNCHANGED entries
  /\ UNCHANGED <<netVars, cache, scan, ago>>

StaysCloud(m) ==
  /\ seek[m].pc = "probe" /\ seek[m].todo = <<>>
  /\ seek' = [seek EXCEPT ![m] = Idle]
  /\ UNCHANGED <<netVars, entries, cache, scan, ago>>

\* The entry's task is cancelled: what it scanned so far is lost, the lock is free.
CancelLookup(m) ==
  /\ Event
  /\ seek[m].pc # "idle"
  /\ seek' = [seek EXCEPT ![m] = Idle]
  /\ scan' = IF scan.by = m THEN NoScan ELSE scan
  /\ UNCHANGED <<at, entries, cache, ago>>

-----------------------------------------------------------------------------
Tick ==
  /\ \E full \in BOOLEAN : ago[full] < TTL
  /\ cache' = IF cache.age + 1 < TTL THEN [cache EXCEPT !.age = @ + 1] ELSE NoCache
  /\ ago' = [full \in BOOLEAN |-> Older(ago[full])]
  /\ UNCHANGED <<netVars, entries, scan, seek>>

\* A module is unplugged, comes back or gets another address.
Moves(m) ==
  /\ Event
  /\ \E h \in (Hosts \cup {NoHost}) \ InUse : h # at[m] /\ at' = [at EXCEPT ![m] = h]
  /\ UNCHANGED <<entries, scanVars>>

ScanInit ==
  /\ at \in {f \in [Modules -> Hosts \cup {NoHost}] :
               \A m, k \in Modules : f[m] = f[k] => m = k \/ f[m] = NoHost}
  /\ cache = NoCache
  /\ scan = NoScan
  /\ seek = [m \in Modules |-> Idle]
  /\ ago = [full \in BOOLEAN |-> TTL]
  /\ events = 0

LookupStep ==
  \/ \E m \in Modules :
       \/ Seek(m) \/ GetsLock(m) \/ GwIp(m) \/ TryHost(m) \/ StaysCloud(m)
       \/ CancelLookup(m) \/ Moves(m)
  \/ ScanProbes \/ ScanEnds \/ Tick

-----------------------------------------------------------------------------
(* Properties *)

\* However many entries look for their modules, a shared scan, by SSDP or of the
\* subnet, is made only when the last one of its kind is TTL old (discovery.py:247-248).
ScansBounded == scan.by # Nobody => ago[scan.full] = TTL
=============================================================================
