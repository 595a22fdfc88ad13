------------------------------ MODULE Install -------------------------------
(***************************************************************************)
(* How appliances become device entries: the import flow (LAN scan, EMS    *)
(* list and EMS's last known addresses), the hub with its pending imports  *)
(* and its sync, the discover and manual flows, and the cards Home         *)
(* Assistant shows for what SSDP announces; beside the lookups of HostScan.*)
(* TaiSeiaConfigFlow of config_flow.py, flow_helpers.py, _async_setup_hub, *)
(* cloud_sync.py.                                                          *)
(*                                                                         *)
(* Every module has a MAC and every listed appliance an Auth.  Names,      *)
(* types, models and settings of the new entries are left out.             *)
(***************************************************************************)
EXTENDS HostScan

VARIABLES
  hub,      \* is there a hub entry?
  flow,     \* the user's flow, see Flow
  pending,  \* _pending_imports, until the hub is set up
  inits,    \* device_import flows about to start
  card      \* the host of a module's discovery flow, open at its form

flowVars == <<hub, flow, pending, inits, card>>
vars == <<netVars, entries, scanVars, flowVars>>

\* What the import stores of an appliance; a cloud-only one has no host.
Candidate == [dev : Devices, linked : BOOLEAN,
              host : Hosts \cup {NoHost}, by : Modules \cup {Nobody}]

\* One user at one flow.  "todo" are the hosts still to be probed, "gwip" the modules
\* to be looked for where EMS says, "seen" the entries known when EMS had answered.
Flow == [pc : {"idle", "scan", "list", "gwip", "form"}, import : BOOLEAN,
         todo : SUBSET Hosts, found : SUBSET Answer, cloud : SUBSET Listed,
         seen : SUBSET Devices, gwip : SUBSET Modules,
         picked : SUBSET (Devices \X BOOLEAN), submitted : BOOLEAN]
NoFlow == [pc |-> "idle", import |-> FALSE, todo |-> {}, found |-> {}, cloud |-> {},
           seen |-> {}, gwip |-> {}, picked |-> {}, submitted |-> FALSE]

TypeOK ==
  /\ ScanTypeOK
  /\ hub \in BOOLEAN /\ flow \in Flow
  /\ pending \subseteq Candidate /\ inits \subseteq Candidate
  /\ card \in [Modules -> Hosts \cup {NoHost}]

-----------------------------------------------------------------------------
(* Creating entries *)

\* configured_ids: unique ids, MACs and GWIDs, which name the appliance alike.
Configured == {e.dev : e \in entries}

\* Mutant: the cloud's name for an appliance comes before the module's.
UidByGwid(c) == <<IF c.linked THEN "gwid" ELSE "mac", c.dev>>

\* async_step_device_import: the MAC, else the GWID.
Uid(c) == <<IF c.dev \in Modules THEN "mac" ELSE "gwid", c.dev>>

\* async_set_unique_id: another flow for the same unique id is in progress.
InProgress(u) == u[1] = "mac" /\ card[u[2]] # NoHost

\* _abort_if_unique_id_configured(updates), else async_create_entry.
Add(c, u) ==
  IF \E e \in entries : e.uid = u
  THEN entries' = {IF e.uid = u /\ c.host # NoHost THEN At(e, c) ELSE e : e \in entries}
  ELSE entries' = entries \cup {[uid |-> u, dev |-> c.dev, linked |-> c.linked,
                                 host |-> c.host, by |-> c.by]}

\* async_step_device_import, one of those the import or the hub's set-up starts.
DeviceImport(c) ==
  /\ c \in inits /\ inits' = inits \ {c}
  /\ IF InProgress(Uid(c)) THEN UNCHANGED entries ELSE Add(c, Uid(c))
  /\ UNCHANGED <<netVars, scanVars, hub, flow, pending, card>>

\* _async_create_local_device with _upgrade_existing_to_lan, from a module's answer.
Local(a) == [dev |-> a.mac, linked |-> FALSE, host |-> a.host, by |-> a.by]
CreateLocal(a) == Add(Local(a), <<"mac", a.mac>>)

-----------------------------------------------------------------------------
(* The import flow *)

\* async_step_user: with a hub, or by way of async_step_account, whose login lists
\* the appliances.  async_discover_devices is called directly, without the cache.
StartImport ==
  /\ Event
  /\ flow.pc = "idle"
  /\ flow' = [NoFlow EXCEPT !.pc = "scan", !.import = TRUE, !.todo = InUse,
                            !.cloud = IF hub THEN {} ELSE Listed]
  /\ UNCHANGED <<at, entries, scanVars, hub, pending, inits, card>>

\* async_discover_devices
FlowProbes ==
  /\ flow.pc = "scan" /\ flow.todo # {}
  /\ \E got \in Probe(Min(flow.todo)) :
       flow' = [flow EXCEPT !.todo = @ \ {Min(@)}, !.found = @ \cup got]
  /\ UNCHANGED <<netVars, entries, scanVars, hub, pending, inits, card>>

\* async_get_devices, unless the list is at hand; it may fail.  Which modules the scan
\* missed, and which appliances are configured, is asked here and not again.
ListDevices ==
  /\ flow.pc = "scan" /\ flow.todo = {} /\ flow.import
  /\ \E list \in IF flow.cloud # {} THEN {flow.cloud} ELSE {{}, Listed} :
       flow' = [flow EXCEPT
         !.pc = "gwip", !.cloud = list, !.seen = Configured,
         !.gwip = {m \in (list \cap Modules) \ Configured : HostsOf(flow.found, m) = {}}]
  /\ UNCHANGED <<netVars, entries, scanVars, hub, pending, inits, card>>

\* Mutant: whoever answers at EMS's address is taken for the module.
FileUnchecked(m, got) == {[a EXCEPT !.mac = m] : a \in got}

\* _resolve keeps an answer of the module it asked for.
File(m, got) == {a \in got : a.mac = m}

\* _resolve: EMS names an address, if any, and the module there is probed.
Resolve(m) ==
  /\ flow.pc = "gwip" /\ m \in flow.gwip
  /\ \E got \in {{}} \cup UNION {Probe(h) : h \in Hosts} :
       flow' = [flow EXCEPT !.gwip = @ \ {m}, !.found = @ \cup File(m, got)]
  /\ UNCHANGED <<netVars, entries, scanVars, hub, pending, inits, card>>

\* by_mac keeps the last of a module seen twice.
Where(found, m) == CHOOSE a \in found : a.mac = m /\ a.host = Max(HostsOf(found, m))

\* cloud_only_import_data
CloudOnly(d) == [dev |-> d, linked |-> TRUE, host |-> NoHost, by |-> Nobody]

\* The candidate of an appliance: on the LAN if its module was found, else cloud-only.
CandidateOf(f, d) ==
  IF HostsOf(f.found, d) # {}
  THEN [Local(Where(f.found, d)) EXCEPT !.linked = d \in f.cloud]
  ELSE CloudOnly(d)

Candidates(f) == {CandidateOf(f, d) :
                    d \in (f.cloud \cup {a.mac : a \in f.found}) \ f.seen}

\* A MAC, or "cloud:" and a GWID.
Key(c) == <<c.dev, c.host = NoHost>>

\* _async_finish_import: the hub starts the imports, or is created and will.
Finish(chosen) ==
  /\ hub' = TRUE
  /\ IF hub
     THEN inits' = inits \cup chosen /\ UNCHANGED pending
     ELSE pending' = chosen /\ UNCHANGED inits
  /\ flow' = NoFlow

\* The candidates are built: shown, or matched with what was picked before.
Built ==
  LET cands == Candidates(flow)
      chosen == {c \in cands : Key(c) \in flow.picked}
  IN
  /\ flow.pc = "gwip" /\ flow.gwip = {}
  /\ IF flow.submitted /\ (chosen # {} \/ ~hub)
     THEN Finish(chosen)
     ELSE /\ flow' = [NoFlow EXCEPT !.pc = "form", !.import = TRUE, !.cloud = flow.cloud,
                                    !.picked = {Key(c) : c \in cands}]
          /\ UNCHANGED <<hub, pending, inits>>
  /\ UNCHANGED <<netVars, entries, scanVars, card>>

\* The form comes back, and everything is looked up again, the EMS list excepted.
Submit ==
  /\ flow.pc = "form" /\ flow.import
  /\ \E keys \in SUBSET flow.picked :
       flow' = [flow EXCEPT !.pc = "scan", !.todo = InUse, !.picked = keys, !.submitted = TRUE]
  /\ UNCHANGED <<netVars, entries, scanVars, hub, pending, inits, card>>

CloseFlow ==
  /\ flow.pc = "form" /\ flow' = NoFlow
  /\ UNCHANGED <<netVars, entries, scanVars, hub, pending, inits, card>>

\* _async_setup_hub pops the pending imports and starts a flow for each.
HubSetup ==
  /\ pending # {}
  /\ inits' = inits \cup pending /\ pending' = {}
  /\ UNCHANGED <<netVars, entries, scanVars, hub, flow, card>>

\* merge_cloud_into_entry_data, of the appliance with the entry's MAC or else its GWID.
Merged(e) == [e EXCEPT !.linked = @ \/ e.dev \in Listed]

\* async_sync_cloud_to_devices
Sync ==
  /\ hub /\ \E e \in entries : e.dev \in Listed /\ ~e.linked
  /\ entries' = {Merged(e) : e \in entries}
  /\ UNCHANGED <<netVars, scanVars, flowVars>>

-----------------------------------------------------------------------------
(* Flows without EMS *)

\* async_step_discover
StartDiscover ==
  /\ Event
  /\ flow.pc = "idle"
  /\ flow' = [NoFlow EXCEPT !.pc = "scan", !.todo = InUse]
  /\ UNCHANGED <<at, entries, scanVars, hub, pending, inits, card>>

Discovered ==
  /\ flow.pc = "scan" /\ flow.todo = {} /\ ~flow.import
  /\ flow' = [flow EXCEPT !.pc = "form",
                          !.found = {a \in @ : a.mac \notin Configured}]
  /\ UNCHANGED <<netVars, entries, scanVars, hub, pending, inits, card>>

\* A flow of the user's gives way to one in progress for the same module.
FromUser(a) == IF InProgress(<<"mac", a.mac>>) THEN UNCHANGED entries ELSE CreateLocal(a)

PickDiscovered ==
  /\ flow.pc = "form" /\ ~flow.import
  /\ \E a \in flow.found : a = Where(flow.found, a.mac) /\ FromUser(a)
  /\ flow' = NoFlow
  /\ UNCHANGED <<netVars, scanVars, hub, pending, inits, card>>

\* async_step_manual, at the probe's answer.
Manual ==
  /\ Event
  /\ flow.pc = "idle"
  /\ \E h \in InUse : \E got \in Probe(h) : \E a \in got : FromUser(a)
  /\ UNCHANGED <<at, scanVars, flowVars>>

\* async_step_ssdp, at the probe's answer: a configured module gets the address.
Announced(m) ==
  /\ Event
  /\ at[m] # NoHost /\ card[m] = NoHost
  /\ IF \E e \in entries : e.uid = <<"mac", m>>
     THEN CreateLocal([mac |-> m, host |-> at[m], by |-> m]) /\ UNCHANGED card
     ELSE card' = [card EXCEPT ![m] = at[m]] /\ UNCHANGED entries
  /\ UNCHANGED <<at, scanVars, hub, flow, pending, inits>>

\* async_step_discover_confirm, with what the probe said when the card was opened.
ConfirmCard(m) ==
  /\ card[m] # NoHost /\ card' = [card EXCEPT ![m] = NoHost]
  /\ \/ CreateLocal([mac |-> m, host |-> card[m], by |-> m])
     \/ UNCHANGED entries                       \* dismissed
  /\ UNCHANGED <<netVars, scanVars, hub, flow, pending, inits>>

-----------------------------------------------------------------------------
\* An entry as an earlier import or sync left it, at an address its module once had.
Stored(d, h) ==
  LET c == [dev |-> d, linked |-> hub /\ d \in Listed,
            host |-> h, by |-> IF h = NoHost THEN Nobody ELSE d]
  IN [uid |-> Uid(c), dev |-> c.dev, linked |-> c.linked, host |-> c.host, by |-> c.by]
MayBeAt(d) == (IF d \in Modules THEN Hosts ELSE {})
              \cup (IF hub /\ d \in Listed THEN {NoHost} ELSE {})

Init ==
  /\ ScanInit
  /\ flow = NoFlow /\ pending = {} /\ inits = {}
  /\ card = [m \in Modules |-> NoHost]
  /\ hub \in BOOLEAN
  /\ \E where \in [Devices -> Hosts \cup {NoHost}], D \in SUBSET Devices :
       /\ \A d \in D : where[d] \in MayBeAt(d)
       /\ entries = {Stored(d, where[d]) : d \in D}

FlowStep ==
  \/ StartImport \/ FlowProbes \/ ListDevices \/ Built \/ Submit \/ CloseFlow
  \/ (\E m \in Modules : Resolve(m)) \/ (\E c \in inits : DeviceImport(c))
  \/ HubSetup \/ Sync
  \/ StartDiscover \/ Discovered \/ PickDiscovered \/ Manual
  \/ \E m \in Modules : Announced(m) \/ ConfirmCard(m)

Next == (LookupStep /\ UNCHANGED flowVars) \/ FlowStep

Spec == Init /\ [][Next]_vars

-----------------------------------------------------------------------------
(* Properties *)

\* An appliance never has two entries, whichever flows meet.
NoTwins == \A e, f \in entries : e.dev = f.dev => e = f

\* The address of an entry is one at which its own module answered: neither a scan,
\* nor EMS's last known address, nor a card gives it another module's.
OwnAddress == \A e \in entries : e.host # NoHost => e.by = e.dev
=============================================================================
