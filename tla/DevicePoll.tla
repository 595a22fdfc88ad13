----------------------------- MODULE DevicePoll -----------------------------
(***************************************************************************)
(* One device entry of panasonic_taiseia_local: its setup                  *)
(* (_async_setup_device), the coordinator poll (async_update_data) and the *)
(* read routing of DeviceControl, against a module that may lose power or  *)
(* change address and an EMS cloud that may stop answering.                *)
(*                                                                         *)
(* The integration is one asyncio task per entry, so a step runs from one  *)
(* await to the next; the environment, the clock and the user interleave   *)
(* at the awaits.  Time is counted in ticks of one poll interval.          *)
(***************************************************************************)
EXTENDS Integers

CONSTANTS
  Hosts,          \* LAN addresses the module may be given by DHCP
  NoHost,         \* "0.0.0.0": no LAN address
  Unknown,        \* the shared scan cache holds nothing fresh
  Modes,          \* control modes an entry may start with
  EditModes,      \* control modes the user may save later ({}: no edits)
  Clouds,         \* may the entry have a GWID?  subset of BOOLEAN
  Glitches,       \* may a LAN answer be undecodable?  subset of BOOLEAN
  ReloadGap,      \* _LAN_RELOAD_GAP_S, in ticks
  ScanCooldown    \* _HOST_REDISCOVER_COOLDOWN_S, in ticks

ControlModes == {"local", "hybrid", "cloud"}
Choices == ControlModes \cup {"lock", "cleared"}

ASSUME HostsAssumption ==
  /\ NoHost \notin Hosts
  /\ Unknown \notin Hosts \cup {NoHost}
ASSUME ConfigAssumption ==
  /\ Modes \subseteq ControlModes
  /\ EditModes \subseteq ControlModes
  /\ Clouds \subseteq BOOLEAN
  /\ Glitches \subseteq BOOLEAN
ASSUME ClockAssumption == ReloadGap \in Nat /\ ScanCooldown \in Nat

Addresses == Hosts \cup {NoHost}

VARIABLES
  \* environment
  module,       \* address where the module accepts TCP, NoHost when unpowered
  emsUp,        \* does EMS answer for this device?
  cache,        \* discovery's shared scan: an address, NoHost (a miss), Unknown
  \* the stored config entry
  entry,        \* [host, cloudOnly, mode]
  hasCloud,     \* the entry holds a GWID (and a hub account exists)
  chosen,       \* history: the mode the user last picked; "lock" or "cleared" if forced
  \* the closure of one setup
  host,         \* client.host
  lan, ctl,     \* lan_ok of the poll closure and of DeviceControl
  cloudOnly,    \* this setup found an intentional cloud-only entry
  probed,       \* probed_at_setup
  ready,        \* entry_ready: platforms are loaded
  scanAge,      \* ticks since last_rediscover_mono
  reloadAge,    \* ticks since last_reload_mono
  \* control flow
  pc, site, fmode, err,
  due,          \* the coordinator's timer has fired
  reload,       \* reload tasks created and not yet run
  \* what entities see
  path, ok, kept,
  \* history
  glitched      \* an undecodable LAN answer was seen since setup

envVars  == <<module, emsUp>>
confVars == <<entry, hasCloud, chosen>>
lanVars  == <<host, lan, ctl>>
bootVars == <<cloudOnly, probed>>
flowVars == <<pc, site, fmode, err, path, ok, kept, ready>>
gapVars  == <<reload, reloadAge>>
vars == <<envVars, cache, confVars, lanVars, bootVars, flowVars, gapVars,
          scanAge, due, glitched>>

Labels == {"recover", "probe", "setupscan", "reprobe", "start", "idle", "retry",
           "check", "checkscan", "fetch", "lanread", "cloudread",
           "except", "dropscan", "errscan"}
Sites  == {"poll", "drop", "rebound", "assist"}
Errors == {"none", "transport", "timeout", "offline", "error", "credentials"}
Paths  == {"none", "lan", "cloud", "offline"}

FlowTypeOK ==
  /\ pc \in Labels /\ site \in Sites /\ fmode \in ControlModes /\ err \in Errors
  /\ path \in Paths /\ ok \in BOOLEAN /\ kept \in BOOLEAN /\ ready \in BOOLEAN

\* Every variable has its type; the clocks stay within their bounds.
TypeOK ==
  /\ FlowTypeOK
  /\ module \in Addresses /\ emsUp \in BOOLEAN
  /\ cache \in Addresses \cup {Unknown}
  /\ entry \in [host: Addresses, cloudOnly: BOOLEAN, mode: ControlModes]
  /\ hasCloud \in BOOLEAN /\ chosen \in Choices
  /\ host \in Addresses /\ lan \in BOOLEAN /\ ctl \in BOOLEAN
  /\ cloudOnly \in BOOLEAN /\ probed \in BOOLEAN
  /\ scanAge \in 0..ScanCooldown /\ reloadAge \in 0..ReloadGap
  /\ due \in BOOLEAN /\ reload \subseteq {"probe", "options"}
  /\ glitched \in BOOLEAN

-----------------------------------------------------------------------------
(* Derived values *)

\* resolve_control_mode / DeviceControl.mode, read live from the entry
ControlMode == IF cloudOnly THEN "cloud" ELSE entry.mode

\* DeviceControl.can_use_lan
CanUseLan == ctl /\ ~cloudOnly /\ host # NoHost

\* Mutant: _uses_cloud_when_lan_down forgets the hybrid and cloud modes.
CloudOnlyUsesCloud == cloudOnly

UsesCloudWhenLanDown == cloudOnly \/ (ControlMode # "local" /\ hasCloud)

RediscoverDue == scanAge = ScanCooldown

\* The states of an entry whose host is not set: _async_setup_device's
\* intentionally_cloud (the remaining disjuncts hold for every such entry).
IntentionallyCloud(e) == e.host = NoHost

-----------------------------------------------------------------------------
(* Parts of actions.  The first five each fix all of flowVars. *)

Await(label) ==
  /\ pc' = label
  /\ UNCHANGED <<site, fmode, err, path, ok, kept, ready>>

FetchAt(s) ==
  /\ pc' = "fetch" /\ site' = s /\ err' = "none"
  /\ UNCHANGED <<fmode, path, ok, kept, ready>>

Raise(e) ==
  /\ pc' = "except" /\ err' = e
  /\ UNCHANGED <<site, fmode, path, ok, kept, ready>>

\* A poll that returns: on the first refresh the platforms load right after.
Publish(p) ==
  /\ pc' = "idle" /\ path' = p /\ ok' = TRUE /\ ready' = TRUE /\ kept' = FALSE
  /\ site' = "poll" /\ err' = "none" /\ fmode' = "local"

\* UpdateFailed: entities go unavailable, or, on the first refresh, the setup
\* ends in ConfigEntryNotReady and Home Assistant retries it.
UpdateFailed ==
  /\ pc' = IF ready THEN "idle" ELSE "retry"
  /\ ok' = FALSE
  /\ site' = "poll" /\ err' = "none" /\ fmode' = "local"
  /\ UNCHANGED <<path, kept, ready>>

KeepLastData ==
  /\ pc' = "idle" /\ ok' = TRUE /\ kept' = TRUE /\ ready' = TRUE
  /\ site' = "poll" /\ err' = "none" /\ fmode' = "local"
  /\ UNCHANGED path

CloudOrOffline(s) ==
  IF UsesCloudWhenLanDown THEN FetchAt(s) ELSE Publish("offline")

\* _schedule_probe_reload
ScheduleProbeReload ==
  IF ~probed /\ ready /\ reloadAge = ReloadGap
  THEN reload' = reload \cup {"probe"} /\ reloadAge' = 0
  ELSE UNCHANGED gapVars

\* async_find_host_by_mac: a fresh shared scan answers, else the network is
\* scanned (SSDP or the /24 pass may miss a module that is there).
Lookup(found) ==
  IF cache # Unknown
  THEN found = cache /\ UNCHANGED cache
  ELSE found \in {module, NoHost} /\ cache' = found

\* _async_rebinding_host persists the address it adopts
Rebinds(found) == found # NoHost /\ found # host
RebindingHost(found) ==
  IF Rebinds(found)
  THEN host' = found /\ entry' = [entry EXCEPT !.host = found]
  ELSE UNCHANGED <<host, entry>>

-----------------------------------------------------------------------------
(* Setup: async_setup_entry -> _async_setup_device *)

StartSetup ==
  /\ host' = entry.host
  /\ lan' = FALSE /\ ctl' = FALSE /\ cloudOnly' = FALSE /\ probed' = FALSE
  /\ pc' = IF IntentionallyCloud(entry) THEN "recover" ELSE "probe"
  /\ site' = "poll" /\ err' = "none"
  /\ path' = "none" /\ ok' = FALSE /\ kept' = FALSE /\ ready' = FALSE
  /\ due' = FALSE /\ glitched' = FALSE /\ fmode' = "local"
  /\ scanAge' = ScanCooldown /\ reloadAge' = ReloadGap

\* Mutant: the heal restores hybrid on every LAN entry, chosen or not.
HealAnyCloudMode(e) ==
  IF e.host # NoHost
  THEN [e EXCEPT !.cloudOnly = FALSE,
                 !.mode = IF e.mode = "cloud" THEN "hybrid" ELSE e.mode]
  ELSE e

\* The entry as setup leaves it: a cloud_only flag on a real address is an old
\* lock and is lifted, together with the cloud mode it forced.
HealStickyCloudOnly(e) ==
  IF e.host # NoHost /\ e.cloudOnly
  THEN [e EXCEPT !.cloudOnly = FALSE,
                 !.mode = IF e.mode = "cloud" THEN "hybrid" ELSE e.mode]
  ELSE e

\* The closure of the poll is created: lan_ok, the clocks, DeviceControl.
CreateCoordinator(reached, rediscovered) ==
  /\ lan' = reached /\ ctl' = reached /\ probed' = reached
  /\ scanAge' = IF rediscovered THEN 0 ELSE ScanCooldown
  /\ reloadAge' = ReloadGap
  /\ UNCHANGED reload

\* _async_recover_lan_for_cloud_only: candidates are the MAC scan's hit and
\* the address EMS reports; a candidate counts when it answers a probe.
RecoverLan ==
  /\ pc = "recover"
  /\ \E found \in Addresses :
       /\ Lookup(found)
       /\ LET candidates == {found} \cup (IF emsUp /\ hasCloud THEN {module} ELSE {})
          IN \/ /\ module \in candidates \ {NoHost}
                /\ host' = module
                /\ entry' = [host |-> module, cloudOnly |-> FALSE,
                             mode |-> IF entry.mode = "cloud" THEN "hybrid" ELSE entry.mode]
                /\ Await("probe")
                /\ UNCHANGED <<lan, ctl, bootVars, gapVars, scanAge>>
             \/ /\ entry' = [entry EXCEPT !.mode = "cloud"]
                /\ cloudOnly' = TRUE
                /\ CreateCoordinator(FALSE, FALSE)
                /\ Await("start")
                /\ UNCHANGED host
  /\ UNCHANGED <<envVars, hasCloud, chosen, due, glitched>>

\* The port check and async_probe at the stored address.
SetupProbeOk ==
  /\ pc \in {"probe", "reprobe"}
  /\ module = host
  /\ CreateCoordinator(TRUE, pc = "reprobe")
  /\ entry' = HealStickyCloudOnly(entry)
  /\ Await("start")
  /\ UNCHANGED <<envVars, cache, hasCloud, chosen, host, cloudOnly, due, glitched>>

\* Mutant: an unreachable module raises ConfigEntryNotReady, as it used to.
SetupProbeNotReady ==
  /\ pc \in {"probe", "reprobe"}
  /\ Await(IF pc = "probe" THEN "setupscan" ELSE "retry")
  /\ UNCHANGED <<envVars, cache, confVars, lanVars, bootVars, gapVars, scanAge, due, glitched>>

SetupProbeFails ==
  /\ pc \in {"probe", "reprobe"}
  /\ IF pc = "probe"
     THEN /\ Await("setupscan")
          /\ UNCHANGED <<entry, lanVars, probed, gapVars, scanAge>>
     ELSE /\ Await("start")
          /\ CreateCoordinator(FALSE, TRUE)
          /\ entry' = HealStickyCloudOnly(entry)
          /\ UNCHANGED host
  /\ UNCHANGED <<envVars, cache, hasCloud, chosen, cloudOnly, due, glitched>>

\* One scan per setup; without a new address the setup still completes.
SetupScan ==
  /\ pc = "setupscan"
  /\ \E found \in Addresses :
       /\ Lookup(found)
       /\ IF Rebinds(found)
          THEN /\ RebindingHost(found)
               /\ Await("reprobe")
               /\ UNCHANGED <<lan, ctl, probed, gapVars, scanAge>>
          ELSE /\ entry' = HealStickyCloudOnly(entry)
               /\ CreateCoordinator(FALSE, TRUE)
               /\ Await("start")
               /\ UNCHANGED host
  /\ UNCHANGED <<envVars, hasCloud, chosen, cloudOnly, due, glitched>>

\* Home Assistant runs a failed setup again.
SetupRetry ==
  /\ pc = "retry"
  /\ StartSetup
  /\ UNCHANGED <<envVars, cache, confVars, reload>>

\* A created reload task runs: unload, then setup with a new closure.  A poll
\* in flight is abandoned.
Reload(why) ==
  /\ ready \/ pc = "retry"
  /\ why \in reload
  /\ reload' = reload \ {why}
  /\ StartSetup
  /\ UNCHANGED <<envVars, cache, confVars>>

-----------------------------------------------------------------------------
(* The poll: async_update_data *)

\* A probe never ran: no SOAP before a port check.
PollStart ==
  /\ pc = "start" \/ (pc = "idle" /\ due)
  /\ due' = FALSE
  /\ IF ~lan /\ ~cloudOnly /\ host # NoHost THEN Await("check") ELSE FetchAt("poll")
  /\ UNCHANGED <<envVars, cache, confVars, lanVars, bootVars, gapVars, scanAge, glitched>>

\* The port is open.  Known services are read again; an unprobed setup asks
\* for a reload and stays on the cloud, or offline, for this cycle.
PortOpened ==
  IF probed
  THEN /\ lan' = TRUE /\ ctl' = TRUE
       /\ FetchAt("poll")
       /\ UNCHANGED gapVars
  ELSE /\ ScheduleProbeReload
       /\ CloudOrOffline("poll")
       /\ UNCHANGED <<lan, ctl>>

PortClosed ==
  /\ CloudOrOffline("poll")
  /\ UNCHANGED <<lan, ctl, gapVars>>

\* async_port_open; _rediscover_if_due stamps the clock before it scans.
PortCheck ==
  /\ pc = "check"
  /\ IF module = host
     THEN PortOpened /\ UNCHANGED scanAge
     ELSE IF RediscoverDue
     THEN scanAge' = 0 /\ Await("checkscan") /\ UNCHANGED <<lan, ctl, gapVars>>
     ELSE PortClosed /\ UNCHANGED scanAge
  /\ UNCHANGED <<envVars, cache, confVars, host, bootVars, due, glitched>>

CheckScan ==
  /\ pc = "checkscan"
  /\ \E found \in Addresses :
       /\ Lookup(found)
       /\ RebindingHost(found)
       /\ IF Rebinds(found) THEN PortOpened ELSE PortClosed
  /\ UNCHANGED <<envVars, hasCloud, chosen, bootVars, scanAge, due, glitched>>

\* DeviceControl.async_fetch_status: the mode is read once, then routes.
FetchStatus ==
  /\ pc = "fetch"
  /\ fmode' = ControlMode
  /\ LET route == CASE fmode' = "local"                -> "lanread"
                    [] fmode' = "cloud"                -> "cloudread"
                    [] fmode' = "hybrid" /\ CanUseLan  -> "lanread"
                    [] fmode' = "hybrid" /\ ~CanUseLan ->
                         IF hasCloud THEN "cloudread" ELSE "except"
     IN pc' = route /\ err' = IF route = "except" THEN "error" ELSE "none"
  /\ UNCHANGED <<site, path, ok, kept, ready, envVars, cache, confVars, lanVars,
                 bootVars, gapVars, scanAge, due, glitched>>

\* Which flags a successful read raises depends on the call site.
ReadSucceeds(p) ==
  /\ Publish(p)
  /\ IF site = "rebound" \/ (site = "poll" /\ p = "lan")
     THEN lan' = TRUE /\ ctl' = TRUE
     ELSE UNCHANGED <<lan, ctl>>

LanReadOk ==
  /\ pc = "lanread" /\ module = host
  /\ ReadSucceeds("lan")
  /\ UNCHANGED <<envVars, cache, confVars, host, bootVars, gapVars, scanAge, due, glitched>>

\* Mutant: every mode falls back on the cloud.
LanReadFallsBack(kind) ==
  /\ pc = "lanread"
  /\ ctl' = FALSE
  /\ IF hasCloud THEN Await("cloudread") ELSE Raise(kind)
  /\ UNCHANGED <<envVars, cache, confVars, host, lan, bootVars, gapVars, scanAge, due>>

\* Mutant: hybrid wraps the transport error even with no cloud to fall back on.
LanReadWrapsError(kind) ==
  /\ pc = "lanread"
  /\ IF fmode = "hybrid"
     THEN /\ ctl' = FALSE
          /\ IF hasCloud THEN Await("cloudread") ELSE Raise("error")
     ELSE Raise(kind) /\ UNCHANGED ctl
  /\ UNCHANGED <<envVars, cache, confVars, host, lan, bootVars, gapVars, scanAge, due>>

\* Hybrid drops DeviceControl's flag and asks the cloud; local re-raises.
LanReadFails(kind) ==
  /\ pc = "lanread"
  /\ IF fmode = "hybrid"
     THEN /\ ctl' = FALSE
          /\ IF hasCloud THEN Await("cloudread") ELSE Raise(kind)
     ELSE Raise(kind) /\ UNCHANGED ctl
  /\ UNCHANGED <<envVars, cache, confVars, host, lan, bootVars, gapVars, scanAge, due>>

\* The module never answered, or answered something undecodable.
LanReadTransport ==
  module # host /\ LanReadFails("transport") /\ UNCHANGED glitched
LanReadGlitch ==
  TRUE \in Glitches /\ module = host /\ LanReadFails("error") /\ glitched' = TRUE

CloudReadOk ==
  /\ pc = "cloudread" /\ emsUp /\ hasCloud
  /\ ReadSucceeds("cloud")
  /\ UNCHANGED <<envVars, cache, confVars, host, bootVars, gapVars, scanAge, due, glitched>>

\* Hybrid wraps every EMS error; cloud mode reports an unplugged appliance as
\* offline when it is not waiting for its first probe.
CloudReadFails(kind) ==
  /\ pc = "cloudread" /\ ~(emsUp /\ hasCloud)
  /\ ~hasCloud => kind = "error"
  /\ CASE fmode = "hybrid" -> Raise("error") /\ UNCHANGED <<lan, ctl>>
       [] fmode # "hybrid" /\ kind = "offline" /\ (cloudOnly \/ ctl) ->
            ReadSucceeds("offline")
       [] OTHER -> Raise(kind) /\ UNCHANGED <<lan, ctl>>
  /\ UNCHANGED <<envVars, cache, confVars, host, bootVars, gapVars, scanAge, due, glitched>>

-----------------------------------------------------------------------------
(* The poll's except branch *)

\* A read made while recovering fails, or EMS rejected the password.
ExceptFails ==
  /\ pc = "except"
  /\ site # "poll" \/ err = "credentials"
  /\ UpdateFailed
  /\ UNCHANGED <<envVars, cache, confVars, lanVars, bootVars, gapVars, scanAge, due, glitched>>

\* Mutant: only the poll's own flag is dropped.
ExceptTransportKeepsControl ==
  /\ pc = "except" /\ site = "poll" /\ err = "transport"
  /\ lan' = FALSE
  /\ IF RediscoverDue
     THEN scanAge' = 0 /\ Await("dropscan")
     ELSE CloudOrOffline("drop") /\ UNCHANGED scanAge
  /\ UNCHANGED <<envVars, cache, confVars, host, ctl, bootVars, gapVars, due, glitched>>

\* Mutant: a poll whose module never answered keeps the last data.
ExceptTransportKeepsData ==
  /\ pc = "except" /\ site = "poll" /\ err = "transport"
  /\ IF path # "none" THEN KeepLastData ELSE UpdateFailed
  /\ UNCHANGED <<envVars, cache, confVars, lanVars, bootVars, gapVars, scanAge, due, glitched>>

\* is_lan_transport_error: drop both flags, look for the module, fall back.
ExceptTransport ==
  /\ pc = "except" /\ site = "poll" /\ err = "transport"
  /\ lan' = FALSE /\ ctl' = FALSE
  /\ IF RediscoverDue
     THEN scanAge' = 0 /\ Await("dropscan")
     ELSE CloudOrOffline("drop") /\ UNCHANGED scanAge
  /\ UNCHANGED <<envVars, cache, confVars, host, bootVars, gapVars, due, glitched>>

DropScan ==
  /\ pc = "dropscan"
  /\ \E found \in Addresses :
       /\ Lookup(found)
       /\ RebindingHost(found)
       /\ IF Rebinds(found) THEN ScheduleProbeReload ELSE UNCHANGED gapVars
  /\ CloudOrOffline("drop")
  /\ UNCHANGED <<envVars, hasCloud, chosen, lan, ctl, bootVars, scanAge, due, glitched>>

\* Any other error of an entry that may use its LAN.
ExceptOther ==
  /\ pc = "except" /\ site = "poll"
  /\ err \notin {"transport", "credentials"}
  /\ ControlMode # "cloud"
  /\ IF RediscoverDue
     THEN scanAge' = 0 /\ Await("errscan")
     ELSE UpdateFailed /\ UNCHANGED scanAge
  /\ UNCHANGED <<envVars, cache, confVars, lanVars, bootVars, gapVars, due, glitched>>

ErrScan ==
  /\ pc = "errscan"
  /\ \E found \in Addresses :
       /\ Lookup(found)
       /\ RebindingHost(found)
       /\ CASE Rebinds(found)              -> FetchAt("rebound") /\ UNCHANGED ctl
            [] ~Rebinds(found) /\ hasCloud -> FetchAt("assist") /\ ctl' = FALSE
            [] OTHER                       -> UpdateFailed /\ UNCHANGED ctl
  /\ UNCHANGED <<envVars, hasCloud, chosen, lan, bootVars, gapVars, scanAge, due, glitched>>

\* Cloud mode: a timeout keeps the last good poll, anything else fails.
ExceptCloud ==
  /\ pc = "except" /\ site = "poll"
  /\ err \notin {"transport", "credentials"}
  /\ ControlMode = "cloud"
  /\ IF err = "timeout" /\ path # "none" THEN KeepLastData ELSE UpdateFailed
  /\ UNCHANGED <<envVars, cache, confVars, lanVars, bootVars, gapVars, scanAge, due, glitched>>

-----------------------------------------------------------------------------
(* Clock, user and environment *)

\* Mutant: a clock that is never capped.
OlderUncapped(age, limit) == age + 1

Older(age, limit) == IF age < limit THEN age + 1 ELSE age

\* One poll interval passes; the coordinator's timer fires.
Tick ==
  /\ due' = ready
  /\ scanAge' = Older(scanAge, ScanCooldown)
  /\ reloadAge' = Older(reloadAge, ReloadGap)
  /\ UNCHANGED <<envVars, cache, confVars, lanVars, bootVars, flowVars, reload, glitched>>

\* The device options form: an address is taken only when it answers a probe,
\* a cleared address forces cloud mode; the update listener reloads the entry.
SaveOptions(h, mode) ==
  /\ ready
  /\ h # NoHost => module = h
  /\ LET forced == h = NoHost
     IN /\ entry' = [host |-> h,
                     cloudOnly |-> forced /\ (entry.cloudOnly \/ hasCloud),
                     mode |-> IF forced THEN "cloud" ELSE mode]
        /\ chosen' = IF forced THEN "cleared" ELSE mode
  /\ reload' = reload \cup {"options"}
  /\ UNCHANGED <<envVars, cache, hasCloud, lanVars, bootVars, flowVars,
                 reloadAge, scanAge, due, glitched>>

\* Power is cut or restored, DHCP moves the module, EMS comes and goes, the
\* shared scan expires.
ModuleMoves(h) ==
  /\ module # h /\ module' = h
  /\ UNCHANGED <<emsUp, cache, confVars, lanVars, bootVars, flowVars, gapVars,
                 scanAge, due, glitched>>
EmsChanges ==
  /\ emsUp' = ~emsUp
  /\ UNCHANGED <<module, cache, confVars, lanVars, bootVars, flowVars, gapVars,
                 scanAge, due, glitched>>
CacheExpires ==
  /\ cache # Unknown /\ cache' = Unknown
  /\ UNCHANGED <<envVars, confVars, lanVars, bootVars, flowVars, gapVars,
                 scanAge, due, glitched>>

-----------------------------------------------------------------------------
(* Specification *)

StoredEntries ==
  [host: Hosts, cloudOnly: {FALSE}, mode: Modes]
    \cup [host: Addresses, cloudOnly: {TRUE}, mode: {"cloud"}]

Init ==
  /\ module \in Addresses /\ emsUp \in BOOLEAN /\ cache = Unknown
  /\ entry \in StoredEntries /\ hasCloud \in Clouds
  /\ entry.host = NoHost => hasCloud
  /\ chosen = IF entry.cloudOnly THEN "lock" ELSE entry.mode
  /\ host = entry.host /\ lan = FALSE /\ ctl = FALSE
  /\ cloudOnly = FALSE /\ probed = FALSE /\ ready = FALSE
  /\ scanAge = ScanCooldown /\ reloadAge = ReloadGap
  /\ pc = IF IntentionallyCloud(entry) THEN "recover" ELSE "probe"
  /\ site = "poll" /\ fmode = "local" /\ err = "none"
  /\ due = FALSE /\ reload = {}
  /\ path = "none" /\ ok = FALSE /\ kept = FALSE /\ glitched = FALSE

Setup == RecoverLan \/ SetupProbeOk \/ SetupProbeFails \/ SetupScan \/ SetupRetry

Poll ==
  \/ PollStart \/ PortCheck \/ CheckScan \/ FetchStatus
  \/ LanReadOk \/ LanReadTransport \/ LanReadGlitch
  \/ CloudReadOk \/ \E kind \in {"timeout", "offline", "error", "credentials"} : CloudReadFails(kind)
  \/ ExceptFails \/ ExceptTransport \/ DropScan \/ ExceptOther \/ ErrScan \/ ExceptCloud

Reloads == \E why \in {"probe", "options"} : Reload(why)

User == \E h \in Addresses, mode \in EditModes : SaveOptions(h, mode)

Environment == EmsChanges \/ \E h \in Addresses : ModuleMoves(h)

Next == Setup \/ Poll \/ Reloads \/ Tick \/ CacheExpires \/ User \/ Environment

Spec == Init /\ [][Next]_vars

\* A scan or a probe of a module that is there is not unlucky forever.
ScanHits == (SetupScan \/ CheckScan \/ DropScan \/ ErrScan) /\ cache' = module
Fairness ==
  /\ WF_vars(Setup) /\ WF_vars(Poll) /\ WF_vars(Reloads) /\ WF_vars(Tick)
  /\ WF_vars(CacheExpires)
  /\ SF_vars(ScanHits) /\ SF_vars(SetupProbeOk) /\ SF_vars(LanReadOk)

FairSpec == Spec /\ Fairness

-----------------------------------------------------------------------------
(* Properties *)

\* Cloud-only entries are the only ones locked to cloud mode, and the lock never
\* touches a choice of the user: an outage does not lock a LAN entry, setup's heals
\* lift an old lock and nothing else (__init__.py 450-484, README v1.7.0).  An
\* address cleared while a poll was rescanning may come back with its lock.
ModeIsUsersChoice ==
  ready =>
    /\ entry.host = NoHost => entry.mode = "cloud"
    /\ entry.host # NoHost /\ chosen \in ControlModes => entry.mode = chosen
    /\ entry.host # NoHost /\ chosen = "lock" => entry.mode = "hybrid"

\* The poll's lan_ok and DeviceControl's are dropped and raised at different
\* lines; control may never believe in a LAN the poll has given up (which would
\* send SOAP writes to a closed socket), and a cloud-only setup believes in none.
LanFlagsOrdered ==
  /\ ctl => lan
  /\ cloudOnly => ~lan /\ host = NoHost

\* Local mode keeps off the cloud at every one of the poll's read sites; only a
\* read that began before the user picked local may still finish there.
LocalStaysLocal ==
  pc = "cloudread" /\ entry.mode = "local" => "options" \in reload

\* A reading taken on the LAN is dropped when a poll fails to renew it; only EMS
\* data outlive a poll (__init__.py 748, 821).
LanReadingNotKept ==
  kept /\ path = "lan" => "options" \in reload

\* A module that does not answer never fails the setup of an entry that does not
\* depend on EMS: the entities load unavailable (__init__.py 414-417).
OfflineSetupLoads ==
  pc = "retry" => glitched \/ (hasCloud /\ entry.mode # "local") \/ entry.mode = "cloud"

\* A module that is back at one address is read over the LAN again, and with the
\* services of a full probe, whatever outage, move or failed setup came before:
\* local mode, and hybrid without a cloud to fall back on, never get stuck on
\* "offline" (__init__.py 414-417 and 699-731, README v1.7.7 and v1.7.9).
LanReturns ==
  \A h \in Hosts :
    <>[](module = h /\ (entry.mode = "local"
                         \/ (entry.mode = "hybrid" /\ ~hasCloud /\ ~glitched)))
      => []<>(pc = "idle" /\ ok /\ path = "lan" /\ probed)

\* While the module is unplugged and EMS answers, an entry that may use the cloud
\* settles on it: its polls stop failing and stop going offline
\* (__init__.py 441, README "cloud assist").
CloudCovers ==
  <>[](module = NoHost /\ emsUp /\ hasCloud /\ entry.mode # "local")
    => /\ []<>(pc = "idle")
       /\ <>[](pc = "idle" => ok /\ path = "cloud")

\* A hybrid entry whose module is back at one address reads over the LAN again.
HybridReturnsToLan ==
  \A h \in Hosts :
    <>[](module = h /\ emsUp /\ entry.mode = "hybrid" /\ ~glitched)
      => []<>(pc = "idle" /\ ok /\ path = "lan")

\* SOAP is sent only by a setup that probed the module.
ProbedBeforeSoap ==
  pc = "lanread" => probed
=============================================================================
