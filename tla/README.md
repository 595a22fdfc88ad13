# Verification of panasonic_taiseia_local

TLA+ models of the Home Assistant integration in
`src/custom_components/panasonic_taiseia_local/` (paths below are relative to
it), the TLC runs that check them and the TLAPS proofs about them.

The integration talks to Panasonic TaiSEIA appliances over the LAN (SOAP on TCP
57223) and over Panasonic's EMS cloud. It is one asyncio program: a task runs
undisturbed from one `await` to the next, and everything else may happen at the
awaits. That is the grain of every model here: one action per stretch between
awaits.

## 1. Inventory

| Component | State it keeps | Operations | Hard parts |
|---|---|---|---|
| Device entry: setup and poll (`__init__.py`, `DeviceControl` reads in `control.py`) | stored entry (host, `cloud_only`, control mode); per setup: `client.host`, the poll's `lan_ok`, `DeviceControl.lan_ok`, `probed_at_setup`, `entry_ready`, two monotonic clocks | setup, probe, rescan by MAC, cloud-only recovery, heals, poll, fallback, probe reload, unload | two flags for one fact; four read sites; outages, DHCP moves and user edits in the middle of a poll; closures replaced by reloads |
| EMS gate (`ems_transport.EmsGate`) | priority queue, sequence, worker task, `_last_done` | `run`, worker loop, idle exit | worker exit against a concurrent `run`, cancelled callers and workers, spacing, priorities |
| EMS transport (`ems_transport.EmsTransport`) | base rotation, `_blocked_until` | `request`, failover, error classes | cooldown with every base blocked |
| EMS account (`cloud.py`, `control.py`, reauth in `config_flow.py`) | tokens per `CloudAccount`, module-level `_reauth_tokens`, `_credentials_invalid`, `_reauth_notified`, tokens in the hub entry | login, refresh, re-login under a lock, persist, reauth flow | several accounts objects for one login, rotation, a rejected password that must not be retried |
| Write path (`entity.py`, `DeviceControl.async_write`, `climate.py`, `humidifier.py`, `services.py`) | optimistic status in the coordinator's data | write, rollback, mode + power pair | polls in flight, failures of one step of two, timed-out writes that were applied |
| Energy (`energy.py`, `button.py`) | totals, last sample, dirty flags, store | update, resets, throttled save, load | outages, roll-over, save races, crash |
| LAN client (`taiseia.py`) | shared semaphore, poll services, states | SOAP with retries, probe, service walk, PDU codec | semaphore replaced while held |
| Discovery (`discovery.py`) | shared scan cache and its lock | SSDP, /24 scan, lookup by MAC | stale hits and misses shared by entries |
| Entry updates (`entry_helpers.py`) | options snapshot | data update, options update, reload decision | a reload lost or doubled |
| Flows (`config_flow.py`, `flow_helpers.py`) | entries, `_pending_imports`, a flow's candidates | import, discover, manual, SSDP, hub and device options, reauth | stale copies of entry data written after awaits; flows that meet over one appliance |
| Cloud sync (`cloud_sync.py`) | device entries, the hub's tokens | match EMS appliances to entries by MAC or GWID | an appliance known by two names |
| Capabilities (`capability.py`, `select.py`) | none | what a descriptor offers; signed set points | thresholds between masks, ranges and signs |
| LAN settings, catalogue, naming, sensors, diagnostics | none, or plain values | lookups, formatting | little |

How they interact: Home Assistant runs `async_setup_entry` and the coordinator's
timer calls `async_update_data`; that calls `DeviceControl.async_fetch_status`,
which reads through the LAN client or through a `CloudAccount`, whose requests
all pass the one `EmsGate`. A poll may rescan (shared cache), rewrite the stored
entry and schedule a reload of its own entry; the options flow rewrites the
entry and reloads it; entities write through `DeviceControl` and paint their
result into the coordinator's data; accounts write rotated tokens to the hub.

What makes each correct, in short: the device entry always comes back from an
outage, keeps to the path its mode allows and never changes the user's choice;
the gate serves every call, one at a time; the account never hammers EMS with a
bad password and never loses a rotated token; a failed write leaves no invented
state; energy is neither lost nor counted twice; at most the configured number
of LAN requests run; an options edit reloads exactly once.

`PROJECT.json` lists every component with its status and every hazard at its
line; hazards without a property say why none covers them.

## 2. Modules

| Module | Of | Checked by | Proofs |
|---|---|---|---|
| `DevicePoll` | one entry: setup, poll, recovery, read routing | `device_poll`, `device_poll_live`, `hybrid_returns`, `probed_before_soap`, `reload_gap` | `DevicePollProofs` |
| `EmsService`, `EmsGate` | the EMS gate, abstract and as coded | `ems_gate` | `EmsGateProofs` |
| `EmsAuth` | accounts, tokens, reject latch, reauth | `ems_auth`, `ems_auth_latch` | `EmsAuthProofs` |
| `BillingPeriod`, `EnergyTracker` | the energy meter, its saves and resets | `energy` | `EnergyProofs` |
| `CommandDelivery` | what a write promises its caller (abstract) | by its two users | `CommandRouteProofs` |
| `EntityWrite` (on `CommandDelivery`, `Capability`) | entities: optimistic state, rollback, mode and power | `entity_write` | `EntityWriteProofs`, `CapabilityProofs` |
| `CommandRoute` (on `LanClient`, `EmsTransport`) | a write's route and a LAN read; implements `CommandDelivery` | `command_route` | `CommandRouteProofs` |
| `HostScan`, `Install` | the shared scan, lookups, every flow that makes an entry | `install` | `InstallProofs` |

The composition goes by assumption and guarantee: `EntityWrite` uses a write as
`CommandDelivery` describes it and relies on its ending; `CommandRoute` shows
that `DeviceControl.async_write` delivers in that way (`Delivered`, which is also
proved) and ends (`EveryCallReturns`).

Every invariant and action property of the runs that hold is a theorem. What could be
modelled yet: the copy an options form writes back over a newer entry
(`config_flow.py:885`, `1160`), and a poll that outlives the reload of its entry.

## 3. DevicePoll

One device entry with its module and EMS as environment.

**State.** `entry` is the stored config entry (`host`, `cloud_only`, control
mode), `hasCloud` the GWID and Auth. `host`, `lan`, `ctl`, `cloudOnly`, `probed`,
`ready`, `scanAge` and `reloadAge` are the variables of one setup's closure
(`client.host`, the poll's `lan_ok`, `DeviceControl.lan_ok`, `cloud_only`,
`probed_at_setup`, `entry_ready`, and the ages of `last_rediscover_mono` and
`last_reload_mono`). `pc` names the await the entry's task is at, `site` which of
the four calls of `async_fetch_status` is running, `fmode` the mode that call
read, `err` the pending exception's class. `path`, `ok` and `kept` are what
entities see: the last published path, `last_update_success`, and whether the
data are a previous poll's. `cache` is the shared scan of `discovery.py`.
`chosen` and `glitched` are history variables.

**Actions.** `RecoverLan` is `_async_recover_lan_for_cloud_only`; `SetupProbeOk`,
`SetupProbeFails`, `SetupScan` and `SetupRetry` the rest of `_async_setup_device`
with Home Assistant's retry; `PollStart` to `CheckScan` the port check of
`async_update_data`; `FetchStatus`, `LanRead*`, `CloudRead*` the read routing of
`control.py`; `ExceptTransport`, `DropScan`, `ExceptOther`, `ErrScan`,
`ExceptCloud`, `ExceptFails` its `except` branch, in the source's order;
`Reload` the unload and new setup; `SaveOptions` the device options form. The
environment cuts and restores power, moves the module (`ModuleMoves`) and lets
EMS come and go (`EmsChanges`). A scan that is made may miss a module that is
there.

**Time** is counted in ticks of one poll interval: `ScanCooldown` and `ReloadGap`
are the code's 300 s and 60 s in ticks. A tick may pass in the middle of a poll,
as scans and SOAP retries are slow.

**Runs**

- `device_poll` (MCDevicePoll.cfg, safety): two addresses (so the module can
  move and the stored address can be wrong), every starting mode, with and
  without cloud credentials, edits to local and hybrid, cleared addresses,
  undecodable answers, both clocks one tick (so "due" and "not due" both occur).
  The two addresses are interchangeable, hence SYMMETRY. 3.3 million states.
  Checks `TypeOK`, `ModeIsUsersChoice`, `LanFlagsOrdered`, `LocalStaysLocal`,
  `LanReadingNotKept`, `OfflineSetupLoads`.
- `device_poll_live` (MCDevicePollLive.cfg): `LanReturns` and `CloudCovers` under
  fairness, without edits (liveness is about an entry nobody reconfigures) and
  without SYMMETRY.
- `hybrid_returns`, `probed_before_soap`, `reload_gap`: three properties the
  code's own comments or documentation state and the code does not keep (next
  section). `reload_gap` uses `MCReloadGap`, which adds a clock that outlives the
  closure.

**Fairness.** Weak fairness of setup, poll, reload tasks, the timer and cache
expiry: the event loop runs every task and every timer, and each await of these
paths has a timeout. Strong fairness of a scan that finds the module, of a probe
that succeeds and of a LAN read that succeeds: each is tried again for ever, and
a module that is there is not missed every time. Nothing is assumed of the user,
of power, of DHCP or of EMS; the properties state what they need (`<>[]`).

**What the violations show**

- `HybridReturnsToLan`: after one failed LAN read, hybrid clears only
  `DeviceControl.lan_ok` (control.py:453). The poll's `lan_ok` stays up, so the
  port check that would raise the other flag is skipped, and the entry reads the
  cloud for as long as EMS answers. `README.md:21` promises LAN reads. `LanReturns`
  is therefore stated for local mode and for hybrid without a cloud, where it holds.
- `ProbedBeforeSoap`: `__init__.py:784` raises both flags after any read that
  follows a rebind, a cloud read included, so a setup that never probed sends SOAP.
- `ReloadGapRespected`: the time of the last probe reload is lost with the closure
  that the reload replaces.

## 4. EmsService and EmsGate

`EmsService` states the promise: calls are made one at a time, each at most once,
an interval after the last one ended; a caller gets its own call's outcome or a
cancellation, once. `EmsGate` models the code: `Run` is `run()` up to `await fut`
(neither the unbounded `put` nor the uncontended lock suspends), `Take` the
`queue.get()` with the cancelled check and the gap, `Wait`, `TimesOut` and `Leave`
the 50 ms timeout and the exit check under the lock, `Start` the end of the
sleep, `Finish` and `Killed` the outcomes. Worker tasks are modelled individually
(`wpc`, `job`, `gap` per task), so that two live ones are possible in principle.
`rest` is the age of `_last_done` capped at `MinInterval`. `killed`, `late` and
`cancelledIn` are history.

`Service == INSTANCE EmsService WITH call <- Calls, reply <- Replies` maps a
request in the queue or in the worker's sleep to "waiting", one in `factory()` to
"inflight"; `ServiceSpec` is checked and proved. That at most one worker calls, and that an
abandoned request is not sent, follow from it and are stated as theorems only
(`OneWorker`, `AbandonedNotSent`).

- `ems_gate` (MCEmsGate.cfg): one USER and two BACKGROUND calls, two worker tasks,
  an interval of two ticks, callers and workers cancelled at any point. Three
  calls are what overtaking needs (one in the worker's hands, one behind it, one
  of higher priority), NORMAL differs from USER by its rank only, and two task
  identities suffice to show two live at once. Each request is made once, so the
  queue drains and CHECK_DEADLOCK is off.

**Fairness.** Weak fairness of each worker task and of the clock. `Finish` under
it says that an EMS call ends, which `aiohttp.ClientTimeout(total=...)` ensures
(ems_transport.py:324). `EveryCallReturns` says a caller gets its answer unless a
worker is cancelled: nobody restarts the worker before the next `run()`.

## 5. EmsAuth

Signing in to EMS. Tasks are the polls and writes of devices (`Users`) and the
hub's sync (`Syncs`). They share a password and tokens in four places that the
code keeps in step by hand: `CloudAccount` objects, module globals of `cloud.py`,
the hub entry, and the copies inside a form.

**State.** `acc` holds the account objects by identity, since two tasks may hold the
same one: `cloud` and `key` are `DeviceControl._cloud` and `_cloud_key`, `task[t].obj`
the object in a running call's hands, `task[t].tmp` the private one of a forced
GwList or of a sync. An object nothing refers to is forgotten (`Keep`). `shared`,
`lockq`, `latched` and `notified` are `_reauth_tokens`, the re-login lock with its
waiters, `_credentials_invalid` and `_reauth_notified`. `hub` is the stored entry,
`opt` the options form with the copy of it that the form will write, `form` the
reauth flow, `syncDue` who is about to sync. `ems` is what EMS accepts: a password
and the epoch of its CPTokens; a new epoch makes every older token invalid.
RefreshTokens have no value of their own: at every refresh EMS may honour or
refuse it.

**Actions**, from one EMS reply to the next. `Begin` is `_cloud_status` or
`_cloud_write` up to its first call; `CallRejected`, `GetsLock`, `RefreshOk`,
`RefreshFails`, `LoginOk`, `LoginRefused` are `_with_auth_retry`, `_reauthenticate`
and `ensure_login`; `GotDevices` the forced GwList of `async_refresh_cloud_auth`
with the second call; `Raise` every exception path, which all save the tokens
(`SaveAndEnd`) and some report to the user (`NotifyReauth`); `BeginSync`, `SyncDone`
the sync. `Submit*`, `Reauth*` are the reauth form, `Options*` the hub's options form.
`Disturbance` is what goes wrong: failed calls, wrong input, an options edit, EMS
forgetting every token (with or without a changed password), a rotated Auth, a
restart of Home Assistant.

**Runs**

- `ems_auth` (MCEmsAuth.cfg): a poll of a device and the hub's sync, each with an
  account object of its own, and one disturbance of any kind, besides any number
  of wrong passwords and failed logins in the forms. One is enough for a password
  to change, for tokens to be forgotten, or for Home Assistant to restart, in the
  middle of everything; what two tasks of *one* device do to their common object
  is in the proofs, which hold for any `Users` and `ControlOf`. `Accounts` has
  one more object than can be held at once (what `AuthAssumption` asks),
  `TokenIds` as many as can be remembered at once and more. 21,297 states.
- `ems_auth_latch`: a comment of the code that the code does not keep.

Deadlock is checked: nobody waits for the re-login lock for ever.

**Fairness.** `Reply(t)`: EMS answers or the transport's timeout fires. `Begin(t)`:
polls recur. `Form`: the user answers the reauth form. `SubmitRight` and `ReauthOk`,
strongly: the user types the right password in the end, and a login with it gets
through in the end. `OptionsReply`: the options form's login ends. That a sync
begins is not assumed.

`AccessRecovers` has an exception, `SignInOverlaps`: when the reauth form succeeds
while a device's call is running, that call's `finally` puts the object with the
old password back into `_cloud` and re-computes `_cloud_key` from the new hub entry
(control.py:263-267), so the old object looks current. The next calls use the old
password, which is refused and latched again; the user is asked once more. It
ends as soon as one sign-in meets no running call, which is what the property says.

**What the violation shows.** `LatchMeansRefused`: the latch means the stored
password was refused (ems_transport.py:53-58). A typo in the hub's options form
(config_flow.py:884-902) sets the same latch, and every device loses the cloud
although the stored password is right.

## 6. EnergyTracker

One device's meter. `mem` is the `EnergyTracker` (total, period, period key, last
sample and its wattage), `store` what is on disk, `flags` the dirty flags and the
age of the last save, `io` the saves in flight by their slot, each with its
snapshot, `orphans` the saves of an earlier life of the entry that may still land,
`settings` the hub's cycle as a poll reads it. `level` is the latest reading, `lossy`,
`overlapped`, `forked` are history: a load found other counters than memory had; a
save began while another was in flight; a load left a save in flight behind. `BillingPeriod` holds `period_key` and
`_settings_from_raw`; Python's calendar is a parameter.

`Poll` and `OfflinePoll` are the energy part of `async_update_data` (a roll-over,
the Riemann step, the throttled save), `Press` the reset buttons, `SubmitDevice`,
`SubmitHub`, `SettingsSaved`, `ApplySettings` the forms, `UnloadEntry`, `LoadTracker`
a reload, `Stop` a crash or a stop of Home Assistant, which does not unload
entries. A save lands in one step, its task clears the flags in another
(`SaveDone`); `SaveFails` is a full disk.

- `energy` (MCEnergy.cfg): the 28th of February 2020 and the two days after, one
  tick a day, one unit of power, both intervals one tick, two events (press,
  form, reload, stop) besides the polls; the forms offer every cycle with resets
  at both ends of their ranges. The gap of one tick is what makes a longer outage
  uncounted within the horizon. 677 thousand states. `KeyIsLatestBoundary` is a check of
  `period_key` against a reference definition over every day of 2020 and 2021
  and every offered setting.

Properties: `NotCountedTwice`, `PeriodOwn`, `NotOverbilled`, `LossBounded`,
`ChangesSaved`, `KeyIsLatestBoundary`. They are as strong as the code allows:
overlapping saves may leave an older snapshot on disk until the next save (hence
`overlapped`), so a reset may be undone by a stop right after; a stop within the
throttle window bills up to `MaxGap` again from the older sample, which is why
`NotCountedTwice` bounds every copy and not the user's sum. Floats are exact
integers and the clock does not go back. Presses of one platform are serialised by
`PARALLEL_UPDATES`. A setup whose first poll fails drops its tracker unsaved
(left out), as is a poll that outlives its entry.

## 7. EntityWrite and Capability

The entities of one air conditioner over one coordinator. `dev` is the appliance,
`status` what the coordinator's data show, `reading` the poll in flight, `climate`,
`entity`, `service` the running calls: one of the climate entity (which may be two
writes and an undo), one of another platform, one of `write_service`. `out`, `taken`
and `late` are `CommandDelivery`'s: what is being written, whether the appliance
took it, copies that may land after the call. `history` says whether, since the
climate call began, anyone else wrote (`calm`), a poll was published (`polled`), or
the undo is in doubt.

`SetMode`, `TurnOn`, `TurnOff`, `PresetComfort`, `PresetNone` are the climate
methods up to their first await; `ClimateOk`, `WriteFails`, `PowerOn`, `UndoMode`,
`Undone`, `UndoFails` the rest of `_async_apply_mode_code`; `StartWrite`,
`SelectOption`, `StartPress` the other platforms. A cancelled call rolls nothing
back, as `CancelledError` is not an `Exception`.

- `entity_write` (MCEntityWrite.cfg): a module that lists cooling alone while its
  catalogue offers comfort cooling (the case with two codes for one mode), a set
  point of -6 or -5, two events (calls, uses of the remote control), at most one
  late copy per call, answers that lack the mode or everything. The start is comfort
  cooling, so that two events leave it, resume it and restore it. 737 thousand
  states. `AllOrNothing`, `ShownTrue`, `SelectTrue`, `ShownConverges`.

**Fairness** of polls (the coordinator's timer) and of the steps of every call: each
write ends, which `command_route` shows, or its task is cancelled. That a call is
made is not assumed.

The properties stop where the code does. A poll that was read before a write and is
published after it shows the old value until the next poll; a rollback may paint over
a newer poll; a rollback to a missing value paints the text "None", which an offline
appliance then shows as if it were available; an EMS copy of a command that timed
out may land after a newer one. `ShownConverges` says that all of these heal.

`Capability` is `supported_values` and the selects' conversion. `CapabilityProofs`
proves for every descriptor with a range on one side of zero (`SetPointRanges`) that a
select's written byte is read back as what was chosen, and that it offers its
range; `SelectTrue` checks that the entity shows it through all the above. A range
across zero is read as a mask by the code.

## 8. CommandRoute, LanClient and EmsTransport

`DeviceControl.async_write` and `async_fetch_status` of one appliance. `write[t]` is
a call: its mode, where it is, what was refused and whether the appliance took it;
`fetch[t]` a LAN status read: ALL_STATES, the port check, the walk. `LanClient` is a
SOAP request with its attempts, its slot of the shared semaphore and the
semaphore's replacement: requests hold the object they queued at, the next attempt
takes the current one. `EmsTransport` is what `_request_once` makes of a reply:
statuses, bodies, the firewall's page, silence.

- `command_route` (MCCommandRoute.cfg): one write and one poll over one slot or two,
  two attempts, one service to walk, at most one stray copy and two semaphores:
  enough for a command to be taken and not answered on either route, for the limit
  to change while both hold a slot, and for a module to die in mid-walk. 185
  thousand states. `DeadHostBounded`, `ThunderBounded`, `NotAskedAgain`, `Delivered`
  (refinement of `CommandDelivery`, with the addition that a call that returns a
  path has been obeyed), `EveryCallReturns`.

**Fairness** of each task: EMS and the module answer or a timeout fires, semaphores
are fair queues. **External assumptions:** EMS answers 200 to a command only once it
is done, and "token expired" only if it was not; a module answers with a valid frame
only if it took the command. `ThunderBounded` is what replacing the semaphore
leaves of the limit: the sum of the limits chosen while any request was under way.
With the single base URL that is configured (cloud.py:246), a cooldown never stops
a call; it makes a timeout count as a rate limit.

## 9. HostScan and Install

How appliances become entries and how entries find their modules. `at` is where
each module answers; `entries` the device entries with unique id, address and
whether EMS fields are there (`by` is history: whose answer gave the address).
`cache`, `scan` and `seek` are the shared scan's result, the scan under way (its
holder has the lock) and every entry's lookup; `flow` is the user's flow, `pending`
and `inits` the imports a new hub will start and those started, `card` the
discovery flows that wait at their form.

`Seek` to `StaysCloud` are `async_find_host_by_mac` with its callers
`_async_rebinding_host` and `_async_recover_lan_for_cloud_only`; a probe is a step,
and modules move between probes. `StartImport` to `Submit` is the import flow (built
again at each display of the form), `DeviceImport` a `device_import` flow, `HubSetup`
and `Sync` the hub, `StartDiscover`, `PickDiscovered`, `Manual`, `Announced`,
`ConfirmCard` the flows without EMS.

- `install` (MCInstall.cfg): an air conditioner and a dehumidifier with modules, the
  first of them and a refrigerator without one in the account, two addresses, a
  lifetime of two ticks and three events (lookups, moves, announcements, flows,
  cancellations): two modules can exchange addresses, and two flows can meet over
  one appliance that a third step knows by another name. 2.7 million states.
  Events are bounded, so the run may stop: CHECK_DEADLOCK is off.

Properties: `NoTwins` (an appliance never has two entries), `OwnAddress` (an entry's
address is one where its own module answered), `ScansBounded` (a shared scan of
either kind is made only when the last of its kind is TTL old). **External:** Home
Assistant's `async_set_unique_id` aborts when another flow with the same id is in
progress, and gives an existing entry the updates. Left out: a module whose UDN carries no MAC (its unique id depends on
the flow and would make twins), names, types and models, `cloud_only` and the mode
of new entries (DevicePoll heals them), a restart that loses `_pending_imports`, the
removal of entries, an address typed into the device options form, two users'
flows at once. The order in which the lock is granted is arbitrary.

## 10. Proofs

For every value of the constants, from the assumptions `HostsAssumption`,
`ConfigAssumption`, `ClockAssumption` (DevicePoll), `GateAssumption` (EmsGate) and
`AuthAssumption` (EmsAuth), `CalendarAssumption`, `OfferedAssumption` and
`EnergyAssumption` (energy), `NoInfoAssumption` (Capability), `ScanAssumption`
(HostScan), `LanAssumption` (LanClient), `RouteAssumption` (CommandRoute),
`DeliveryAssumption` (CommandDelivery) and `EntityAssumption` (EntityWrite).
`CalendarAssumption` says of a calendar that one may look back from a day to the
first of its month and of its year, the days numbered one by one, and that months have
28 days or more; going forward day by day would take an induction over days.

`DevicePollProofs`
- `TypeCorrect`: `TypeOK` is inductive; the lemmas say what each shared part of
  an action does to the control flow, the clocks and the entry.
- `LanFlags`: `ctl => lan` is not inductive: a step that raises one flag at one
  site relies on where the flow is. `LanInv` adds that the sites reached while
  recovering have both flags as the `except` branch left them, and that a
  cloud-only setup never enters a LAN label.
- `LocalReads`: `LocalInv` adds that the mode a running LAN read started with is
  the entry's mode unless an options reload is pending.
- `ModeKept`: `ModeInv` follows an old lock (`chosen = "lock"`) through recovery,
  rebind and heal during setup, where `ModeIsUsersChoice` itself says nothing
  because the entry is not loaded yet.
- `LanReadingDropped`: `KeptInv` adds to `ModeInv` that an entry which has read its
  LAN since it was set up is in cloud mode only if an options reload is due.
- `SetupLoads`: `FirstInv` walks the first poll of an entry that does not depend on
  EMS: while no glitch has come, it stays on the LAN labels, with an address, and its
  only error is the LAN's, for which the poll returns empty data.

`EmsGateProofs`
- `TaskInv`: the worker pointer knows the only live task; what it holds is not
  queued and has a future; the sleep it still owes is what the interval lacks.
  From it `CallsNeverOverlap`.
- `NeverOrphaned`, `AbandonedDropped` and `AtMostOneOvertakes` (with `LateInv`:
  while the worker sleeps over a request, nothing of higher rank in the queue has
  been overtaken yet).
- `GateImplementsService`: every step of the gate is a step of the service or a
  stutter. `TaskInv`'s last conjunct is what makes `Start` a legal `Send`.

`EmsAuthProofs`
- `SlotHasForm`: inductive as it stands.
- `AuthTypes` and `TokenSent`. `TypeInv` adds to the types that an operation in
  progress has the objects it uses. That the hub is never stored without a token is
  not a matter of types: a sync copies its account's token, which other tasks must
  not have emptied. `TokenInv` says a sync's object is its own; the lemma
  `FootprintKeeps` says which objects a task's step may touch, and `NewIsUnused`,
  by counting (`Accounts` outnumber what devices and tasks can hold), that a new
  object is nobody else's. The counting assumption stands for Python's allocation.
- `NotHammered`: the number of refusals alone is not inductive. `RefusalInv` counts
  refusals plus password logins under way: setting the latch stops new ones, each
  refusal uses one up, and whatever lifts the latch starts the count again.

`EnergyProofs`
- `EnergyTypes`, and from it `NothingTwice`: every copy's total fits in the time
  before its sample, since a step bills the time since the sample and moves it.
- `LossIsBounded` and `ChangesAreSaved` need to know that the copies in flight are
  older than memory, and that without overlap a clean flag means the disk has the
  total. `NoOverbilling` is an action property from the types and the invariant that,
  unless a save was lost, a sample's wattage is not above what the latest reading says.
- `PeriodsBeginOnTime`: a lemma for each cycle (`MonthBegins`, `YearBegins`, `WeekBegins`,
  `DaysBegin`) shows that the code's arithmetic finds a day that begins a period and
  that no later day does; `PeriodBegins` joins them.
- `PeriodIsOwn`: `PeriodInv` says of every copy, in memory, on disk or in flight, since
  any may be loaded: its period has begun, and if it has counted anything, its sample
  lies in the period and what it counted fits between the two, but for one gap.

`CommandRouteProofs`
- `RouteInv` has a part for the shared LAN client, one for calls, one for reads.
  `LanBounded`: the number of requests under way is not bounded by the current
  semaphore, which may be newer than theirs. `SlotInv` gives each request a slot of its
  own in the semaphore it queued at; `AllowInv` says that the semaphores in use are a
  last stretch of those made, whose slots `allowance` covers.
- `RefusalIsFinal` and `RouteDelivers`: `CallInv` relates a call's progress, its request
  and whether the appliance has taken the command. Each step is then a step of
  `CommandDelivery` or a stutter, one lemma per action.
- `DeadHostGetsOneRequest`: `FetchInv` counts the posts of a read by where it is; with a
  host that is off the whole time it ends at the port check.

`EntityWriteProofs`
- `EntityTyped` is more than types: each register shows and remembers values of its own
  domain. The mode's holds 0 (cool) whether or not the module lists it, as leaving the
  comfort preset writes 0 unasked (climate.py 322-327). `StageInv` ties each stage of the climate call
  to the order it waits for, so that a late copy or a rollback is one of the same
  register.
- `CallIsAllOrNothing` and `CallShowsTrue`: `CalmInv` says what each stage knows the
  appliance holds while nobody else touches it, `ShownInv` what it shows and remembers
  until a poll is published.
- `SelectShowsOffered` from `EntityInv` and the lemmas of `CapabilityProofs`.

`CapabilityProofs`
- `SelectsShowWhatTheySet`, from `PointReadBack`, `SignedRange`, `OffersItsRange`.

`InstallProofs` (from `ScanAssumption`)
- `InstallTypes`, `NoTwinEntries` and `AddressesOwn` are parts of `IInv`. `NoTwins`
  alone is not inductive: two flows would make two entries if one knew the appliance
  by another unique id, so `IInv` says that every entry has the id its appliance's
  kind gives (`Named`). `OwnAddress` needs as much of everything an address comes
  from: the answers in the cache, the scan and the flow (`AnswersOwn`) and the
  imports not yet started (`CandidatesOwn`). `Known` (who looks for its module has an
  entry, who scans holds the lock) is what lets a lookup find its entry when it ends.
- `ScansShared` from `ScanAges`: how old the cache and the last scan of each kind are.

Only model-checked: the liveness properties (TLAPS has no ENABLED or fairness
reasoning), which are `LanReturns`, `CloudCovers`, `AccessRecovers`, `ShownConverges` and
`EveryCallReturns` of the gate and of `CommandRoute`; and the four violations, which are
counterexamples.

## 11. Not modelled, and the abstractions

- A poll that is in flight when its entry is reloaded is abandoned by `Reload`;
  in Home Assistant its coroutine may end later and publish into the old
  coordinator. Options are saved only while the entry is loaded.
- Other entries appear in DevicePoll only through the shared scan, whose answer
  for this module may be stale or a miss. An entry without a MAC is covered by
  lookups that miss.
- Stagger, update-interval skew, names, types, profiles and the power report are
  left out of DevicePoll; the energy part of the poll is EnergyTracker's.
- The cloud is one bit per device (`emsUp`) plus the class of its error. A cloud
  read is one step; credentials and tokens are EmsAuth's subject, replies and
  cooldown EmsTransport's.
- EmsAuth has one hub and one reauth flow. The sign-in of the first set-up and of
  imports, repair issues, and a 200 answer to a login that carries no token (which
  also sets the latch) are left out.
- In EmsAuth the options form writes its copy of the hub whole, as the code does, so
  a password stored by reauth meanwhile is reverted; `AccessRecovers` shows that the
  user is then asked again.
- An endless stream of USER calls would starve BACKGROUND ones in the gate; the
  model has finitely many calls.
- `apply_settings` of the gate (a changed interval) is left out: `MinInterval` is
  constant.
- The options snapshot of `entry_helpers.py` is read and written without an await in
  between, so no interleaving can lose a reload; it has no module.
- The rotation over several EMS bases and the cooldown's clock (one base is
  configured), the PDU codec and its checksum, `device.xml`.
- The catalogue, naming, sensors, diagnostics and the probe report: tables and
  views of the coordinator's data without state of their own.
- Formatting, diagnostics and entities without state of their own are out of scope.
