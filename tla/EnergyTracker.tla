--------------------------- MODULE EnergyTracker ----------------------------
(***************************************************************************)
(* One device's energy meter (energy.py, with its callers in __init__.py,  *)
(* button.py and config_flow.py).  Each poll integrates the last wattage   *)
(* over the time since its sample; a roll-over, a reset button and the     *)
(* forms change the same tracker; each saves it through a Store object of  *)
(* its own, so saves in flight may reach the disk in any order.  The entry *)
(* may be reloaded and Home Assistant may stop at any moment.              *)
(*                                                                         *)
(* Steps run from one await to the next.  A save is a snapshot in flight   *)
(* until it lands, when its task clears the dirty flags.  Energy is in     *)
(* units of power times ticks, exactly; the clock does not go back.        *)
(***************************************************************************)
EXTENDS BillingPeriod, FiniteSets

CONSTANTS
  FirstDays,      \* days a history may begin on
  TicksPerDay,
  Horizon,        \* bound on the clock
  MaxPower,       \* bound on the wattage
  MaxGap,         \* _MAX_DT_HOURS in ticks
  MetaInterval,   \* _META_SAVE_INTERVAL_S in ticks
  FormSettings,   \* the settings entered
  MaxEvents       \* bound on presses, forms, failed saves, reloads and stops

ASSUME EnergyAssumption ==
  /\ TicksPerDay \in Nat \ {0} /\ Horizon \in Nat
  /\ FirstDays # {} /\ FirstDays \subseteq BilledDays
  /\ \A d \in FirstDays, t \in 0..Horizon : d + (t \div TicksPerDay) \in Days
  /\ MaxPower \in Nat /\ MaxGap \in Nat /\ MetaInterval \in Nat
  /\ FormSettings \subseteq Offered /\ MaxEvents \in Nat

VARIABLES
  firstDay,    \* the day of tick 0
  now,
  cfg,         \* the settings saved and cached
  settings,    \* the tracker's
  up,          \* the entry: "up", "unloading", "down"
  mem,         \* the tracker's counters, see Copies
  flags,       \* _dirty, _meta_dirty
  age,         \* of _last_save_mono, counted up to MetaInterval
  io,          \* the save in flight of each of Savers, and its age, or NoSave
  orphans,     \* saves in flight of a tracker since unloaded
  store,       \* the copy on disk
  form,        \* options form: "idle", "resets", "saving" the settings, "apply"
  entered,     \* the form's settings
  events,      \* history: presses, forms, failed saves, reloads and stops
  level,       \* history: the wattage of the latest reading
  lossy,       \* history: a load found other counters than memory had
  forked,      \* history: a load left a save in flight behind
  overlapped   \* history: a save began while another was in flight

formVars == <<form, entered>>
history == <<level, lossy, forked, overlapped>>
vars == <<firstDay, now, cfg, settings, up, mem, flags, age, io, orphans,
          store, formVars, events, history>>

Savers == {"poll", "button", "form", "unload"}
Never == -1
NoPower == -1
NoKey == [form |-> "none yet", start |-> 0, days |-> 0]

Wattages == 0..MaxPower
Keys == [form : Cycles \cup {"date", "none yet"}, start : Int, days : Nat]
Copies == [total : Nat, period : Nat, key : Keys,
           power : Wattages \cup {NoPower}, ts : Nat \cup {Never}]
Ages == 0..MetaInterval
Saves == [copy : Copies, age : Ages]
Blank == [total |-> 0, period |-> 0, key |-> NoKey, power |-> NoPower, ts |-> Never]
NoSave == [copy |-> Blank, age |-> Never]

TypeOK ==
  /\ firstDay \in FirstDays /\ now \in 0..Horizon
  /\ cfg \in Settings /\ settings \in Settings /\ entered \in Settings
  /\ up \in {"up", "unloading", "down"}
  /\ mem \in Copies /\ store \in Copies
  /\ flags \in [dirty : BOOLEAN, meta : BOOLEAN] /\ age \in Ages
  /\ io \in [Savers -> Saves \cup {NoSave}] /\ orphans \subseteq Copies
  /\ form \in {"idle", "resets", "saving", "apply"} /\ events \in 0..MaxEvents
  /\ level \in Wattages
  /\ lossy \in BOOLEAN /\ forked \in BOOLEAN /\ overlapped \in BOOLEAN

-----------------------------------------------------------------------------
(* The tracker *)

Today == firstDay + (now \div TicksPerDay)

\* Mutant: a roll-over only renames the period.
EnsurePeriodKeeps(c, s) == [c EXCEPT !.key = PeriodKey(Today, s)]

\* ensure_period
EnsurePeriod(c, s) ==
  LET key == PeriodKey(Today, s)
  IN  IF c.key = key THEN c
      ELSE IF c.key = NoKey THEN [c EXCEPT !.key = key]
      ELSE [c EXCEPT !.key = key, !.period = 0]

\* billable_operating_power; a switch read as neither on nor off bills as is.
Billable(reading) == IF reading.switch = "off" THEN 0 ELSE reading.power

\* Mutant: the first sample needs none before it.
DeltaUnchecked(c, watts) ==
  LET dt == now - c.ts
  IN  IF watts # NoPower /\ 0 < dt /\ dt <= MaxGap THEN c.power * dt ELSE 0

\* What update adds for the time since the last sample.
Delta(c, watts) ==
  LET dt == now - c.ts
  IN  IF c.ts # Never /\ c.power # NoPower /\ watts # NoPower /\ 0 < dt /\ dt <= MaxGap
      THEN c.power * dt ELSE 0

\* Mutant: a sample that repeats the last one is not noted.
SampledIfNew(c, watts) ==
  IF watts \in {NoPower, c.power} THEN c ELSE [c EXCEPT !.power = watts, !.ts = now]

\* Mutant: time runs only while there are watts.
SampledIfOn(c, watts) ==
  IF watts = NoPower THEN c
  ELSE [c EXCEPT !.power = watts, !.ts = IF watts = 0 THEN @ ELSE now]

Sampled(c, watts) ==
  IF watts = NoPower THEN c ELSE [c EXCEPT !.power = watts, !.ts = now]

\* update, once the period is ensured
Updated(c, watts) ==
  [Sampled(c, watts) EXCEPT !.total = @ + Delta(c, watts), !.period = @ + Delta(c, watts)]

ResetPeriod(c, s) == [c EXCEPT !.period = 0, !.key = PeriodKey(Today, s)]
ResetTotal(c) == [c EXCEPT !.total = 0]

-----------------------------------------------------------------------------
(* Saving *)

\* Nobody looks at the form's settings again.
FormCloses == form' = "idle" /\ entered' = DefaultSettings

\* Nor at an unloaded tracker's flags.
Clean == [dirty |-> FALSE, meta |-> FALSE]
Unused == flags' = Clean /\ age' = 0

InFlight == {s \in Savers : io[s] # NoSave}

\* async_save_tracker up to its await, for counters and flags just changed
Save(s, force) ==
  IF \/ force \/ flags'.dirty
     \/ flags'.meta /\ age = MetaInterval
  THEN /\ io' = [io EXCEPT ![s] = [copy |-> mem', age |-> 0]]
       /\ overlapped' = (overlapped \/ InFlight # {})
  ELSE UNCHANGED <<io, overlapped>>

\* The snapshot lands and its task goes on.
SaveDone(s) ==
  /\ io[s] # NoSave
  /\ store' = io[s].copy
  /\ flags' = Clean
  /\ age' = io[s].age
  /\ io' = [io EXCEPT ![s] = NoSave]
  /\ UNCHANGED <<firstDay, now, cfg, settings, up, mem, orphans, formVars, events, history>>

\* Mutant: the flags are cleared whether or not the write succeeds.
SaveFailsClean(s) ==
  /\ io[s] # NoSave /\ events < MaxEvents /\ events' = events + 1
  /\ io' = [io EXCEPT ![s] = NoSave] /\ flags' = Clean
  /\ IF s = "form" THEN FormCloses ELSE UNCHANGED formVars
  /\ UNCHANGED <<firstDay, now, cfg, settings, up, mem, age, orphans, store, history>>

\* The write raises: the poll fails, the form and the press end, unloading
\* goes on.  The flags stay set.
SaveFails(s) ==
  /\ io[s] # NoSave /\ events < MaxEvents /\ events' = events + 1
  /\ io' = [io EXCEPT ![s] = NoSave]
  /\ IF s = "form" THEN FormCloses ELSE UNCHANGED formVars
  /\ UNCHANGED <<firstDay, now, cfg, settings, up, mem, flags, age, orphans, store, history>>

\* An unloaded tracker's write lands; nothing in memory changes.
OrphanLands ==
  \E c \in orphans :
    /\ store' = c /\ orphans' = orphans \ {c}
    /\ UNCHANGED <<firstDay, now, cfg, settings, up, mem, flags, age, io, formVars,
                   events, history>>

-----------------------------------------------------------------------------
(* Polls *)

\* What a poll read: 0x27 and the power switch.
Readings == [power : Wattages \cup {NoPower}, switch : {"on", "off", "unknown"}]

\* A poll's end (async_update_data).  A poll that fails, or keeps the last
\* data on an EMS timeout, never comes here.
Accounts(watts, used) ==
  /\ up # "down" /\ io["poll"] = NoSave
  /\ settings' = cfg
  /\ LET ensured == EnsurePeriod(mem, cfg)
     IN  /\ mem' = Updated(ensured, watts)
         /\ flags' = [dirty |-> flags.dirty \/ ensured # mem \/ Delta(ensured, watts) > 0,
                      meta  |-> flags.meta \/ watts # NoPower]
  /\ Save("poll", FALSE)
  /\ level' = IF used = NoPower THEN level ELSE used
  /\ UNCHANGED <<firstDay, now, cfg, up, age, orphans, store, formVars, events,
                 lossy, forked>>

\* What the indoor unit used, as far as the reading tells.
Used(reading) == IF reading.switch = "off" THEN 0 ELSE reading.power

Poll == \E reading \in Readings : Accounts(Billable(reading), Used(reading))

\* Mutant: an offline poll has no sample.
OfflinePollSilent == Accounts(NoPower, 0)

\* Unplugged, or its module is: 0 W, so that the outage is not billed.
OfflinePoll == Accounts(0, 0)

Older(a) == IF a < MetaInterval THEN a + 1 ELSE a

Tick ==
  /\ now < Horizon /\ now' = now + 1
  /\ age' = Older(age)
  /\ io' = [s \in Savers |-> IF io[s] = NoSave THEN NoSave ELSE [io[s] EXCEPT !.age = Older(@)]]
  /\ UNCHANGED <<firstDay, cfg, settings, up, mem, flags, orphans, store, formVars, events,
                 history>>

-----------------------------------------------------------------------------
(* The reset buttons and the options forms *)

\* TaiSeiaEnergyResetButton.async_press
Press ==
  /\ up = "up" /\ io["button"] = NoSave
  /\ events < MaxEvents /\ events' = events + 1
  /\ mem' \in {ResetPeriod(mem, settings), ResetTotal(mem)}
  /\ flags' = [flags EXCEPT !.dirty = TRUE]
  /\ Save("button", FALSE)
  /\ UNCHANGED <<firstDay, now, cfg, settings, up, age, orphans, store, formVars,
                 level, lossy, forked>>

\* The device's form resets what is ticked and saves the tracker.
SubmitDevice ==
  /\ up = "up" /\ form = "idle"
  /\ events < MaxEvents /\ events' = events + 1
  /\ entered' \in FormSettings
  /\ \E period, total \in BOOLEAN :
       /\ mem' = LET reset == IF period THEN ResetPeriod(mem, settings) ELSE mem
                 IN  IF total THEN ResetTotal(reset) ELSE reset
       /\ flags' = [flags EXCEPT !.dirty = @ \/ period \/ total]
  /\ Save("form", FALSE)
  /\ form' = "resets"
  /\ UNCHANGED <<firstDay, now, cfg, settings, up, age, orphans, store, level,
                 lossy, forked>>

\* With a hub, the settings are the hub form's; the device's form ends in a
\* reload (UnloadEntry, like any other).
DeviceFormSaved ==
  /\ form = "resets" /\ io["form"] = NoSave
  /\ (form' = "saving" /\ UNCHANGED entered) \/ FormCloses
  /\ UNCHANGED <<firstDay, now, cfg, settings, up, mem, flags, age, io, orphans, store,
                 events, history>>

\* The hub's form has settings only.
SubmitHub ==
  /\ up # "down" /\ form = "idle"
  /\ events < MaxEvents /\ events' = events + 1
  /\ entered' \in FormSettings /\ form' = "saving"
  /\ UNCHANGED <<firstDay, now, cfg, settings, up, mem, flags, age, io, orphans, store,
                 history>>

\* async_save_energy_settings: saved, then cached
SettingsSaved ==
  /\ form = "saving" /\ form' = "apply"
  /\ cfg' = entered
  /\ UNCHANGED <<firstDay, now, settings, up, mem, flags, age, io, orphans, store,
                 entered, events, history>>

\* After the LAN settings are saved, every loaded tracker takes the settings.
ApplySettings ==
  /\ form = "apply" /\ FormCloses
  /\ IF up = "down" THEN UNCHANGED <<settings, mem, flags>>
     ELSE /\ settings' = entered
          /\ mem' = EnsurePeriod(mem, entered)
          /\ flags' = [flags EXCEPT !.dirty = @ \/ mem' # mem]
  /\ UNCHANGED <<firstDay, now, cfg, up, age, io, orphans, store, events, history>>

-----------------------------------------------------------------------------
(* Unloading, loading, stopping *)

\* async_unload_entry saves the tracker first ...
UnloadEntry ==
  /\ up = "up" /\ up' = "unloading"
  /\ events < MaxEvents /\ events' = events + 1
  /\ mem' = mem /\ flags' = flags
  /\ Save("unload", TRUE)
  /\ UNCHANGED <<firstDay, now, cfg, settings, age, orphans, store, formVars,
                 level, lossy, forked>>

\* ... then drops it.  A poll or press in progress is cancelled, its write
\* is not; a form goes on, with the old tracker.
Unloaded ==
  /\ up = "unloading" /\ io["unload"] = NoSave
  /\ up' = "down"
  /\ orphans' = orphans \cup {io[s].copy : s \in InFlight}
  /\ io' = [s \in Savers |-> NoSave] /\ Unused
  /\ UNCHANGED <<firstDay, now, cfg, settings, mem, store, formVars, events, history>>

\* async_load_tracker.  The monotonic clock may be younger than MetaInterval.
LoadTracker ==
  /\ up = "down" /\ up' = "up"
  /\ settings' = cfg
  /\ mem' = EnsurePeriod(store, cfg)
  /\ flags' = [dirty |-> mem' # store, meta |-> FALSE]
  /\ age' \in {0, MetaInterval}
  /\ lossy' = (lossy \/ orphans # {}
                \/ store.total # mem.total
                \/ (store.power > 0 /\ <<store.ts, store.power>> # <<mem.ts, mem.power>>))
  /\ forked' = (forked \/ orphans # {})
  /\ UNCHANGED <<firstDay, now, cfg, io, orphans, store, formVars, events, level,
                 overlapped>>

\* Home Assistant stops without unloading entries, or crashes: writes that
\* have not landed are lost, and the settings are read from disk again.
Stop ==
  /\ events < MaxEvents /\ events' = events + 1
  /\ up' = "down"
  /\ cfg' = SettingsFromRaw(cfg)
  /\ io' = [s \in Savers |-> NoSave] /\ orphans' = {}
  /\ FormCloses /\ Unused
  /\ UNCHANGED <<firstDay, now, settings, mem, store, history>>

-----------------------------------------------------------------------------
Init ==
  /\ firstDay \in FirstDays /\ now = 0
  /\ cfg = DefaultSettings /\ settings = cfg /\ entered = DefaultSettings
  /\ up = "down" /\ mem = Blank /\ store = Blank
  /\ flags = Clean /\ age = 0
  /\ io = [s \in Savers |-> NoSave] /\ orphans = {}
  /\ form = "idle" /\ events = 0
  /\ level = 0 /\ lossy = FALSE /\ forked = FALSE /\ overlapped = FALSE

Saving == OrphanLands \/ \E s \in Savers : SaveDone(s) \/ SaveFails(s)
Forms == SubmitDevice \/ DeviceFormSaved \/ SubmitHub \/ SettingsSaved \/ ApplySettings
\* The bound on the clock: the meter itself never stops.
Done == now = Horizon /\ UNCHANGED vars
Next ==
  \/ Done \/ Tick \/ Poll \/ OfflinePoll \/ Press \/ Forms \/ Saving
  \/ UnloadEntry \/ Unloaded \/ LoadTracker \/ Stop

Spec == Init /\ [][Next]_vars

-----------------------------------------------------------------------------
(* Properties *)

\* No stretch of time is billed twice, whatever saves were lost or came late
\* and however often the entry was reloaded: what a copy of the tracker has
\* counted fits in the time before its last sample (energy.py 304-328).
NotCountedTwice ==
  \A c \in {mem, store} \cup orphans \cup {io[s].copy : s \in InFlight} :
    c.total <= MaxPower * (IF c.ts = Never THEN 0 ELSE c.ts)

StartTick(key) ==
  IF key.start < firstDay THEN 0 ELSE (key.start - firstDay) * TicksPerDay

\* A period's energy is its own: it fits in the time since the period began
\* and the one gap that a roll-over may fall in (energy.py 275-298, 304-320).
PeriodOwn ==
  mem.period <=
    MaxPower * (MaxGap + (IF mem.ts <= StartTick(mem.key) THEN 0
                          ELSE mem.ts - StartTick(mem.key)))

\* Unless a save was lost, a poll bills no more than the latest reading says
\* was used since: nothing for an indoor unit that was off or offline
\* (energy.py 112-135, __init__.py 842-862).
NotOverbilled ==
  [][up # "down" /\ up' # "down" /\ ~lossy
       => mem'.total - mem.total <= level * (now - mem.ts)]_vars

\* A stop forgets only what was used since the copy that survives was taken:
\* a copy is older than memory, and as much short of it as that time allows
\* (energy.py 231-240: total and last_ts are saved together).
LossBounded ==
  up # "down" /\ ~forked =>
    \A c \in {store} \cup {io[s].copy : s \in InFlight} :
      c.ts <= mem.ts /\ mem.total - c.total <= MaxPower * (mem.ts - c.ts)

\* A change of the total stays marked until it is on disk, whatever roll-over
\* or form comes while a save is in flight (energy.py 347-364).  Only two saves
\* at once, landing in the wrong order, may leave an older total there.
ChangesSaved ==
  up # "down" /\ mem.total # store.total => flags.dirty \/ overlapped \/ forked

\* Whatever the forms offer, on every day the period began on the latest day
\* that the chosen cycle starts one, also when the settings come from disk;
\* the tracker's period has begun (energy.py 61-109, 161-186, 275-298).
StartsAreLatest == \A d \in BilledDays, s \in Offered : StartsLatest(d, s)
KeyIsLatestBoundary == StartsAreLatest /\ (up # "down" => mem.key.start <= Today)
=============================================================================
