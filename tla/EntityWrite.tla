---------------------------- MODULE EntityWrite -----------------------------
(***************************************************************************)
(* The entities of one air conditioner (climate.py, entity.py, the other   *)
(* platforms, services.py): a call paints what it commands into the        *)
(* coordinator's status, writes it (CommandDelivery) and, if the write     *)
(* fails, paints what was there before.  Meanwhile polls replace the       *)
(* status, someone uses the remote control, copies of old commands arrive. *)
(*                                                                         *)
(* Each platform makes one call at a time (PARALLEL_UPDATES); platforms    *)
(* and the write_service service do not wait for one another.  Register    *)
(* "aux" stands for any that one call alone writes (fan, swing, switches,  *)
(* timers); it is written as a set point is, by its select.                *)
(***************************************************************************)
EXTENDS Capability, CommandDelivery

CONSTANTS
  ModeInfo,        \* descriptor of service 0x01, or NoInfo
  OffersComfort,   \* the catalogue lists comfort cooling
  SelectInfo,      \* descriptor of the set point's service
  Hidden,          \* sets of registers that an answer may lack
  OtherKeys,       \* registers the service and the remote control touch
  MaxEvents        \* bound on calls and uses of the remote control

Table == 0..4      \* CLIMATE_AVAILABLE_MODE: cool, dry, fan, auto, heat
Comfort == 5
Absent == -1       \* no such key in the status
NoneText == -2     \* "None", which str makes of it

\* hvac_modes
HvacCodes ==
  LET offered == IF ModeInfo = NoInfo THEN Table ELSE Table \cap SupportedValues(ModeInfo, Table)
  IN  IF offered = {} THEN Table ELSE offered

AuxValues == {Stored(point) : point \in SetPoints(SelectInfo)}

Domain(key) == CASE key = "power" -> {0, 1}
                 [] key = "mode"  -> HvacCodes \cup {0, Comfort}
                 [] key = "aux"   -> AuxValues

ASSUME EntityAssumption ==
  /\ Keys = {"power", "mode", "aux"}
  /\ Callers = {"climate", "entity", "service"}
  /\ Commands = {command \in [key : Keys, value : Values] : command.value \in Domain(command.key)}
  /\ \A key \in Keys : Domain(key) \subseteq Values
  /\ Values \subseteq Nat /\ OffersComfort \in BOOLEAN
  /\ OtherKeys \subseteq Keys /\ MaxEvents \in Nat
  /\ ModeInfo \in Descriptors \cup {NoInfo} /\ SelectInfo \in SetPointRanges
  /\ {} \in Hidden /\ Hidden \subseteq SUBSET Keys

VARIABLES
  status,     \* coordinator.data["status"]
  poll,       \* what a poll has read and not yet published, or NoPoll
  climate,    \* the climate call under way, or the last one
  entity,     \* the other platform's call, likewise
  events,     \* how many of MaxEvents have happened
  history     \* what the climate call has met

entityVars == <<status, poll, climate, entity, events, history>>
vars == <<deliveryVars, entityVars>>

NoPoll == [key \in Keys |-> NoneText]
Unknown == {Absent, NoneText}
Idle == [stage |-> "idle", key |-> "mode", value |-> 0, wasOff |-> FALSE,
         mode |-> Absent, power |-> Absent]
Nothing == [calm |-> TRUE, polled |-> FALSE, doubt |-> FALSE]

TypeOK ==
  /\ DeliveryTypeOK
  /\ \A key \in Keys : /\ dev[key] \in Domain(key)
                       /\ status[key] \in Domain(key) \cup Unknown
                       /\ poll[key] \in Domain(key) \cup Unknown
  /\ climate \in [stage : {"off", "mode", "power", "undo", "idle"},
                  key : {"power", "mode"}, value : Values, wasOff : BOOLEAN,
                  mode : Domain("mode") \cup Unknown, power : Domain("power") \cup Unknown]
  /\ entity \in [stage : {"write", "press", "ended"}, previous : AuxValues \cup Unknown]
  /\ events \in 0..MaxEvents
  /\ history \in [calm : BOOLEAN, polled : BOOLEAN, doubt : BOOLEAN]

Init ==
  /\ DeliveryInit /\ \A key \in Keys : dev[key] \in Domain(key)
  /\ \E hidden \in Hidden : status = [key \in Keys |-> IF key \in hidden THEN Absent ELSE dev[key]]
  /\ poll = NoPoll
  /\ climate = Idle
  /\ entity = [stage |-> "ended", previous |-> Absent]
  /\ events = 0
  /\ history = Nothing

Event == events < MaxEvents /\ events' = events + 1
Order(key, value) == [key |-> key, value |-> value]

-----------------------------------------------------------------------------
(* The coordinator's status *)

\* update_local_state makes text of what it is given, None included.
Text(value) == IF value = Absent THEN NoneText ELSE value
Painted(key, value) == [status EXCEPT ![key] = Text(value)]
Number(key) == IF status[key] \in Unknown THEN 0 ELSE status[key]

\* A poll that answers; one that fails leaves the status as it is.
Read ==
  /\ poll = NoPoll
  /\ \E hidden \in Hidden : poll' = [key \in Keys |-> IF key \in hidden THEN Absent ELSE dev[key]]
  /\ UNCHANGED <<deliveryVars, status, climate, entity, events, history>>

\* Mutant: values that are shown already win over the poll's.
MergePoll ==
  /\ poll # NoPoll /\ poll' = NoPoll
  /\ status' = [key \in Keys |-> IF status[key] # Absent THEN status[key] ELSE poll[key]]
  /\ history' = [history EXCEPT !.polled = climate # Idle]
  /\ UNCHANGED <<deliveryVars, climate, entity, events>>

Publish ==
  /\ poll # NoPoll /\ poll' = NoPoll
  /\ status' = poll
  /\ history' = [history EXCEPT !.polled = climate # Idle]
  /\ UNCHANGED <<deliveryVars, climate, entity, events>>

-----------------------------------------------------------------------------
(* The climate entity *)

\* What async_write_with_rollback starts with: paint, then write.
StartClimate(stage, key, value) ==
  /\ climate = Idle
  /\ status.power # Absent /\ Event
  /\ Open("climate", Order(key, value))
  /\ status' = Painted(key, value)
  /\ climate' = [stage |-> stage, key |-> key, value |-> value, wasOff |-> Number("power") = 0,
                 mode |-> status.mode, power |-> status.power]
  /\ history' = [Nothing EXCEPT !.calm = /\ status.power = dev.power
                                        /\ status.mode \in {dev.mode} \cup Unknown]
  /\ UNCHANGED <<poll, entity>>

ApplyMode(code) == StartClimate("mode", "mode", code)

\* _raw_mode: the text "None" counts as a reading, of 0.
RawMode == IF status.mode = Absent THEN Absent ELSE Number("mode")

\* Mutant: whatever the mode register shows is resumed.
ResumeAnything ==
  status.mode

ResumedMode ==
  IF RawMode \in HvacCodes \cup {Comfort} THEN RawMode
  ELSE IF 0 \in HvacCodes THEN 0
  ELSE CHOOSE code \in HvacCodes : \A other \in HvacCodes : code <= other

TurnOff == StartClimate("off", "power", 0)
SetMode == \E code \in HvacCodes : ApplyMode(code)
TurnOn == ApplyMode(ResumedMode)
PresetComfort == (RawMode = Comfort \/ OffersComfort) /\ ApplyMode(Comfort)
PresetNone == RawMode = Comfort /\ ApplyMode(0)

Goes(stage) == climate' = [climate EXCEPT !.stage = stage]
Ends == climate' = Idle /\ history' = Nothing
ClimateReturns == UNCHANGED <<poll, entity, events>>

\* The mode is set and the power was off: switch it on.
PowerOn ==
  /\ climate.stage = "mode" /\ climate.wasOff
  /\ Succeed("climate", Order("power", 1))
  /\ status' = Painted("power", 1)
  /\ climate' = [climate EXCEPT !.stage = "power", !.power = status.power]
  /\ UNCHANGED history /\ ClimateReturns

\* Mutant: a mode that is set is all there is to do.
ModeSetIsOk ==
  /\ climate.stage \in {"mode", "off", "power"}
  /\ Succeed("climate", NoCommand) /\ Ends
  /\ UNCHANGED status /\ ClimateReturns

ClimateOk ==
  /\ \/ climate.stage = "mode" /\ ~climate.wasOff
     \/ climate.stage \in {"off", "power"}
  /\ Succeed("climate", NoCommand) /\ Ends
  /\ UNCHANGED status /\ ClimateReturns

\* One write fails: show what was there.
WriteFails ==
  /\ climate.stage \in {"off", "mode"}
  /\ Fail("climate", NoCommand) /\ Ends
  /\ status' = Painted(climate.key, climate[climate.key])
  /\ ClimateReturns

\* The appliance may have obeyed a write that failed, now or later.
Suspect == "climate" \in taken \/ late' # late

\* Mutant: the mode is shown as it was, and not written.
UndoShownOnly ==
  /\ climate.stage = "power" /\ climate.mode \notin Unknown
  /\ Fail("climate", NoCommand) /\ Ends
  /\ status' = [Painted("power", climate.power) EXCEPT !.mode = climate.mode]
  /\ ClimateReturns

\* The power write fails: write the old mode again ...
UndoMode ==
  /\ climate.stage = "power" /\ climate.mode \notin Unknown
  /\ Fail("climate", Order("mode", climate.mode)) /\ Goes("undo")
  /\ history' = [history EXCEPT !.doubt = Suspect]
  /\ status' = [Painted("power", climate.power) EXCEPT !.mode = climate.mode]
  /\ ClimateReturns

\* ... unless it is not known.
CannotUndo ==
  /\ climate.stage = "power" /\ climate.mode \in Unknown
  /\ Fail("climate", NoCommand) /\ Ends
  /\ status' = [Painted("power", climate.power) EXCEPT !.mode = NoneText]
  /\ ClimateReturns

Undone ==
  /\ climate.stage = "undo"
  /\ Succeed("climate", NoCommand) /\ Ends
  /\ UNCHANGED status /\ ClimateReturns

\* Mutant: a failed undo shows the mode that was set.
UndoShowsSet ==
  /\ climate.stage = "undo"
  /\ Fail("climate", NoCommand) /\ Ends
  /\ status' = Painted("mode", climate.value)
  /\ ClimateReturns

\* The rollback shows the mode that was set, the handler then the old one.
UndoFails ==
  /\ climate.stage = "undo"
  /\ Fail("climate", NoCommand) /\ Ends
  /\ status' = Painted("mode", climate.mode)
  /\ ClimateReturns

\* A script that is stopped cancels its call, which is no Exception.
ClimateCancelled ==
  /\ climate # Idle /\ Event
  /\ Fail("climate", NoCommand) /\ Ends
  /\ UNCHANGED <<status, poll, entity>>

ClimateCalls == TurnOff \/ SetMode \/ TurnOn \/ PresetComfort \/ PresetNone
ClimateSteps ==
  PowerOn \/ ClimateOk \/ WriteFails \/ UndoMode \/ CannotUndo \/ Undone \/ UndoFails

-----------------------------------------------------------------------------
(* The other platforms, the write_service service *)

\* async_write_with_rollback
StartWrite(value) ==
  /\ entity.stage = "ended" /\ Event
  /\ Open("entity", Order("aux", value))
  /\ status' = Painted("aux", value)
  /\ entity' = [stage |-> "write", previous |-> status.aux]
  /\ UNCHANGED <<poll, climate, history>>

SelectOption ==
  status.power # Absent /\ \E point \in SetPoints(SelectInfo) : StartWrite(Stored(point))

\* A button shows its write when it is done.
StartPress ==
  /\ entity.stage = "ended" /\ Event
  /\ \E value \in AuxValues : Open("entity", Order("aux", value))
  /\ entity' = [entity EXCEPT !.stage = "press"]
  /\ UNCHANGED <<status, poll, climate, history>>

EntityEnds(shown) ==
  /\ entity' = [entity EXCEPT !.stage = "ended"]
  /\ status' = shown
  /\ UNCHANGED <<poll, climate, events, history>>

EntityOk ==
  /\ Succeed("entity", NoCommand)
  /\ EntityEnds(IF entity.stage = "press" THEN Painted("aux", out["entity"].value) ELSE status)

EntityCancelled ==
  /\ Fail("entity", NoCommand) /\ Event
  /\ entity' = [entity EXCEPT !.stage = "ended"]
  /\ UNCHANGED <<status, poll, climate, history>>

EntityFails ==
  /\ Fail("entity", NoCommand)
  /\ EntityEnds(IF entity.stage = "write" THEN Painted("aux", entity.previous) ELSE status)

\* write_service writes anything and shows nothing.
StartService ==
  /\ Event
  /\ \E key \in OtherKeys : \E value \in Domain(key) : Open("service", Order(key, value))
  /\ UNCHANGED <<status, poll, climate, entity, history>>

ServiceEnds ==
  /\ Succeed("service", NoCommand) \/ Fail("service", NoCommand)
  /\ UNCHANGED entityVars

-----------------------------------------------------------------------------
(* The appliance *)

Disturb(key) == history' = [history EXCEPT !.calm = @ /\ (key = "aux" \/ climate = Idle)]

Obey ==
  /\ \E t \in Callers :
       /\ Take(t)
       /\ IF t = "service" THEN Disturb(out[t].key) ELSE UNCHANGED history
  /\ UNCHANGED <<status, poll, climate, entity, events>>

ObeyLate ==
  /\ \E command \in Commands : Land(command) /\ Disturb(command.key)
  /\ UNCHANGED <<status, poll, climate, entity, events>>

RemoteControl ==
  /\ Event
  /\ \E key \in OtherKeys : \E value \in Domain(key) \ {dev[key]} :
       dev' = [dev EXCEPT ![key] = value] /\ Disturb(key)
  /\ UNCHANGED <<out, taken, late, status, poll, climate, entity>>

Polls == Read \/ Publish
EntitySteps == EntityOk \/ EntityFails
Others ==
  SelectOption \/ StartPress \/ EntitySteps \/ EntityCancelled \/ StartService \/ ServiceEnds
Appliance == Obey \/ ObeyLate \/ RemoteControl

Next == Polls \/ ClimateCalls \/ ClimateSteps \/ ClimateCancelled \/ Others \/ Appliance
Spec == Init /\ [][Next]_vars

\* Home Assistant polls for ever; each write returns, as its requests time out.
Fairness ==
  /\ WF_vars(Read) /\ WF_vars(Publish) /\ WF_vars(ClimateSteps)
  /\ WF_vars(EntitySteps) /\ WF_vars(ServiceEnds)

FairSpec == Spec /\ Fairness

-----------------------------------------------------------------------------
(* Properties *)

ShowsDevice(key) == status[key] = dev[key]
Before == IF climate.wasOff THEN 0 ELSE 1   \* the power, of a call that is calm

\* The climate call returns, uncancelled; a write of it that failed may have been obeyed, or
\* its mode not be written back.
Returned == climate # Idle /\ climate' = Idle /\ events' = events
Doubtful ==
  \/ history.doubt \/ climate.mode \in Unknown
  \/ IF climate.stage = "undo" THEN "climate" \notin taken ELSE Suspect

\* When nobody else has touched mode and power meanwhile, a call that succeeds
\* leaves the appliance as commanded: mode set and power on, or power off ...
Achieved ==
  IF climate.key = "power" THEN dev.power = 0
                           ELSE dev.mode = climate.value /\ dev.power = 1

\* ... and one that fails, without doubt, as it was (climate.py 251-277).
Restored == Doubtful \/ (dev.mode = climate.mode /\ dev.power = Before)

AllOrNothing ==
  [][Returned /\ history.calm => IF ClimateOk THEN Achieved ELSE Restored]_vars

\* Unless a poll was published between, a call that fails ends with what was
\* shown when it began, whichever of its three writes failed, and one that
\* leaves no doubt with what the appliance holds (entity.py 117-126,
\* climate.py 257-277).
ShownTrue ==
  [][Returned /\ ~history.polled =>
       /\ ClimateOk \/ (/\ status'.power = climate.power
                        /\ status'.mode \in {climate.mode, Text(climate.mode)})
       /\ history.calm /\ ((ClimateOk /\ climate.key = "mode") \/ ~Doubtful) =>
            (ShowsDevice("power") /\ ShowsDevice("mode"))' ]_vars

\* A set point that is shown is one the select offers, freezing ones too
\* (select.py 78-90, 110-131).
SelectTrue == status.aux \notin Unknown => Shown(status.aux) \in SetPoints(SelectInfo)

\* When calls and the remote control come to rest, what is shown is what the
\* appliance holds, whichever poll or rollback came last (__init__.py 969-974).
ShownConverges == <>[](\A key \in Keys : status[key] = Absent \/ ShowsDevice(key))
=============================================================================
