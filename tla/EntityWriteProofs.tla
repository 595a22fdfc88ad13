------------------------- MODULE EntityWriteProofs --------------------------
(***************************************************************************)
(* Proofs about EntityWrite, for any air conditioner: whatever modes and   *)
(* set points its module lists, whatever its answers lack, and however     *)
(* many calls, copies and uses of the remote control there are.            *)
(***************************************************************************)
EXTENDS EntityWrite, CapabilityProofs

-----------------------------------------------------------------------------
(* Values *)

LEMMA AuxFacts ==
  /\ AuxValues \subseteq Nat
  /\ \A value \in AuxValues : Shown(value) \in SetPoints(SelectInfo)
<1>0. SelectInfo \in SetPointRanges
  BY EntityAssumption
<1>1. ASSUME NEW point \in SetPoints(SelectInfo)
      PROVE  Stored(point) \in Nat /\ Shown(Stored(point)) = point
  <2>1. point \in Int /\ -55 <= point /\ point <= 200
    <3>1. /\ SelectInfo.min \in 0..255 /\ SelectInfo.max \in 0..255
          /\ SelectInfo.min <= SelectInfo.max
          /\ (SelectInfo.max <= 127 \/ SelectInfo.min >= 201)
          /\ point \in Signed(SelectInfo.min)..Signed(SelectInfo.max)
      BY <1>0, <1>1, OffersItsRange
    <3> QED
      BY <3>1, SignedRange
  <2> QED
    BY <2>1, PointReadBack DEF Bytes
<1> QED
  BY <1>1 DEF AuxValues

LEMMA HvacFacts == HvacCodes \subseteq 0..4 /\ HvacCodes # {}
BY DEF HvacCodes, Table

LEMMA DomainFacts ==
  /\ Keys = {"power", "mode", "aux"} /\ Callers = {"climate", "entity", "service"}
  /\ Values \subseteq Nat /\ \A key \in Keys : Domain(key) \subseteq Values
  /\ Domain("power") = {0, 1} /\ Domain("mode") = HvacCodes \cup {0, 5}
  /\ Domain("aux") = AuxValues
  /\ Unknown = {-1, -2} /\ Absent = -1 /\ NoneText = -2
<1>1. /\ Domain("power") = {0, 1} /\ Domain("mode") = HvacCodes \cup {0, 5}
      /\ Domain("aux") = AuxValues
  BY DEF Domain, Comfort
<1> QED
  BY <1>1, EntityAssumption DEF Unknown, Absent, NoneText

LEMMA OrderFacts ==
  ASSUME NEW key \in Keys, NEW value \in Domain(key)
  PROVE  /\ Order(key, value) \in Commands /\ Order(key, value) # NoCommand
         /\ Order(key, value).key = key /\ Order(key, value).value = value
<1>1. Order(key, value) \in [key : Keys, value : Values]
  BY DomainFacts DEF Order
<1>2. Order(key, value).key = key /\ Order(key, value).value = value
  BY DEF Order
<1> QED
  BY <1>1, <1>2, EntityAssumption, DeliveryAssumption

LEMMA CommandFacts ==
  ASSUME NEW command \in Commands
  PROVE  command.key \in Keys /\ command.value \in Domain(command.key) /\ command # NoCommand
BY EntityAssumption, DeliveryAssumption

LEMMA ResumedFacts ==
  ASSUME NEW mode \in Domain("mode") \cup Unknown, status.mode = mode
  PROVE  ResumedMode \in Domain("mode")
<1> DEFINE lowest == CHOOSE code \in HvacCodes : \A other \in HvacCodes : code <= other
<1>1. lowest \in HvacCodes
  <2>1. \E code \in HvacCodes : \A other \in HvacCodes : code <= other
    <3>1. CASE 0 \in HvacCodes
      BY <3>1, HvacFacts
    <3>2. CASE 0 \notin HvacCodes /\ 1 \in HvacCodes
      BY <3>2, HvacFacts
    <3>3. CASE 0 \notin HvacCodes /\ 1 \notin HvacCodes /\ 2 \in HvacCodes
      BY <3>3, HvacFacts
    <3>4. CASE /\ 0 \notin HvacCodes /\ 1 \notin HvacCodes /\ 2 \notin HvacCodes
               /\ 3 \in HvacCodes
      BY <3>4, HvacFacts
    <3>5. CASE /\ 0 \notin HvacCodes /\ 1 \notin HvacCodes /\ 2 \notin HvacCodes
               /\ 3 \notin HvacCodes
      <4>1. \A code \in HvacCodes : code = 4
        BY <3>5, HvacFacts
      <4>2. 4 \in HvacCodes
        BY <4>1, HvacFacts
      <4> QED
        BY <4>1, <4>2
    <3> QED
      BY <3>1, <3>2, <3>3, <3>4, <3>5
  <2> QED
    BY <2>1
<1> HIDE DEF lowest
<1>2. ResumedMode = IF RawMode \in HvacCodes \cup {Comfort} THEN RawMode
                    ELSE IF 0 \in HvacCodes THEN 0 ELSE lowest
  BY DEF ResumedMode, lowest
<1> QED
  BY <1>1, <1>2, DomainFacts DEF Comfort

-----------------------------------------------------------------------------
(* What CommandDelivery keeps *)

DeliveryOK == DeliveryTypeOK /\ \A key \in Keys : dev[key] \in Domain(key)

LEMMA ObeyedOK ==
  ASSUME DeliveryOK, NEW command \in Commands
  PROVE  /\ Obeyed(command) \in [Keys -> Values]
         /\ Obeyed(command)[command.key] = command.value
         /\ \A key \in Keys : /\ Obeyed(command)[key] \in Domain(key)
                              /\ key # command.key => Obeyed(command)[key] = dev[key]
BY CommandFacts, DomainFacts DEF DeliveryOK, DeliveryTypeOK, Obeyed

LEMMA OpenKeeps ==
  ASSUME DeliveryOK, NEW t \in Callers, NEW command \in Commands, Open(t, command)
  PROVE  /\ DeliveryOK' /\ out'[t] = command /\ dev' = dev /\ t \notin taken'
         /\ \A u \in Callers \ {t} : out'[u] = out[u] /\ (u \in taken' <=> u \in taken)
BY DEF DeliveryOK, DeliveryTypeOK, Open

LEMMA TakeKeeps ==
  ASSUME DeliveryOK, NEW t \in Callers, Take(t)
  PROVE  /\ DeliveryOK' /\ out' = out /\ out[t] \in Commands /\ t \in taken'
         /\ dev'[out[t].key] = out[t].value
         /\ \A key \in Keys : key # out[t].key => dev'[key] = dev[key]
         /\ \A u \in Callers \ {t} : u \in taken' <=> u \in taken
<1>1. out[t] \in Commands
  BY DEF DeliveryOK, DeliveryTypeOK, Take, Quiet
<1> QED
  BY <1>1, ObeyedOK DEF DeliveryOK, DeliveryTypeOK, Take

LEMMA LeaveKeeps ==
  ASSUME DeliveryOK, NEW t \in Callers, NEW next \in Commands \cup {NoCommand}, Leave(t, next)
  PROVE  /\ DeliveryOK' /\ out'[t] = next /\ dev' = dev /\ t \notin taken' /\ out[t] \in Commands
         /\ \A u \in Callers \ {t} : out'[u] = out[u] /\ (u \in taken' <=> u \in taken)
<1>1. out[t] \in Commands
  BY DEF DeliveryOK, DeliveryTypeOK, Leave, Quiet
<1>2. PICK n \in Copies : late' = [late EXCEPT ![out[t]] = @ + n]
  BY DEF Leave
<1>3. late' \in [Commands -> Nat]
  BY <1>1, <1>2, DeliveryAssumption DEF DeliveryOK, DeliveryTypeOK
<1> QED
  BY <1>1, <1>3 DEF DeliveryOK, DeliveryTypeOK, Leave

LEMMA EndKeeps ==
  ASSUME DeliveryOK, NEW t \in Callers, NEW next \in Commands \cup {NoCommand},
         Succeed(t, next) \/ Fail(t, next)
  PROVE  /\ DeliveryOK' /\ out'[t] = next /\ dev' = dev /\ t \notin taken' /\ out[t] \in Commands
         /\ \A u \in Callers \ {t} : out'[u] = out[u] /\ (u \in taken' <=> u \in taken)
BY LeaveKeeps DEF Succeed, Fail

LEMMA LandKeeps ==
  ASSUME DeliveryOK, NEW command \in Commands, Land(command)
  PROVE  /\ DeliveryOK' /\ UNCHANGED <<out, taken>>
         /\ \A key \in Keys : key # command.key => dev'[key] = dev[key]
<1>1. late' \in [Commands -> Nat]
  BY DEF DeliveryOK, DeliveryTypeOK, Land
<1> QED
  BY <1>1, ObeyedOK DEF DeliveryOK, DeliveryTypeOK, Land

-----------------------------------------------------------------------------
(* Types *)

Readings == [Keys -> Values \cup Unknown]
StatusOK == status \in Readings /\ \A key \in Keys : status[key] \in Domain(key) \cup Unknown
PollOK == poll \in Readings /\ \A key \in Keys : poll[key] \in Domain(key) \cup Unknown
Call == [stage : {"off", "mode", "power", "undo", "idle"}, key : {"power", "mode"},
         value : Values, wasOff : BOOLEAN, mode : Domain("mode") \cup Unknown,
         power : Domain("power") \cup Unknown]
History == [calm : BOOLEAN, polled : BOOLEAN, doubt : BOOLEAN]
CallsOK ==
  /\ climate \in Call
  /\ entity \in [stage : {"write", "press", "ended"}, previous : AuxValues \cup Unknown]
  /\ events \in 0..MaxEvents /\ history \in History

\* The other platforms command "aux" alone.
OrderInv == ~Quiet("entity") => out["entity"].key = "aux"

\* What the climate call waits for.
StageInv ==
  /\ climate.stage = "idle" => climate = Idle
  /\ climate.stage = "off" => climate.key = "power" /\ out["climate"] = Order("power", 0)
  /\ climate.stage = "mode" => climate.key = "mode" /\ out["climate"] = Order("mode", climate.value)
  /\ climate.stage = "power" =>
       climate.key = "mode" /\ climate.wasOff /\ out["climate"] = Order("power", 1)
  /\ climate.stage = "undo" =>
       /\ climate.key = "mode" /\ climate.wasOff /\ climate.mode \notin Unknown
       /\ out["climate"] = Order("mode", climate.mode)
  /\ climate.key = "mode" => climate.value \in Domain("mode")

EntityInv == DeliveryOK /\ StatusOK /\ PollOK /\ CallsOK /\ OrderInv /\ StageInv

LEMMA PaintedOK ==
  ASSUME StatusOK, NEW key \in Keys, NEW value \in Domain(key) \cup Unknown
  PROVE  /\ Painted(key, value) \in Readings /\ Painted(key, value)[key] = Text(value)
         /\ \A other \in Keys : /\ Painted(key, value)[other] \in Domain(other) \cup Unknown
                                /\ other # key => Painted(key, value)[other] = status[other]
<1>1. Text(value) \in Domain(key) \cup Unknown
  BY DomainFacts DEF Text
<1> QED
  BY <1>1, DomainFacts DEF Painted, StatusOK, Readings

LEMMA IdleOK == Idle \in Call /\ Nothing \in History
<1>1. 0 \in Values /\ Absent \in Unknown
  BY DomainFacts
<1> QED
  BY <1>1 DEF Idle, Call, Nothing, History

LEMMA EventKeeps ==
  ASSUME CallsOK, Event
  PROVE  events' \in 0..MaxEvents
BY EntityAssumption DEF CallsOK, Event

LEMMA CallFacts ==
  ASSUME CallsOK
  PROVE  /\ climate.stage \in {"off", "mode", "power", "undo", "idle"}
         /\ climate.key \in {"power", "mode"} /\ climate.value \in Values
         /\ climate.wasOff \in BOOLEAN
         /\ climate.mode \in Domain("mode") \cup Unknown
         /\ climate.power \in Domain("power") \cup Unknown
         /\ climate["mode"] = climate.mode /\ climate["power"] = climate.power
         /\ history.calm \in BOOLEAN /\ history.polled \in BOOLEAN /\ history.doubt \in BOOLEAN
         /\ events \in 0..MaxEvents /\ history \in History /\ climate \in Call
         /\ Idle.stage = "idle"
BY DEF CallsOK, Call, History, Idle

\* The climate call ends.
LEMMA ReturnKeeps ==
  ASSUME EntityInv, climate' = Idle, history' = Nothing, UNCHANGED <<entity, poll>>,
         events' \in 0..MaxEvents, DeliveryOK', out'["entity"] = out["entity"], StatusOK'
  PROVE  EntityInv'
<1>1. CallsOK'
  BY IdleOK DEF EntityInv, CallsOK
<1>2. OrderInv' /\ PollOK'
  BY DEF EntityInv, OrderInv, PollOK, Quiet
<1>3. StageInv'
  <2>1. Idle.stage = "idle" /\ Idle.value = 0 /\ 0 \in Domain("mode")
    BY DomainFacts DEF Idle
  <2> QED
    BY <2>1 DEF StageInv
<1> QED
  BY <1>1, <1>2, <1>3 DEF EntityInv

\* A step that leaves the climate call as it is.
LEMMA OthersKeep ==
  ASSUME EntityInv, UNCHANGED climate, out'["climate"] = out["climate"], DeliveryOK', StatusOK',
         PollOK', CallsOK', OrderInv'
  PROVE  EntityInv'
<1>1. StageInv'
  BY DEF EntityInv, StageInv
<1> QED
  BY <1>1 DEF EntityInv

LEMMA StartKeeps ==
  ASSUME EntityInv, NEW stage, NEW key, NEW value,
         \/ stage = "off" /\ key = "power" /\ value = 0
         \/ stage = "mode" /\ key = "mode" /\ value \in Domain("mode"),
         StartClimate(stage, key, value)
  PROVE  EntityInv'
<1>1. key \in Keys /\ value \in Domain(key) /\ value \in Values
  BY DomainFacts
<1>2. Order(key, value) \in Commands /\ Open("climate", Order(key, value))
  BY <1>1, OrderFacts DEF StartClimate
<1>3. /\ DeliveryOK' /\ out'["climate"] = Order(key, value)
      /\ out'["entity"] = out["entity"]
  BY <1>2, OpenKeeps, DomainFacts DEF EntityInv
<1>4. StatusOK'
  BY <1>1, PaintedOK DEF EntityInv, StartClimate, StatusOK
<1>5. PICK wasOff \in BOOLEAN, calm \in BOOLEAN :
        /\ climate' = [stage |-> stage, key |-> key, value |-> value, wasOff |-> wasOff,
                       mode |-> status.mode, power |-> status.power]
        /\ history' = [Nothing EXCEPT !.calm = calm]
  BY DEF StartClimate
<1>6. /\ status.mode \in Domain("mode") \cup Unknown
      /\ status.power \in Domain("power") \cup Unknown
  BY DomainFacts DEF EntityInv, StatusOK, Readings
<1>7. events' \in 0..MaxEvents
  BY EventKeeps DEF EntityInv, StartClimate
<1>8. CallsOK'
  <2>1. climate' \in Call
    BY <1>1, <1>5, <1>6 DEF Call
  <2>2. history' \in History
    BY <1>5 DEF History, Nothing
  <2> QED
    BY <1>7, <2>1, <2>2 DEF EntityInv, CallsOK, StartClimate
<1>9. OrderInv' /\ PollOK'
  BY <1>3 DEF EntityInv, OrderInv, PollOK, Quiet, StartClimate
<1>10. StageInv'
  BY <1>1, <1>3, <1>5 DEF StageInv
<1> QED
  BY <1>3, <1>4, <1>8, <1>9, <1>10 DEF EntityInv

LEMMA ClimateCallsKeep ==
  ASSUME EntityInv, ClimateCalls
  PROVE  EntityInv'
<1>1. ASSUME NEW code \in Domain("mode"), ApplyMode(code)
      PROVE  EntityInv'
  BY <1>1, StartKeeps DEF ApplyMode
<1>2. HvacCodes \cup {0, Comfort} \subseteq Domain("mode")
  BY DomainFacts DEF Comfort
<1>3. ResumedMode \in Domain("mode")
  BY ResumedFacts, DomainFacts DEF EntityInv, StatusOK, Readings
<1>4. CASE TurnOff
  BY <1>4, StartKeeps DEF TurnOff
<1>5. CASE SetMode \/ TurnOn \/ PresetComfort \/ PresetNone
  BY <1>1, <1>2, <1>3, <1>5 DEF SetMode, TurnOn, PresetComfort, PresetNone
<1> QED
  BY <1>4, <1>5 DEF ClimateCalls

\* Each of these ends the call or goes on with its next command.
LEMMA PowerOnKeeps ==
  ASSUME EntityInv, PowerOn
  PROVE  EntityInv'
<1>1. Order("power", 1) \in Commands /\ "power" \in Keys /\ 1 \in Domain("power")
  BY DomainFacts, OrderFacts
<1>2. /\ DeliveryOK' /\ out'["climate"] = Order("power", 1)
      /\ out'["entity"] = out["entity"]
  BY <1>1, EndKeeps, DomainFacts DEF EntityInv, PowerOn
<1>3. StatusOK'
  BY <1>1, PaintedOK DEF EntityInv, PowerOn, StatusOK
<1>4. status.power \in Domain("power") \cup Unknown
  BY DomainFacts DEF EntityInv, StatusOK, Readings
<1>5. /\ climate' \in Call /\ climate'.stage = "power" /\ climate'.key = climate.key
      /\ climate'.wasOff = climate.wasOff /\ climate'.value = climate.value
      /\ climate.stage = "mode" /\ climate.wasOff
  <2>1. climate \in Call /\ climate.stage = "mode" /\ climate.wasOff
        /\ climate' = [climate EXCEPT !.stage = "power", !.power = status.power]
    BY DEF EntityInv, CallsOK, PowerOn
  <2>2. \A c \in Call : /\ [c EXCEPT !.stage = "power"] \in Call
                        /\ [c EXCEPT !.power = status.power] \in Call
    BY <1>4 DEF Call
  <2>3. climate' \in Call
    BY <2>1, <2>2, Zenon
  <2> QED
    BY <2>1, <2>3 DEF Call
<1>6. CallsOK'
  BY <1>5 DEF EntityInv, CallsOK, PowerOn, ClimateReturns
<1>7. OrderInv' /\ PollOK'
  BY <1>2 DEF EntityInv, OrderInv, PollOK, Quiet, PowerOn, ClimateReturns
<1>8. StageInv'
  BY <1>2, <1>5 DEF EntityInv, StageInv
<1> QED
  BY <1>2, <1>3, <1>6, <1>7, <1>8 DEF EntityInv

LEMMA UndoModeKeeps ==
  ASSUME EntityInv, UndoMode
  PROVE  EntityInv'
<1>0. /\ climate.mode \in Domain("mode") /\ climate.power \in Domain("power") \cup Unknown
      /\ climate \in Call /\ history \in History /\ events \in 0..MaxEvents
      /\ climate.stage = "power" /\ climate.mode \notin Unknown
  BY CallFacts DEF EntityInv, UndoMode
<1>1. Order("mode", climate.mode) \in Commands /\ "mode" \in Keys /\ "power" \in Keys
  BY <1>0, DomainFacts, OrderFacts
<1>2. /\ DeliveryOK' /\ out'["climate"] = Order("mode", climate.mode)
      /\ out'["entity"] = out["entity"]
  BY <1>1, EndKeeps, DomainFacts DEF EntityInv, UndoMode
<1>3. StatusOK'
  <2>1. status' = [Painted("power", climate.power) EXCEPT !["mode"] = climate.mode]
    BY DEF UndoMode
  <2>2. /\ Painted("power", climate.power) \in Readings
        /\ \A other \in Keys : Painted("power", climate.power)[other] \in Domain(other) \cup Unknown
    BY <1>0, <1>1, PaintedOK DEF EntityInv
  <2> QED
    BY <1>0, <1>1, <2>1, <2>2, DomainFacts DEF StatusOK, Readings
<1>4. /\ climate' = [climate EXCEPT !.stage = "undo"]
      /\ \E doubt \in BOOLEAN : history' = [history EXCEPT !.doubt = doubt]
  <2>1. PICK doubt \in BOOLEAN : doubt = Suspect
    BY DEF Suspect
  <2>2. history' = [history EXCEPT !.doubt = doubt]
    BY <2>1 DEF UndoMode
  <2> QED
    BY <2>2 DEF UndoMode, Goes
<1>5. CallsOK'
  <2>1. climate' \in Call /\ history' \in History
    BY <1>0, <1>4 DEF Call, History
  <2> QED
    BY <1>0, <2>1 DEF EntityInv, CallsOK, UndoMode, ClimateReturns
<1>6. OrderInv' /\ PollOK'
  BY <1>2 DEF EntityInv, OrderInv, PollOK, Quiet, UndoMode, ClimateReturns
<1>7. /\ climate'.stage = "undo" /\ climate'.key = climate.key /\ climate'.mode = climate.mode
      /\ climate'.wasOff = climate.wasOff /\ climate'.value = climate.value
  BY <1>0, <1>4 DEF Call
<1>8. StageInv'
  BY <1>0, <1>2, <1>7 DEF EntityInv, StageInv
<1> QED
  BY <1>2, <1>3, <1>5, <1>6, <1>8 DEF EntityInv

\* Steps that end the climate call.
Closes ==
  ClimateOk \/ WriteFails \/ CannotUndo \/ Undone \/ UndoFails \/ ClimateCancelled

LEMMA ClosesKeep ==
  ASSUME EntityInv, Closes
  PROVE  EntityInv'
<1>0. /\ climate.mode \in Domain("mode") \cup Unknown
      /\ climate.power \in Domain("power") \cup Unknown
      /\ climate.key \in {"power", "mode"} /\ climate[climate.key] \in Domain(climate.key) \cup Unknown
      /\ "mode" \in Keys /\ "power" \in Keys /\ NoneText \in Unknown
      /\ events \in 0..MaxEvents /\ StatusOK /\ CallsOK
  BY CallFacts, DomainFacts DEF EntityInv
<1>1. Succeed("climate", NoCommand) \/ Fail("climate", NoCommand)
  BY DEF Closes, ClimateOk, WriteFails, CannotUndo, Undone, UndoFails, ClimateCancelled
<1>2. DeliveryOK' /\ out'["entity"] = out["entity"]
  BY <1>1, EndKeeps, DomainFacts DEF EntityInv
<1>3. climate' = Idle /\ history' = Nothing /\ UNCHANGED <<entity, poll>>
  BY DEF Closes, ClimateOk, WriteFails, CannotUndo, Undone, UndoFails, ClimateCancelled, Ends,
         ClimateReturns
<1>4. events' \in 0..MaxEvents
  BY <1>0, EventKeeps DEF Closes, ClimateOk, WriteFails, CannotUndo, Undone, UndoFails,
         ClimateCancelled, ClimateReturns
<1>5. StatusOK'
  <2>1. CASE ClimateOk \/ Undone \/ ClimateCancelled
    BY <1>0, <2>1 DEF ClimateOk, Undone, ClimateCancelled, StatusOK
  <2>2. CASE WriteFails
    BY <1>0, <2>2, PaintedOK DEF WriteFails, StatusOK
  <2>3. CASE UndoFails
    BY <1>0, <2>3, PaintedOK DEF UndoFails, StatusOK
  <2>4. CASE CannotUndo
    <3>1. status' = [Painted("power", climate.power) EXCEPT !["mode"] = NoneText]
      BY <2>4 DEF CannotUndo
    <3>2. /\ Painted("power", climate.power) \in Readings
          /\ \A other \in Keys : Painted("power", climate.power)[other] \in Domain(other) \cup Unknown
      BY <1>0, PaintedOK
    <3> QED
      BY <1>0, <3>1, <3>2 DEF StatusOK, Readings
  <2> QED
    BY <2>1, <2>2, <2>3, <2>4 DEF Closes
<1> QED
  BY <1>2, <1>3, <1>4, <1>5, ReturnKeeps

\* Steps of the other platforms and of the service.
LEMMA EntityCallKeeps ==
  ASSUME EntityInv, NEW value \in AuxValues, Open("entity", Order("aux", value)),
         UNCHANGED <<poll, climate, history>>, Event, StatusOK',
         entity' \in [stage : {"write", "press", "ended"}, previous : AuxValues \cup Unknown]
  PROVE  EntityInv'
<1>1. Order("aux", value) \in Commands /\ Order("aux", value).key = "aux"
  BY DomainFacts, OrderFacts
<1>2. /\ DeliveryOK' /\ out'["entity"] = Order("aux", value)
      /\ out'["climate"] = out["climate"]
  BY <1>1, OpenKeeps, DomainFacts DEF EntityInv
<1>3. CallsOK'
  BY EventKeeps DEF EntityInv, CallsOK
<1>4. PollOK' /\ OrderInv'
  BY <1>1, <1>2 DEF EntityInv, PollOK, OrderInv
<1> QED
  BY <1>2, <1>3, <1>4, OthersKeep

LEMMA EntityStepsKeep ==
  ASSUME EntityInv, EntityOk \/ EntityFails \/ EntityCancelled
  PROVE  EntityInv'
<1>0. /\ "entity" \in Callers /\ "climate" \in Callers /\ "aux" \in Keys /\ StatusOK /\ CallsOK
      /\ entity.previous \in AuxValues \cup Unknown /\ Domain("aux") = AuxValues
      /\ entity \in [stage : {"write", "press", "ended"}, previous : AuxValues \cup Unknown]
  BY DomainFacts DEF EntityInv, CallsOK
<1>1. /\ DeliveryOK' /\ out'["entity"] = NoCommand /\ out["entity"] \in Commands
      /\ out'["climate"] = out["climate"]
  BY <1>0, EndKeeps DEF EntityInv, EntityOk, EntityFails, EntityCancelled
<1>2. ~Quiet("entity") /\ out["entity"].value \in AuxValues
  <2>1. ~Quiet("entity")
    BY <1>1, DeliveryAssumption DEF Quiet
  <2>2. out["entity"].key = "aux"
    BY <2>1 DEF EntityInv, OrderInv
  <2> QED
    BY <1>0, <1>1, <2>1, <2>2, CommandFacts
<1>3. StatusOK'
  <2>1. \/ status' = status \/ status' = Painted("aux", out["entity"].value)
        \/ status' = Painted("aux", entity.previous)
    BY DEF EntityOk, EntityFails, EntityCancelled, EntityEnds
  <2> QED
    BY <1>0, <1>2, <2>1, PaintedOK DEF StatusOK
<1>4. /\ UNCHANGED <<poll, climate, history>> /\ events' \in 0..MaxEvents
      /\ entity' = [entity EXCEPT !.stage = "ended"]
  BY <1>0, EventKeeps DEF CallsOK, EntityOk, EntityFails, EntityCancelled, EntityEnds
<1>5. CallsOK'
  BY <1>0, <1>4 DEF CallsOK
<1>6. PollOK' /\ OrderInv'
  BY <1>1, <1>4 DEF EntityInv, PollOK, OrderInv, Quiet
<1> QED
  BY <1>1, <1>3, <1>4, <1>5, <1>6, OthersKeep

LEMMA OthersKept ==
  ASSUME EntityInv, Others
  PROVE  EntityInv'
<1>0. /\ StatusOK /\ CallsOK /\ Domain("aux") = AuxValues /\ "aux" \in Keys
      /\ status.aux \in AuxValues \cup Unknown
      /\ entity \in [stage : {"write", "press", "ended"}, previous : AuxValues \cup Unknown]
  BY DomainFacts DEF EntityInv, CallsOK, StatusOK, Readings
<1>1. CASE SelectOption
  <2>1. PICK point \in SetPoints(SelectInfo) : StartWrite(Stored(point))
    BY <1>1 DEF SelectOption
  <2>2. Stored(point) \in AuxValues
    BY <2>1 DEF AuxValues
  <2>3. StatusOK'
    BY <1>0, <2>1, <2>2, PaintedOK DEF StartWrite, StatusOK
  <2> QED
    BY <1>0, <2>1, <2>2, <2>3, EntityCallKeeps DEF StartWrite
<1>2. CASE StartPress
  <2>1. StatusOK'
    BY <1>0, <1>2 DEF StartPress, StatusOK
  <2> QED
    BY <1>0, <1>2, <2>1, EntityCallKeeps DEF StartPress
<1>3. CASE EntitySteps \/ EntityCancelled
  BY <1>3, EntityStepsKeep DEF EntitySteps
<1>4. CASE StartService
  <2>1. PICK key \in OtherKeys : \E value \in Domain(key) : Open("service", Order(key, value))
    BY <1>4 DEF StartService
  <2>2. PICK value \in Domain(key) : Open("service", Order(key, value))
    BY <2>1
  <2>3. Order(key, value) \in Commands
    BY OrderFacts, EntityAssumption
  <2>4. DeliveryOK' /\ out'["climate"] = out["climate"] /\ out'["entity"] = out["entity"]
    BY <2>2, <2>3, OpenKeeps, DomainFacts DEF EntityInv
  <2>5. CallsOK'
    BY <1>0, <1>4, EventKeeps DEF StartService, CallsOK
  <2>6. StatusOK' /\ PollOK' /\ OrderInv'
    BY <1>4, <2>4 DEF EntityInv, StatusOK, PollOK, OrderInv, Quiet, StartService
  <2> QED
    BY <1>4, <2>4, <2>5, <2>6, OthersKeep DEF StartService
<1>5. CASE ServiceEnds
  <2>1. DeliveryOK' /\ out'["climate"] = out["climate"] /\ out'["entity"] = out["entity"]
    BY <1>5, EndKeeps, DomainFacts DEF EntityInv, ServiceEnds
  <2>2. StatusOK' /\ PollOK' /\ OrderInv' /\ CallsOK'
    BY <1>5, <2>1 DEF EntityInv, StatusOK, PollOK, OrderInv, Quiet, CallsOK, ServiceEnds, entityVars
  <2> QED
    BY <1>5, <2>1, <2>2, OthersKeep DEF ServiceEnds, entityVars
<1> QED
  BY <1>1, <1>2, <1>3, <1>4, <1>5 DEF Others

\* The appliance obeys, or someone uses the remote control.
LEMMA DisturbKeeps ==
  ASSUME CallsOK, NEW key, Disturb(key)
  PROVE  history' \in History
<1>1. PICK calm \in BOOLEAN : calm = (history.calm /\ (key = "aux" \/ climate = Idle))
  OBVIOUS
<1>2. history' = [history EXCEPT !.calm = calm]
  BY <1>1 DEF Disturb
<1> QED
  BY <1>2, CallFacts DEF History

LEMMA ApplianceKeeps ==
  ASSUME EntityInv, Appliance
  PROVE  EntityInv'
<1>0. /\ Callers = {"climate", "entity", "service"} /\ DeliveryOK /\ CallsOK
      /\ history \in History
  BY DomainFacts DEF EntityInv, CallsOK
<1>1. ASSUME UNCHANGED <<status, poll, climate, entity, out>>, events' \in 0..MaxEvents,
             DeliveryOK', history' \in History
      PROVE  EntityInv'
  <2>1. StatusOK' /\ PollOK' /\ OrderInv' /\ CallsOK'
    BY <1>1 DEF EntityInv, StatusOK, PollOK, OrderInv, Quiet, CallsOK
  <2> QED
    BY <1>1, <2>1, OthersKeep
<1>2. CASE Obey
  <2>1. PICK t \in Callers :
          Take(t) /\ IF t = "service" THEN Disturb(out[t].key) ELSE UNCHANGED history
    BY <1>2 DEF Obey
  <2>2. DeliveryOK' /\ out' = out
    BY <1>0, <2>1, TakeKeeps
  <2>3. history' \in History
    BY <1>0, <2>1, DisturbKeeps
  <2> QED
    BY <1>0, <1>1, <1>2, <2>2, <2>3 DEF Obey, CallsOK
<1>3. CASE ObeyLate
  <2>1. PICK command \in Commands : Land(command) /\ Disturb(command.key)
    BY <1>3 DEF ObeyLate
  <2>2. DeliveryOK' /\ out' = out
    BY <1>0, <2>1, LandKeeps
  <2>3. history' \in History
    BY <1>0, <2>1, DisturbKeeps
  <2> QED
    BY <1>0, <1>1, <1>3, <2>2, <2>3 DEF ObeyLate, CallsOK
<1>4. CASE RemoteControl
  <2>1. PICK key \in OtherKeys : \E value \in Domain(key) :
          dev' = [dev EXCEPT ![key] = value] /\ Disturb(key)
    BY <1>4 DEF RemoteControl
  <2>2. PICK value \in Domain(key) : dev' = [dev EXCEPT ![key] = value]
    BY <2>1
  <2>3. key \in Keys /\ value \in Values
    BY EntityAssumption, DomainFacts
  <2>4. DeliveryOK'
    BY <1>0, <1>4, <2>2, <2>3 DEF RemoteControl, DeliveryOK, DeliveryTypeOK
  <2>5. history' \in History
    BY <1>0, <2>1, DisturbKeeps
  <2> QED
    BY <1>0, <1>1, <1>4, <2>4, <2>5, EventKeeps DEF RemoteControl
<1> QED
  BY <1>2, <1>3, <1>4 DEF Appliance

LEMMA PollsKeep ==
  ASSUME EntityInv, Polls
  PROVE  EntityInv'
<1>0. /\ DeliveryOK /\ CallsOK /\ history \in History /\ StatusOK /\ PollOK
  BY DEF EntityInv, CallsOK
<1>1. DeliveryOK' /\ UNCHANGED <<out, climate>>
  BY <1>0 DEF Polls, Read, Publish, deliveryVars, DeliveryOK, DeliveryTypeOK
<1>2. OrderInv'
  BY <1>1 DEF EntityInv, OrderInv, Quiet
<1>3. CASE Read
  <2>1. PICK hidden \in Hidden : poll' = [key \in Keys |-> IF key \in hidden THEN Absent ELSE dev[key]]
    BY <1>3 DEF Read
  <2>2. PollOK'
    BY <1>0, <2>1, DomainFacts DEF PollOK, Readings, DeliveryOK
  <2>3. StatusOK' /\ CallsOK'
    BY <1>0, <1>3 DEF Read, StatusOK, CallsOK
  <2> QED
    BY <1>1, <1>2, <2>2, <2>3, OthersKeep
<1>4. CASE Publish
  <2>1. PICK polled \in BOOLEAN : polled = (climate # Idle)
    OBVIOUS
  <2>2. history' = [history EXCEPT !.polled = polled]
    BY <1>4, <2>1 DEF Publish
  <2>3. CallsOK'
    BY <1>0, <1>4, <2>2 DEF Publish, CallsOK, History
  <2>4. StatusOK' /\ PollOK'
    BY <1>0, <1>4, DomainFacts DEF Publish, StatusOK, PollOK, NoPoll, Readings
  <2> QED
    BY <1>1, <1>2, <2>3, <2>4, OthersKeep
<1> QED
  BY <1>3, <1>4 DEF Polls

-----------------------------------------------------------------------------
(* What a climate call knows of the appliance, and what it shows *)

Written == "climate" \in taken
Known == climate.mode \in {dev.mode} \cup Unknown

\* While nobody else touches mode and power, each stage knows what the
\* appliance holds, but for a write of its own that failed.
CalmInv ==
  history.calm =>
    /\ climate.stage = "off" => dev.power = (IF Written THEN 0 ELSE Before) /\ Known
    /\ climate.stage = "mode" =>
         (IF Written THEN dev.mode = climate.value ELSE Known) /\ dev.power = Before
    /\ climate.stage = "power" =>
         dev.mode = climate.value /\ dev.power = (IF Written THEN 1 ELSE 0)
    /\ climate.stage = "undo" => /\ Written => dev.mode = climate.mode
                                 /\ ~history.doubt => dev.power = 0

\* Until a poll is published, each stage shows what it painted, and remembers
\* what was shown before.
ShownInv ==
  climate # Idle /\ ~history.polled =>
    /\ climate.power # Absent /\ (history.calm => climate.power = Before)
    /\ climate.stage = "off" => status.power = 0 /\ status.mode = climate.mode
    /\ climate.stage = "mode" => status.power = climate.power /\ status.mode = climate.value
    /\ climate.stage = "power" => status.power = 1 /\ status.mode = climate.value
    /\ climate.stage = "undo" => status.power = climate.power /\ status.mode = climate.mode

CallsInv == CalmInv /\ ShownInv

\* A step that is not the climate call's, and disturbs it no further than
\* "history" says.
LEMMA CallUndisturbed ==
  ASSUME EntityInv, CallsInv, UNCHANGED climate, "climate" \in taken' <=> "climate" \in taken,
         history'.doubt = history.doubt,
         history'.calm => history.calm /\ (climate = Idle \/ UNCHANGED <<dev.mode, dev.power>>),
         climate # Idle /\ ~history'.polled =>
           ~history.polled /\ UNCHANGED <<status.mode, status.power>>
  PROVE  CallsInv'
<1>1. Idle.stage = "idle"
  BY DEF Idle
<1>2. CalmInv'
  BY <1>1 DEF CallsInv, CalmInv, Known, Written, Before
<1>3. ShownInv'
  BY <1>1 DEF CallsInv, ShownInv, Before
<1> QED
  BY <1>2, <1>3 DEF CallsInv

LEMMA StartKnows ==
  ASSUME EntityInv, NEW stage, NEW key, NEW value,
         \/ stage = "off" /\ key = "power" /\ value = 0
         \/ stage = "mode" /\ key = "mode" /\ value \in Domain("mode"),
         StartClimate(stage, key, value)
  PROVE  CallsInv'
<1>1. /\ key \in Keys /\ value \in Domain(key) /\ value \in Nat /\ Text(value) = value
      /\ "mode" \in Keys /\ "power" \in Keys /\ "climate" \in Callers
  <2>1. key \in Keys /\ value \in Domain(key)
    BY DomainFacts
  <2>2. value \in Nat
    BY <2>1, DomainFacts
  <2> QED
    BY <2>1, <2>2, DomainFacts DEF Text
<1>2. dev' = dev /\ "climate" \notin taken'
  <2>1. Order(key, value) \in Commands /\ Open("climate", Order(key, value))
    BY <1>1, OrderFacts DEF StartClimate
  <2> QED
    BY <1>1, <2>1, OpenKeeps DEF EntityInv
<1>3. PICK wasOff \in BOOLEAN, calm \in BOOLEAN :
        /\ wasOff = (Number("power") = 0)
        /\ calm = (status.power = dev.power /\ status.mode \in {dev.mode} \cup Unknown)
        /\ climate' = [stage |-> stage, key |-> key, value |-> value, wasOff |-> wasOff,
                       mode |-> status.mode, power |-> status.power]
        /\ history' = [Nothing EXCEPT !.calm = calm]
  BY DEF StartClimate
<1>4. history'.calm = calm
  BY <1>3 DEF Nothing
<1>5. calm => status.power = (IF wasOff THEN 0 ELSE 1) /\ dev.power = status.power
  <2>1. Number("power") = IF status.power \in {-1, -2} THEN 0 ELSE status.power
    BY DomainFacts DEF Number
  <2>2. dev.power \in {0, 1}
    BY DomainFacts DEF EntityInv, DeliveryOK
  <2>3. (wasOff <=> Number("power") = 0) /\ (calm => status.power = dev.power)
    BY <1>3
  <2> QED
    BY <2>1, <2>2, <2>3
<1>6. CalmInv'
  BY <1>2, <1>3, <1>4, <1>5 DEF CalmInv, Known, Written, Before
<1>7. /\ status'[key] = value
      /\ \A other \in Keys \ {key} : status'[other] = status[other]
  <2>1. status' = Painted(key, value)
    BY DEF StartClimate
  <2> QED
    BY <1>1, <2>1, PaintedOK DEF EntityInv
<1>8. ShownInv'
  <2>1. status.power # Absent
    BY DEF StartClimate
  <2> QED
    BY <1>1, <1>3, <1>4, <1>5, <1>7, <2>1 DEF ShownInv, Before
<1> QED
  BY <1>6, <1>8 DEF CallsInv

LEMMA ClimateCallsKnow ==
  ASSUME EntityInv, ClimateCalls
  PROVE  CallsInv'
<1>1. ASSUME NEW code \in Domain("mode"), ApplyMode(code)
      PROVE  CallsInv'
  BY <1>1, StartKnows DEF ApplyMode
<1>2. HvacCodes \cup {0, Comfort} \subseteq Domain("mode")
  BY DomainFacts DEF Comfort
<1>3. ResumedMode \in Domain("mode")
  BY ResumedFacts, DomainFacts DEF EntityInv, StatusOK, Readings
<1>4. CASE TurnOff
  BY <1>4, StartKnows DEF TurnOff
<1>5. CASE SetMode \/ TurnOn \/ PresetComfort \/ PresetNone
  BY <1>1, <1>2, <1>3, <1>5 DEF SetMode, TurnOn, PresetComfort, PresetNone
<1> QED
  BY <1>4, <1>5 DEF ClimateCalls

LEMMA PowerOnKnows ==
  ASSUME EntityInv, CallsInv, PowerOn
  PROVE  CallsInv'
<1>1. /\ Order("power", 1) \in Commands /\ "power" \in Keys /\ "mode" \in Keys
      /\ "climate" \in Callers /\ 1 \in Domain("power") /\ Text(1) = 1
  BY DomainFacts, OrderFacts DEF Text
<1>2. dev' = dev /\ "climate" \in taken /\ "climate" \notin taken'
  BY <1>1, EndKeeps DEF EntityInv, PowerOn, Succeed
<1>3. /\ climate'.stage = "power" /\ climate'.value = climate.value
      /\ climate'.wasOff = climate.wasOff /\ climate'.power = status.power
      /\ climate.stage = "mode" /\ climate.wasOff /\ climate # Idle
  <2>1. climate \in Call /\ climate.stage = "mode" /\ climate.wasOff /\ climate # Idle
    BY CallFacts DEF EntityInv, PowerOn
  <2>2. climate' = [climate EXCEPT !.stage = "power", !.power = status.power]
    BY DEF PowerOn
  <2> QED
    BY <2>1, <2>2 DEF Call
<1>4. status'.power = 1 /\ status'.mode = status.mode
  <2>1. status' = Painted("power", 1)
    BY DEF PowerOn
  <2> QED
    BY <1>1, <2>1, PaintedOK DEF EntityInv
<1>5. history' = history
  BY DEF PowerOn
<1>6. CalmInv'
  BY <1>2, <1>3, <1>5 DEF CallsInv, CalmInv, Written, Before
<1>7. ShownInv'
  BY <1>3, <1>4, <1>5 DEF CallsInv, ShownInv, Before
<1> QED
  BY <1>6, <1>7 DEF CallsInv

LEMMA UndoModeKnows ==
  ASSUME EntityInv, CallsInv, UndoMode
  PROVE  CallsInv'
<1>0. /\ climate.mode \in Domain("mode") /\ climate.power \in Domain("power") \cup Unknown
      /\ climate \in Call /\ history \in History /\ climate # Idle
      /\ climate.stage = "power" /\ climate.mode \notin Unknown
  BY CallFacts DEF EntityInv, UndoMode
<1>1. /\ Order("mode", climate.mode) \in Commands /\ "mode" \in Keys /\ "power" \in Keys
      /\ "climate" \in Callers
  BY <1>0, DomainFacts, OrderFacts
<1>2. dev' = dev /\ "climate" \notin taken'
  BY <1>1, EndKeeps DEF EntityInv, UndoMode
<1>3. PICK doubt \in BOOLEAN : doubt = Suspect
  BY DEF Suspect
<1>4. history' = [history EXCEPT !.doubt = doubt] /\ climate' = [climate EXCEPT !.stage = "undo"]
  BY <1>3 DEF UndoMode, Goes
<1>5. /\ climate'.stage = "undo" /\ climate'.mode = climate.mode
      /\ climate'.wasOff = climate.wasOff /\ climate'.power = climate.power
      /\ history'.doubt = doubt /\ history'.calm = history.calm
      /\ history'.polled = history.polled
  BY <1>0, <1>4 DEF Call, History
<1>6. CalmInv'
  <2>1. ~doubt => "climate" \notin taken
    BY <1>3 DEF Suspect
  <2> QED
    BY <1>0, <1>2, <1>5, <2>1 DEF CallsInv, CalmInv, Written
<1>7. /\ status'.mode = climate.mode
      /\ climate.power # Absent => status'.power = climate.power
  <2>1. status' = [Painted("power", climate.power) EXCEPT !["mode"] = climate.mode]
    BY DEF UndoMode
  <2>2. /\ Painted("power", climate.power) \in Readings
        /\ Painted("power", climate.power)["power"] = Text(climate.power)
    BY <1>0, <1>1, PaintedOK DEF EntityInv
  <2> QED
    BY <1>0, <1>1, <2>1, <2>2 DEF Readings, Text
<1>8. ShownInv'
  BY <1>0, <1>5, <1>7 DEF CallsInv, ShownInv, Before
<1> QED
  BY <1>6, <1>8 DEF CallsInv

LEMMA ClosesKnow ==
  ASSUME Closes
  PROVE  CallsInv'
<1>1. climate' = Idle /\ Idle.stage = "idle"
  BY DEF Closes, ClimateOk, WriteFails, CannotUndo, Undone, UndoFails, ClimateCancelled, Ends, Idle
<1> QED
  BY <1>1 DEF CallsInv, CalmInv, ShownInv

LEMMA OthersKnow ==
  ASSUME EntityInv, CallsInv, Others
  PROVE  CallsInv'
<1>0. /\ StatusOK /\ CallsOK /\ Domain("aux") = AuxValues /\ Keys = {"power", "mode", "aux"}
      /\ Callers = {"climate", "entity", "service"} /\ DeliveryOK
      /\ entity.previous \in AuxValues \cup Unknown
  BY DomainFacts DEF EntityInv, CallsOK
<1>1. UNCHANGED <<climate, history>>
  BY DEF Others, SelectOption, StartWrite, StartPress, EntitySteps, EntityOk, EntityFails,
         EntityEnds, EntityCancelled, StartService, ServiceEnds, entityVars
<1>2. dev' = dev /\ ("climate" \in taken' <=> "climate" \in taken)
  <2>1. ASSUME NEW t \in {"entity", "service"}, NEW command \in Commands, Open(t, command)
        PROVE  dev' = dev /\ ("climate" \in taken' <=> "climate" \in taken)
    BY <1>0, <2>1, OpenKeeps
  <2>2. ASSUME NEW t \in {"entity", "service"}, Succeed(t, NoCommand) \/ Fail(t, NoCommand)
        PROVE  dev' = dev /\ ("climate" \in taken' <=> "climate" \in taken)
    BY <1>0, <2>2, EndKeeps
  <2>3. CASE SelectOption \/ StartPress
    <3>1. \E value \in AuxValues : Open("entity", Order("aux", value))
      BY <2>3 DEF SelectOption, StartWrite, StartPress, AuxValues
    <3> QED
      BY <1>0, <2>1, <3>1, OrderFacts
  <2>4. CASE EntitySteps \/ EntityCancelled
    BY <2>2, <2>4 DEF EntitySteps, EntityOk, EntityFails, EntityCancelled
  <2>5. CASE StartService
    BY <2>1, <2>5, OrderFacts, EntityAssumption DEF StartService
  <2>6. CASE ServiceEnds
    BY <2>2, <2>6 DEF ServiceEnds
  <2> QED
    BY <2>3, <2>4, <2>5, <2>6 DEF Others
<1>3. UNCHANGED <<status.mode, status.power>>
  <2>1. \/ status' = status
        \/ \E value \in AuxValues \cup Unknown : status' = Painted("aux", value)
    <3>1. CASE SelectOption
      BY <3>1 DEF SelectOption, StartWrite, AuxValues
    <3>2. CASE EntityOk
      <4>1. out["entity"] \in Commands /\ ~Quiet("entity")
        BY <1>0, <3>2, EndKeeps DEF EntityOk, Succeed, Leave
      <4>2. out["entity"].value \in AuxValues
        BY <1>0, <4>1, CommandFacts DEF EntityInv, OrderInv
      <4> QED
        BY <3>2, <4>2 DEF EntityOk, EntityEnds
    <3>3. CASE EntityFails
      BY <1>0, <3>3 DEF EntityFails, EntityEnds
    <3>4. CASE StartPress \/ EntityCancelled \/ StartService \/ ServiceEnds
      BY <3>4 DEF StartPress, EntityCancelled, StartService, ServiceEnds, entityVars
    <3> QED
      BY <3>1, <3>2, <3>3, <3>4 DEF Others, EntitySteps
  <2> QED
    BY <1>0, <2>1, PaintedOK
<1> QED
  BY <1>1, <1>2, <1>3, CallUndisturbed

LEMMA DisturbIs ==
  ASSUME CallsOK, NEW key, Disturb(key)
  PROVE  /\ history'.doubt = history.doubt /\ history'.polled = history.polled
         /\ history'.calm => history.calm /\ (key = "aux" \/ climate = Idle)
<1>1. PICK calm \in BOOLEAN : calm = (history.calm /\ (key = "aux" \/ climate = Idle))
  BY CallFacts
<1>2. history' = [history EXCEPT !.calm = calm]
  BY <1>1 DEF Disturb
<1> QED
  BY <1>1, <1>2, CallFacts DEF History

LEMMA ApplianceKnows ==
  ASSUME EntityInv, CallsInv, Appliance
  PROVE  CallsInv'
<1>0. /\ Callers = {"climate", "entity", "service"} /\ Keys = {"power", "mode", "aux"}
      /\ DeliveryOK /\ CallsOK
  BY DomainFacts DEF EntityInv
<1>1. UNCHANGED <<status, climate>>
  BY DEF Appliance, Obey, ObeyLate, RemoteControl
<1>2. ASSUME "climate" \in taken' <=> "climate" \in taken, NEW key, Disturb(key),
             \A other \in Keys : other # key => dev'[other] = dev[other]
      PROVE  CallsInv'
  BY <1>0, <1>1, <1>2, DisturbIs, CallUndisturbed
<1>3. ASSUME Take("climate"), UNCHANGED history
      PROVE  CallsInv'
  <2>1. /\ "climate" \in taken' /\ dev'[out["climate"].key] = out["climate"].value
        /\ \A key \in Keys : key # out["climate"].key => dev'[key] = dev[key]
    BY <1>0, <1>3, TakeKeeps
  <2>2. \A key \in Keys, value \in Values :
          Order(key, value).key = key /\ Order(key, value).value = value
    BY DEF Order
  <2>3. StageInv /\ climate.value \in Values /\ 0 \in Values /\ 1 \in Values
        /\ climate.mode \in Values \cup Unknown
    BY <1>0, CallFacts, DomainFacts DEF EntityInv
  <2>4. /\ climate.stage = "off" => dev'.power = 0 /\ dev'.mode = dev.mode
        /\ climate.stage = "mode" => dev'.mode = climate.value /\ dev'.power = dev.power
        /\ climate.stage = "power" => dev'.power = 1 /\ dev'.mode = dev.mode
        /\ climate.stage = "undo" => dev'.mode = climate.mode /\ dev'.power = dev.power
    BY <1>0, <2>1, <2>2, <2>3 DEF StageInv
  <2>5. CalmInv'
    BY <1>1, <1>3, <2>1, <2>4 DEF CallsInv, CalmInv, Known, Written, Before
  <2>6. ShownInv'
    BY <1>1, <1>3 DEF CallsInv, ShownInv, Before
  <2> QED
    BY <2>5, <2>6 DEF CallsInv
<1>4. CASE Obey
  <2>1. PICK t \in Callers :
          Take(t) /\ IF t = "service" THEN Disturb(out[t].key) ELSE UNCHANGED history
    BY <1>4 DEF Obey
  <2>2. CASE t = "climate"
    BY <1>3, <2>1, <2>2
  <2>3. CASE t = "service"
    BY <1>0, <1>2, <2>1, <2>3, TakeKeeps
  <2>4. CASE t = "entity"
    <3>1. ~Quiet("entity")
      BY <2>1, <2>4 DEF Take
    <3>2. out["entity"].key = "aux"
      BY <3>1 DEF EntityInv, OrderInv
    <3>3. /\ UNCHANGED <<dev.mode, dev.power, history>>
          /\ "climate" \in taken' <=> "climate" \in taken
      BY <1>0, <2>1, <2>4, <3>2, TakeKeeps
    <3> QED
      BY <1>1, <3>3, CallUndisturbed
  <2> QED
    BY <1>0, <2>2, <2>3, <2>4
<1>5. CASE ObeyLate
  <2>1. PICK command \in Commands : Land(command) /\ Disturb(command.key)
    BY <1>5 DEF ObeyLate
  <2> QED
    BY <1>0, <1>2, <2>1, LandKeeps
<1>6. CASE RemoteControl
  <2>1. PICK key \in OtherKeys : \E value \in Domain(key) :
          dev' = [dev EXCEPT ![key] = value] /\ Disturb(key)
    BY <1>6 DEF RemoteControl
  <2>2. \A other \in Keys : other # key => dev'[other] = dev[other]
    BY <1>0, <2>1 DEF DeliveryOK, DeliveryTypeOK
  <2>3. taken' = taken
    BY <1>6 DEF RemoteControl
  <2> QED
    BY <1>2, <2>1, <2>2, <2>3
<1> QED
  BY <1>4, <1>5, <1>6 DEF Appliance

LEMMA PollsKnow ==
  ASSUME EntityInv, CallsInv, Polls
  PROVE  CallsInv'
<1>1. UNCHANGED <<dev, taken, climate>>
  BY DEF Polls, Read, Publish, deliveryVars
<1>2. CASE Read
  BY <1>1, <1>2, CallUndisturbed DEF Read
<1>3. CASE Publish
  <2>1. PICK polled \in BOOLEAN : polled = (climate # Idle)
    OBVIOUS
  <2>2. history' = [history EXCEPT !.polled = polled] /\ history \in History
    BY <1>3, <2>1, CallFacts DEF Publish, EntityInv
  <2>3. history'.calm = history.calm /\ history'.doubt = history.doubt /\ history'.polled = polled
    BY <2>2 DEF History
  <2> QED
    BY <1>1, <2>1, <2>3, CallUndisturbed
<1> QED
  BY <1>2, <1>3 DEF Polls

-----------------------------------------------------------------------------
(* The theorems *)

LEMMA EntityStarts == Init => EntityInv
<1> SUFFICES ASSUME Init
             PROVE  EntityInv
  OBVIOUS
<1>1. DeliveryOK /\ \A t \in Callers : out[t] = NoCommand
  BY DomainFacts DEF Init, DeliveryInit, DeliveryOK, DeliveryTypeOK
<1>2. StatusOK
  <2>1. PICK hidden \in Hidden : status = [key \in Keys |-> IF key \in hidden THEN Absent ELSE dev[key]]
    BY DEF Init
  <2> QED
    BY <1>1, <2>1, DomainFacts DEF StatusOK, Readings, DeliveryOK
<1>3. PollOK
  BY DomainFacts DEF Init, PollOK, NoPoll, Readings
<1>4. CallsOK
  <2>1. entity \in [stage : {"write", "press", "ended"}, previous : AuxValues \cup Unknown]
    BY DomainFacts DEF Init
  <2> QED
    BY <2>1, IdleOK, EntityAssumption DEF Init, CallsOK
<1>5. OrderInv
  BY <1>1, DomainFacts DEF OrderInv, Quiet
<1>6. StageInv
  <2>1. Idle.stage = "idle" /\ Idle.value = 0 /\ 0 \in Domain("mode")
    BY DomainFacts DEF Idle
  <2> QED
    BY <2>1 DEF StageInv, Init
<1> QED
  BY <1>1, <1>2, <1>3, <1>4, <1>5, <1>6 DEF EntityInv

LEMMA EntityIdles ==
  ASSUME EntityInv, UNCHANGED vars
  PROVE  EntityInv'
<1>1. UNCHANGED <<dev, out, taken, late, status, poll, climate, entity, events, history>>
  BY DEF vars, deliveryVars, entityVars
<1>2. DeliveryOK' /\ StatusOK' /\ PollOK' /\ CallsOK'
  BY <1>1 DEF EntityInv, DeliveryOK, DeliveryTypeOK, StatusOK, PollOK, CallsOK
<1>3. OrderInv'
  BY <1>1 DEF EntityInv, OrderInv, Quiet
<1> QED
  BY <1>1, <1>2, <1>3, OthersKeep

LEMMA EntityKept ==
  ASSUME EntityInv, [Next]_vars
  PROVE  EntityInv'
<1>1. CASE ClimateSteps \/ ClimateCancelled
  BY <1>1, PowerOnKeeps, UndoModeKeeps, ClosesKeep DEF ClimateSteps, Closes
<1> QED
  BY <1>1, PollsKeep, ClimateCallsKeep, OthersKept, ApplianceKeeps, EntityIdles DEF Next

LEMMA EntityHolds == Spec => []EntityInv
<1>1. EntityInv /\ [Next]_vars => EntityInv'
  BY EntityKept
<1> QED
  BY <1>1, EntityStarts, PTL DEF Spec

\* Whatever the calls write, what they paint and remember are readings of the
\* register they are for: a rollback never paints one register's value into
\* another, nor a value the appliance cannot hold (entity.py 117-126,
\* climate.py 251-277).
THEOREM EntityTyped == Spec => []TypeOK
<1>1. EntityInv => TypeOK
  BY DEF EntityInv, TypeOK, DeliveryOK, StatusOK, PollOK, CallsOK, Call, History
<1> QED
  BY <1>1, EntityHolds, PTL

\* A set point that is shown is one the select offers, for any range the
\* descriptor gives, whichever poll, write or rollback showed it
\* (select.py 78-90, 110-131).
THEOREM SelectShowsOffered == Spec => []SelectTrue
<1>1. EntityInv => SelectTrue
  <2>1. EntityInv => status.aux \in AuxValues \cup Unknown
    BY DomainFacts DEF EntityInv, StatusOK
  <2> QED
    BY <2>1, AuxFacts DEF SelectTrue
<1> QED
  BY <1>1, EntityHolds, PTL

LEMMA CallsHold == Spec => [](EntityInv /\ CallsInv)
<1>1. Init => CallsInv
  BY DEF Init, CallsInv, CalmInv, ShownInv, Idle
<1>2. EntityInv /\ CallsInv /\ [Next]_vars => CallsInv'
  <2> SUFFICES ASSUME EntityInv, CallsInv, [Next]_vars
               PROVE  CallsInv'
    OBVIOUS
  <2>1. CASE ClimateSteps \/ ClimateCancelled
    BY <2>1, PowerOnKnows, UndoModeKnows, ClosesKnow DEF ClimateSteps, Closes
  <2>2. CASE UNCHANGED vars
    BY <2>2, CallUndisturbed DEF vars, deliveryVars, entityVars
  <2> QED
    BY <2>1, <2>2, PollsKnow, ClimateCallsKnow, OthersKnow, ApplianceKnows DEF Next
<1> QED
  BY <1>1, <1>2, EntityHolds, PTL DEF Spec

\* How a climate call that is not cancelled returns.
LEMMA ReturnedHow ==
  ASSUME EntityInv, Next, Returned
  PROVE  ClimateOk \/ WriteFails \/ CannotUndo \/ Undone \/ UndoFails
<1>0. climate' = Idle /\ climate # Idle /\ events' = events /\ Idle.stage = "idle"
  BY DEF Returned, Idle
<1>1. ~Polls /\ ~Appliance
  BY <1>0 DEF Polls, Read, Publish, Appliance, Obey, ObeyLate, RemoteControl
<1>2. ~Others
  BY <1>0 DEF Others, SelectOption, StartWrite, StartPress, EntitySteps, EntityOk, EntityFails,
         EntityEnds, EntityCancelled, StartService, ServiceEnds, entityVars
<1>3. ~ClimateCalls
  BY <1>0 DEF ClimateCalls, TurnOff, SetMode, TurnOn, PresetComfort, PresetNone, ApplyMode,
         StartClimate
<1>4. ~ClimateCancelled
  BY <1>0, CallFacts, EntityAssumption DEF EntityInv, ClimateCancelled, Event
<1>5. ~PowerOn /\ ~UndoMode
  <2>1. \A c \in Call : /\ [c EXCEPT !.stage = "power"].stage = "power"
                        /\ [c EXCEPT !.stage = "undo"].stage = "undo"
    BY DEF Call
  <2>2. \A c \in Call : [c EXCEPT !.stage = "power", !.power = status.power].stage = "power"
    BY DEF Call
  <2> QED
    BY <1>0, <2>1, <2>2, CallFacts DEF EntityInv, PowerOn, UndoMode, Goes
<1> QED
  BY <1>1, <1>2, <1>3, <1>4, <1>5 DEF Next, ClimateSteps

\* What holds when the call returns, if nobody else disturbed it.
LEMMA ReturnedKnows ==
  ASSUME EntityInv, CallsInv, Next, Returned, history.calm
  PROVE  IF ClimateOk THEN Achieved ELSE Restored
<1>0. StageInv /\ CalmInv /\ climate.wasOff \in BOOLEAN
  BY CallFacts DEF EntityInv, CallsInv
<1>1. CASE ClimateOk
  <2>1. "climate" \in taken /\ (climate.stage \in {"off", "power"} \/
                                (climate.stage = "mode" /\ ~climate.wasOff))
    BY <1>1 DEF ClimateOk, Succeed
  <2>2. Achieved
    BY <1>0, <2>1 DEF StageInv, CalmInv, Written, Before, Achieved
  <2> QED
    BY <1>1, <2>2
<1>2. CASE ~ClimateOk
  <2>1. CASE WriteFails
    <3>1. climate.stage \in {"off", "mode"}
      BY <2>1 DEF WriteFails
    <3>2. ~Doubtful => climate.mode \notin Unknown /\ "climate" \notin taken
      BY <3>1 DEF Doubtful, Suspect
    <3> QED
      BY <1>0, <1>2, <3>1, <3>2 DEF CalmInv, Written, Known, Restored
  <2>2. CASE CannotUndo
    BY <1>2, <2>2 DEF CannotUndo, Restored, Doubtful
  <2>3. CASE Undone \/ UndoFails
    <3>1. climate.stage = "undo"
      BY <2>3 DEF Undone, UndoFails
    <3>2. ~Doubtful => ~history.doubt /\ "climate" \in taken
      BY <3>1 DEF Doubtful
    <3> QED
      BY <1>0, <1>2, <3>1, <3>2 DEF StageInv, CalmInv, Written, Before, Restored
  <2> QED
    BY <1>2, <2>1, <2>2, <2>3, ReturnedHow
<1> QED
  BY <1>1, <1>2

\* What is shown when the call returns, if no poll was published meanwhile.
LEMMA ReturnedShows ==
  ASSUME EntityInv, CallsInv, Next, Returned, ~history.polled
  PROVE  /\ ClimateOk => UNCHANGED status
         /\ ~ClimateOk => /\ status'.power = climate.power
                          /\ status'.mode = Text(climate.mode)
                             \/ (climate.stage \in {"off", "undo"} /\ status'.mode = climate.mode)
<1>0. /\ climate # Idle /\ StageInv /\ ShownInv /\ StatusOK /\ "mode" \in Keys /\ "power" \in Keys
      /\ climate.mode \in Domain("mode") \cup Unknown
      /\ climate.power \in Domain("power") \cup Unknown
      /\ climate["mode"] = climate.mode /\ climate["power"] = climate.power
      /\ climate.power # Absent /\ Text(climate.power) = climate.power
  BY CallFacts, DomainFacts DEF EntityInv, CallsInv, ShownInv, Returned, Text
<1>1. CASE ClimateOk
  BY <1>1 DEF ClimateOk
<1>2. CASE WriteFails
  <2>1. climate.stage \in {"off", "mode"} /\ status' = Painted(climate.key, climate[climate.key])
    BY <1>2 DEF WriteFails
  <2>2. CASE climate.stage = "off"
    BY <1>0, <2>1, <2>2, PaintedOK, <1>1 DEF StageInv, ShownInv
  <2>3. CASE climate.stage = "mode"
    BY <1>0, <2>1, <2>3, PaintedOK, <1>1 DEF StageInv, ShownInv
  <2> QED
    BY <2>1, <2>2, <2>3
<1>3. CASE CannotUndo
  <2>1. status' = [Painted("power", climate.power) EXCEPT !["mode"] = NoneText]
    BY <1>3 DEF CannotUndo
  <2>2. Text(climate.mode) = NoneText
    BY <1>3, DomainFacts DEF CannotUndo, Text
  <2> QED
    BY <1>0, <1>1, <2>1, <2>2, PaintedOK DEF Readings
<1>4. CASE Undone
  BY <1>0, <1>1, <1>4 DEF Undone, ShownInv
<1>5. CASE UndoFails
  BY <1>0, <1>1, <1>5, PaintedOK DEF UndoFails, ShownInv
<1> QED
  BY <1>1, <1>2, <1>3, <1>4, <1>5, ReturnedHow

\* A climate call that nobody disturbs does all it commands or, unless a
\* write that failed may have been obeyed, nothing (climate.py 251-277).
THEOREM CallIsAllOrNothing == Spec => AllOrNothing
<1>1. EntityInv /\ CallsInv /\ [Next]_vars =>
        [Returned /\ history.calm => IF ClimateOk THEN Achieved ELSE Restored]_vars
  BY ReturnedKnows
<1> QED
  BY <1>1, CallsHold, PTL DEF Spec, AllOrNothing

\* A climate call that fails shows what was shown before it, and one that
\* leaves no doubt what the appliance holds (entity.py 117-126,
\* climate.py 257-277).
THEOREM CallShowsTrue == Spec => ShownTrue
<1> DEFINE Shows ==
      Returned /\ ~history.polled =>
        /\ ClimateOk \/ (/\ status'.power = climate.power
                         /\ status'.mode \in {climate.mode, Text(climate.mode)})
        /\ history.calm /\ ((ClimateOk /\ climate.key = "mode") \/ ~Doubtful) =>
             (ShowsDevice("power") /\ ShowsDevice("mode"))'
<1>1. ASSUME EntityInv, CallsInv, Next, Returned, ~history.polled
      PROVE  Shows
  <2>0. /\ StageInv /\ CalmInv /\ ShownInv /\ climate.wasOff \in BOOLEAN /\ climate # Idle
        /\ climate.mode \in Domain("mode") \cup Unknown
    BY <1>1, CallFacts DEF EntityInv, CallsInv, Returned
  <2>1. dev' = dev
    <3>1. Succeed("climate", NoCommand) \/ Fail("climate", NoCommand)
      BY <1>1, ReturnedHow DEF ClimateOk, WriteFails, CannotUndo, Undone, UndoFails
    <3> QED
      BY <3>1, <1>1, EndKeeps, DomainFacts DEF EntityInv
  <2>2. ~ClimateOk => /\ status'.power = climate.power
                      /\ status'.mode \in {climate.mode, Text(climate.mode)}
    BY <1>1, ReturnedShows
  <2>3. ASSUME history.calm, ClimateOk, climate.key = "mode"
        PROVE  (ShowsDevice("power") /\ ShowsDevice("mode"))'
    <3>1. status' = status /\ Achieved
      BY <1>1, <2>3, ReturnedShows, ReturnedKnows
    <3>2. climate.stage = "power" \/ (climate.stage = "mode" /\ ~climate.wasOff)
      BY <2>0, <2>3 DEF ClimateOk, StageInv
    <3> QED
      BY <1>1, <2>0, <2>1, <2>3, <3>1, <3>2 DEF Achieved, ShownInv, Before, ShowsDevice
  <2>4. ASSUME history.calm, ~Doubtful
        PROVE  (ShowsDevice("power") /\ ShowsDevice("mode"))'
    <3>1. climate.mode \notin Unknown /\ Text(climate.mode) = climate.mode
      BY <2>4, DomainFacts DEF Doubtful, Text
    <3>2. CASE ClimateOk /\ climate.key = "mode"
      BY <2>3, <2>4, <3>2
    <3>3. CASE ClimateOk /\ climate.key # "mode"
      <4>1. climate.stage = "off" /\ "climate" \in taken
        BY <2>0, <3>3 DEF ClimateOk, StageInv, Succeed
      <4>2. status' = status
        BY <1>1, <3>3, ReturnedShows
      <4> QED
        BY <1>1, <2>0, <2>1, <2>4, <3>1, <4>1, <4>2
           DEF CalmInv, ShownInv, Written, Known, ShowsDevice
    <3>4. CASE ~ClimateOk
      <4>1. dev.mode = climate.mode /\ dev.power = Before
        BY <1>1, <2>4, <3>4, ReturnedKnows DEF Restored
      <4>2. climate.power = Before
        BY <1>1, <2>0, <2>4 DEF ShownInv
      <4> QED
        BY <2>1, <2>2, <3>1, <3>4, <4>1, <4>2 DEF ShowsDevice
    <3> QED
      BY <3>2, <3>3, <3>4
  <2> QED
    BY <2>2, <2>3, <2>4
<1>2. EntityInv /\ CallsInv /\ [Next]_vars => [Shows]_vars
  BY <1>1 DEF Shows
<1> QED
  BY <1>2, CallsHold, PTL DEF Spec, ShownTrue, Shows
=============================================================================
