-------------------------- MODULE DevicePollProofs --------------------------
(***************************************************************************)
(* Proofs about DevicePoll, for any set of addresses, any set of modes and *)
(* any cooldown.                                                           *)
(***************************************************************************)
EXTENDS DevicePoll, TLAPS

-----------------------------------------------------------------------------
\* The parts that end or suspend a step keep the control flow well typed.
LEMMA FlowSteps ==
  ASSUME FlowTypeOK
  PROVE  /\ \A label \in Labels : Await(label) => FlowTypeOK'
         /\ \A s \in Sites : FetchAt(s) => FlowTypeOK'
         /\ \A e \in Errors : Raise(e) => FlowTypeOK'
         /\ \A p \in Paths : Publish(p) => FlowTypeOK'
         /\ UpdateFailed => FlowTypeOK'
         /\ KeepLastData => FlowTypeOK'
         /\ \A s \in Sites : CloudOrOffline(s) => FlowTypeOK'
<1> USE DEF FlowTypeOK
<1>1. \A label \in Labels : Await(label) => FlowTypeOK'
  BY DEF Await
<1>2. \A s \in Sites : FetchAt(s) => FlowTypeOK'
  BY DEF FetchAt, Labels, Errors
<1>3. \A e \in Errors : Raise(e) => FlowTypeOK'
  BY DEF Raise, Labels
<1>4. \A p \in Paths : Publish(p) => FlowTypeOK'
  BY DEF Publish, Labels, Sites, Errors, ControlModes
<1>5. UpdateFailed => FlowTypeOK'
  BY DEF UpdateFailed, Labels, Sites, Errors, ControlModes
<1>6. KeepLastData => FlowTypeOK'
  BY DEF KeepLastData, Labels, Sites, Errors, ControlModes
<1>7. \A s \in Sites : CloudOrOffline(s) => FlowTypeOK'
  BY <1>2, <1>4 DEF CloudOrOffline, Paths
<1> HIDE DEF FlowTypeOK
<1> QED
  BY <1>1, <1>2, <1>3, <1>4, <1>5, <1>6, <1>7

\* A new closure starts with a well typed flow and clocks in their bounds.
LEMMA StartedSetup ==
  ASSUME TypeOK, StartSetup
  PROVE  /\ FlowTypeOK'
         /\ host' \in Addresses /\ lan' \in BOOLEAN /\ ctl' \in BOOLEAN
         /\ cloudOnly' \in BOOLEAN /\ probed' \in BOOLEAN
         /\ scanAge' \in 0..ScanCooldown /\ reloadAge' \in 0..ReloadGap
         /\ due' \in BOOLEAN /\ glitched' \in BOOLEAN
<1>1. FlowTypeOK'
  BY DEF StartSetup, FlowTypeOK, Labels, Sites, Errors, Paths, ControlModes
<1>2. host' \in Addresses
  BY DEF StartSetup, TypeOK
<1>3. scanAge' \in 0..ScanCooldown /\ reloadAge' \in 0..ReloadGap
  BY ClockAssumption DEF StartSetup
<1>4. /\ lan' \in BOOLEAN /\ ctl' \in BOOLEAN /\ cloudOnly' \in BOOLEAN
      /\ probed' \in BOOLEAN /\ due' \in BOOLEAN /\ glitched' \in BOOLEAN
  BY DEF StartSetup
<1> QED
  BY <1>1, <1>2, <1>3, <1>4

\* So does a new poll closure.
LEMMA CreatedCoordinator ==
  ASSUME NEW reached \in BOOLEAN, NEW rediscovered \in BOOLEAN,
         CreateCoordinator(reached, rediscovered)
  PROVE  /\ lan' \in BOOLEAN /\ ctl' \in BOOLEAN /\ probed' \in BOOLEAN
         /\ scanAge' \in 0..ScanCooldown /\ reloadAge' \in 0..ReloadGap
         /\ reload' = reload
BY ClockAssumption DEF CreateCoordinator

\* Asking for a probe reload adds to the pending reloads and restarts their clock.
LEMMA ScheduledReload ==
  ASSUME TypeOK, ScheduleProbeReload
  PROVE  reload' \subseteq {"probe", "options"} /\ reloadAge' \in 0..ReloadGap
<1>1. \/ reload' = reload \cup {"probe"} /\ reloadAge' = 0
      \/ UNCHANGED <<reload, reloadAge>>
  BY Zenon DEF ScheduleProbeReload, gapVars
<1>2. reload \subseteq {"probe", "options"} /\ reloadAge \in 0..ReloadGap
  BY Zenon DEF TypeOK
<1>3. reload' \subseteq {"probe", "options"}
  BY <1>1, <1>2
<1>4. reloadAge' \in 0..ReloadGap
  BY <1>1, <1>2, ClockAssumption
<1> QED
  BY <1>3, <1>4

\* What follows the port check keeps the flow, the flags and the reload clock typed.
LEMMA OpenedOrClosed ==
  ASSUME TypeOK, PortOpened \/ PortClosed
  PROVE  /\ lan' \in BOOLEAN /\ ctl' \in BOOLEAN
         /\ reload' \subseteq {"probe", "options"} /\ reloadAge' \in 0..ReloadGap
<1>1. lan' \in BOOLEAN /\ ctl' \in BOOLEAN
  BY Zenon DEF PortOpened, PortClosed, TypeOK
<1>2. ScheduleProbeReload \/ UNCHANGED gapVars
  BY Zenon DEF PortOpened, PortClosed
<1> QED
  BY <1>1, <1>2, ScheduledReload DEF TypeOK, gapVars

\* The mode a read begins with is a control mode.
LEMMA FetchedMode ==
  ASSUME TypeOK, FetchStatus
  PROVE  fmode' \in {"local", "hybrid", "cloud"}
<1>1. entry.mode \in {"local", "hybrid", "cloud"}
  BY DEF TypeOK, ControlModes
<1> QED
  BY <1>1 DEF FetchStatus, ControlMode

\* What changes the stored entry inside the integration keeps its type.
LEMMA EntryTypes ==
  ASSUME TypeOK
  PROVE  /\ HealStickyCloudOnly(entry)
              \in [host: Addresses, cloudOnly: BOOLEAN, mode: ControlModes]
         /\ \A found \in Addresses :
              RebindingHost(found) =>
                /\ host' \in Addresses
                /\ entry' \in [host: Addresses, cloudOnly: BOOLEAN, mode: ControlModes]
<1>1. HealStickyCloudOnly(entry)
        \in [host: Addresses, cloudOnly: BOOLEAN, mode: ControlModes]
  BY DEF TypeOK, HealStickyCloudOnly, ControlModes
<1>2. ASSUME NEW found \in Addresses, RebindingHost(found)
      PROVE  /\ host' \in Addresses
             /\ entry' \in [host: Addresses, cloudOnly: BOOLEAN, mode: ControlModes]
  BY <1>2 DEF TypeOK, RebindingHost
<1> QED
  BY <1>1, <1>2

-----------------------------------------------------------------------------
\* Every variable of a device entry keeps its type.
THEOREM TypeCorrect == Spec => []TypeOK
<1>1. Init => TypeOK
  <2> SUFFICES ASSUME Init PROVE TypeOK
    OBVIOUS
  <2>1. FlowTypeOK
    BY DEF Init, FlowTypeOK, Labels, Sites, Errors, Paths, ControlModes
  <2>2. entry \in [host: Addresses, cloudOnly: BOOLEAN, mode: ControlModes]
    BY ConfigAssumption DEF Init, StoredEntries, Addresses, ControlModes
  <2>3. chosen \in Choices /\ host \in Addresses
    BY <2>2 DEF Init, Choices
  <2>4. scanAge \in 0..ScanCooldown /\ reloadAge \in 0..ReloadGap
    BY ClockAssumption DEF Init
  <2>5. hasCloud \in BOOLEAN /\ reload \subseteq {"probe", "options"}
    BY ConfigAssumption DEF Init
  <2> QED
    BY <2>1, <2>2, <2>3, <2>4, <2>5 DEF Init, TypeOK
<1>2. TypeOK /\ [Next]_vars => TypeOK'
  <2> SUFFICES ASSUME TypeOK, [Next]_vars PROVE TypeOK'
    OBVIOUS
  <2>0. FlowTypeOK
    BY DEF TypeOK
  <2> USE HostsAssumption, ConfigAssumption, ClockAssumption
  <2> USE DEF envVars, confVars, lanVars, bootVars, gapVars
  <2>1. CASE RecoverLan
    <3>1. FlowTypeOK'
      BY <2>1, <2>0, FlowSteps DEF RecoverLan, Labels
    <3>2. PICK found \in Addresses :
            /\ Lookup(found)
            /\ \/ /\ host' = module
                  /\ entry' = [host |-> module, cloudOnly |-> FALSE,
                               mode |-> IF entry.mode = "cloud" THEN "hybrid"
                                        ELSE entry.mode]
                  /\ UNCHANGED <<lan, ctl, bootVars, gapVars, scanAge>>
               \/ /\ entry' = [entry EXCEPT !.mode = "cloud"]
                  /\ cloudOnly' = TRUE
                  /\ CreateCoordinator(FALSE, FALSE)
                  /\ UNCHANGED host
      BY <2>1, Zenon DEF RecoverLan
    <3>3. host' \in Addresses
          /\ entry' \in [host: Addresses, cloudOnly: BOOLEAN, mode: ControlModes]
      <4>1. entry \in [host: Addresses, cloudOnly: BOOLEAN, mode: ControlModes]
            /\ host \in Addresses /\ module \in Addresses
        BY DEF TypeOK
      <4>2. CASE entry' = [entry EXCEPT !.mode = "cloud"] /\ UNCHANGED host
        BY <4>1, <4>2 DEF ControlModes
      <4>3. CASE /\ host' = module
                 /\ entry' = [host |-> module, cloudOnly |-> FALSE,
                              mode |-> IF entry.mode = "cloud" THEN "hybrid"
                                       ELSE entry.mode]
        BY <4>1, <4>3 DEF ControlModes
      <4> QED
        BY <3>2, <4>2, <4>3, Zenon
    <3>4. /\ lan' \in BOOLEAN /\ ctl' \in BOOLEAN /\ probed' \in BOOLEAN
          /\ cloudOnly' \in BOOLEAN
          /\ scanAge' \in 0..ScanCooldown /\ reloadAge' \in 0..ReloadGap
          /\ reload' \subseteq {"probe", "options"}
      BY <3>2, CreatedCoordinator, Zenon DEF TypeOK
    <3>5. cache' \in Addresses \cup {Unknown}
      BY <3>2 DEF Lookup, TypeOK
    <3> QED
      BY <2>1, <3>1, <3>3, <3>4, <3>5, Zenon DEF RecoverLan, TypeOK
  <2>2. CASE SetupProbeOk
    <3>1. FlowTypeOK'
      BY <2>2, <2>0, FlowSteps DEF SetupProbeOk, Labels
    <3> QED
      BY <2>2, <3>1, EntryTypes
         DEF SetupProbeOk, CreateCoordinator, TypeOK
  <2>3. CASE SetupProbeFails
    <3>1. FlowTypeOK'
      BY <2>3, <2>0, FlowSteps DEF SetupProbeFails, Labels
    <3>2. entry' \in [host: Addresses, cloudOnly: BOOLEAN, mode: ControlModes]
      BY <2>3, EntryTypes DEF SetupProbeFails, TypeOK
    <3>3. /\ host' \in Addresses
          /\ lan' \in BOOLEAN /\ ctl' \in BOOLEAN /\ probed' \in BOOLEAN
          /\ scanAge' \in 0..ScanCooldown /\ reloadAge' \in 0..ReloadGap
          /\ reload' \subseteq {"probe", "options"}
      BY <2>3, CreatedCoordinator, Zenon DEF SetupProbeFails, TypeOK
    <3> QED
      BY <2>3, <3>1, <3>2, <3>3, Zenon DEF SetupProbeFails, TypeOK
  <2>4. CASE SetupScan
    <3>1. FlowTypeOK'
      BY <2>4, <2>0, FlowSteps DEF SetupScan, Labels
    <3>2. PICK found \in Addresses :
            /\ Lookup(found)
            /\ \/ RebindingHost(found) /\ UNCHANGED <<lan, ctl, probed, gapVars, scanAge>>
               \/ /\ entry' = HealStickyCloudOnly(entry) /\ UNCHANGED host
                  /\ CreateCoordinator(FALSE, TRUE)
      BY <2>4, Zenon DEF SetupScan
    <3>3. host' \in Addresses
          /\ entry' \in [host: Addresses, cloudOnly: BOOLEAN, mode: ControlModes]
      BY <3>2, EntryTypes DEF TypeOK
    <3>4. /\ lan' \in BOOLEAN /\ ctl' \in BOOLEAN /\ probed' \in BOOLEAN
          /\ scanAge' \in 0..ScanCooldown /\ reloadAge' \in 0..ReloadGap
          /\ reload' \subseteq {"probe", "options"}
      BY <3>2, CreatedCoordinator, Zenon DEF TypeOK
    <3>5. cache' \in Addresses \cup {Unknown}
      BY <3>2 DEF Lookup, TypeOK
    <3> QED
      BY <2>4, <3>1, <3>3, <3>4, <3>5, Zenon DEF SetupScan, TypeOK
  <2>5. CASE SetupRetry
    <3>1. FlowTypeOK'
      BY <2>5, <2>0, StartedSetup DEF SetupRetry
    <3> QED
      BY <2>5, <3>1, StartedSetup
         DEF SetupRetry, TypeOK
  <2>6. ASSUME NEW why \in {"probe", "options"}, Reload(why)
        PROVE  TypeOK'
    <3>1. FlowTypeOK'
      BY <2>6, <2>0, StartedSetup DEF Reload
    <3> QED
      BY <2>6, <3>1, StartedSetup
         DEF Reload, TypeOK
  <2>7. CASE PollStart
    <3>1. FlowTypeOK'
      BY <2>7, <2>0, FlowSteps DEF PollStart, Labels, Sites
    <3> QED
      BY <2>7, <3>1
         DEF PollStart, TypeOK
  <2>8. CASE PortCheck
    <3>1. FlowTypeOK'
      BY <2>8, <2>0, FlowSteps
         DEF PortCheck, PortOpened, PortClosed, Labels, Sites
    <3>2. /\ lan' \in BOOLEAN /\ ctl' \in BOOLEAN
          /\ reload' \subseteq {"probe", "options"} /\ reloadAge' \in 0..ReloadGap
      <4>1. CASE module = host \/ ~RediscoverDue
        BY <2>8, <4>1, OpenedOrClosed DEF PortCheck
      <4>2. CASE ~(module = host \/ ~RediscoverDue)
        BY <2>8, <4>2, Zenon DEF PortCheck, TypeOK
      <4> QED
        BY <4>1, <4>2
    <3>3. scanAge' \in 0..ScanCooldown
      BY <2>8 DEF PortCheck, TypeOK
    <3> QED
      BY <2>8, <3>1, <3>2, <3>3, Zenon DEF PortCheck, TypeOK
  <2>9. CASE CheckScan
    <3>1. FlowTypeOK'
      BY <2>9, <2>0, FlowSteps
         DEF CheckScan, PortOpened, PortClosed, Sites
    <3>2. PICK found \in Addresses :
            /\ Lookup(found) /\ RebindingHost(found)
            /\ PortOpened \/ PortClosed
      BY <2>9, Zenon DEF CheckScan
    <3>3. host' \in Addresses
          /\ entry' \in [host: Addresses, cloudOnly: BOOLEAN, mode: ControlModes]
      BY <3>2, EntryTypes
    <3>4. reload' \subseteq {"probe", "options"} /\ reloadAge' \in 0..ReloadGap
      BY <3>2, OpenedOrClosed
    <3>5. lan' \in BOOLEAN /\ ctl' \in BOOLEAN
      BY <3>2, OpenedOrClosed
    <3>6. cache' \in Addresses \cup {Unknown}
      BY <3>2 DEF Lookup, TypeOK
    <3> QED
      BY <2>9, <3>1, <3>3, <3>4, <3>5, <3>6, Zenon DEF CheckScan, TypeOK
  <2>10. CASE FetchStatus
    <3>1. FlowTypeOK'
      BY <2>10, <2>0
         DEF FetchStatus, ControlMode, FlowTypeOK, TypeOK, Labels, Errors,
             ControlModes
    <3> QED
      BY <2>10, <3>1
         DEF FetchStatus, TypeOK
  <2>11. CASE LanReadOk
    <3>1. FlowTypeOK'
      BY <2>11, <2>0, FlowSteps DEF LanReadOk, ReadSucceeds, Paths
    <3> QED
      BY <2>11, <3>1
         DEF LanReadOk, ReadSucceeds, TypeOK
  <2>12. CASE LanReadTransport
    <3>1. FlowTypeOK'
      BY <2>12, <2>0, FlowSteps
         DEF LanReadTransport, LanReadFails, Labels, Errors
    <3> QED
      BY <2>12, <3>1
         DEF LanReadTransport, LanReadFails, TypeOK
  <2>13. CASE LanReadGlitch
    <3>1. FlowTypeOK'
      BY <2>13, <2>0, FlowSteps DEF LanReadGlitch, LanReadFails, Labels, Errors
    <3> QED
      BY <2>13, <3>1
         DEF LanReadGlitch, LanReadFails, TypeOK
  <2>14. CASE CloudReadOk
    <3>1. FlowTypeOK'
      BY <2>14, <2>0, FlowSteps DEF CloudReadOk, ReadSucceeds, Paths
    <3> QED
      BY <2>14, <3>1
         DEF CloudReadOk, ReadSucceeds, TypeOK
  <2>15. ASSUME NEW kind \in {"timeout", "offline", "error", "credentials"}, CloudReadFails(kind)
        PROVE  TypeOK'
    <3>1. FlowTypeOK'
      BY <2>15, <2>0, FlowSteps
         DEF CloudReadFails, ReadSucceeds, Paths, Errors
    <3> QED
      BY <2>15, <3>1
         DEF CloudReadFails, ReadSucceeds, TypeOK
  <2>16. CASE ExceptFails
    <3>1. FlowTypeOK'
      BY <2>16, <2>0, FlowSteps DEF ExceptFails
    <3> QED
      BY <2>16, <3>1
         DEF ExceptFails, TypeOK
  <2>17. CASE ExceptTransport
    <3>1. FlowTypeOK'
      BY <2>17, <2>0, FlowSteps DEF ExceptTransport, Labels, Sites
    <3>2. scanAge' \in 0..ScanCooldown
      BY <2>17 DEF ExceptTransport, TypeOK
    <3> QED
      BY <2>17, <3>1, <3>2, Zenon DEF ExceptTransport, TypeOK
  <2>18. CASE DropScan
    <3>1. FlowTypeOK'
      BY <2>18, <2>0, FlowSteps DEF DropScan, Sites
    <3>2. PICK found \in Addresses :
            /\ Lookup(found) /\ RebindingHost(found)
            /\ ScheduleProbeReload \/ UNCHANGED gapVars
      BY <2>18, Zenon DEF DropScan
    <3>3. host' \in Addresses
          /\ entry' \in [host: Addresses, cloudOnly: BOOLEAN, mode: ControlModes]
      BY <3>2, EntryTypes
    <3>4. reload' \subseteq {"probe", "options"} /\ reloadAge' \in 0..ReloadGap
      BY <3>2, ScheduledReload DEF TypeOK
    <3>5. cache' \in Addresses \cup {Unknown}
      BY <3>2 DEF Lookup, TypeOK
    <3> QED
      BY <2>18, <3>1, <3>3, <3>4, <3>5, Zenon DEF DropScan, TypeOK
  <2>19. CASE ExceptOther
    <3>1. FlowTypeOK'
      BY <2>19, <2>0, FlowSteps DEF ExceptOther, Labels
    <3> QED
      BY <2>19, <3>1
         DEF ExceptOther, TypeOK
  <2>20. CASE ErrScan
    <3>1. FlowTypeOK'
      BY <2>20, <2>0, FlowSteps DEF ErrScan, Sites
    <3> QED
      BY <2>20, <3>1, EntryTypes
         DEF ErrScan, Lookup, TypeOK
  <2>21. CASE ExceptCloud
    <3>1. FlowTypeOK'
      BY <2>21, <2>0, FlowSteps DEF ExceptCloud
    <3> QED
      BY <2>21, <3>1
         DEF ExceptCloud, TypeOK
  <2>22. CASE Tick
    <3>1. FlowTypeOK'
      BY <2>22, <2>0 DEF Tick, FlowTypeOK, flowVars
    <3> QED
      BY <2>22, <3>1
         DEF Tick, Older, FlowTypeOK, TypeOK
  <2>23. CASE CacheExpires
    <3>1. FlowTypeOK'
      BY <2>23, <2>0 DEF CacheExpires, FlowTypeOK, flowVars
    <3> QED
      BY <2>23, <3>1
         DEF CacheExpires, TypeOK
  <2>24. ASSUME NEW h \in Addresses, NEW mode \in EditModes, SaveOptions(h, mode)
        PROVE  TypeOK'
    <3>1. FlowTypeOK'
      BY <2>24, <2>0 DEF SaveOptions, FlowTypeOK, flowVars
    <3> QED
      BY <2>24, <3>1
         DEF SaveOptions, ControlModes, Choices, TypeOK
  <2>25. CASE EmsChanges
    <3>1. FlowTypeOK'
      BY <2>25, <2>0 DEF EmsChanges, FlowTypeOK, flowVars
    <3> QED
      BY <2>25, <3>1
         DEF EmsChanges, TypeOK
  <2>26. ASSUME NEW h \in Addresses, ModuleMoves(h)
        PROVE  TypeOK'
    <3>1. FlowTypeOK'
      BY <2>26, <2>0 DEF ModuleMoves, FlowTypeOK, flowVars
    <3> QED
      BY <2>26, <3>1
         DEF ModuleMoves, TypeOK
  <2>27. CASE UNCHANGED vars
    <3>1. FlowTypeOK'
      BY <2>27, <2>0 DEF vars, FlowTypeOK, flowVars
    <3> QED
      BY <2>27, <3>1 DEF vars, TypeOK
  <2> QED
    BY <2>1, <2>2, <2>3, <2>4, <2>5, <2>6, <2>7, <2>8, <2>9, <2>10, <2>11, <2>12,
       <2>13, <2>14, <2>15, <2>16, <2>17, <2>18, <2>19, <2>20, <2>21, <2>22, <2>23,
       <2>24, <2>25, <2>26, <2>27
       DEF Next, Setup, Poll, Reloads, User, Environment
<1> QED
  BY <1>1, <1>2, PTL DEF Spec

-----------------------------------------------------------------------------
(***************************************************************************)
(* LanFlagsOrdered is inductive only together with where a cloud-only      *)
(* setup can be: it never starts a port check or a scan, its reads go to   *)
(* the cloud, its errors are not LAN errors.                               *)
(***************************************************************************)

CloudOnlyLabels == {"start", "idle", "retry", "fetch", "cloudread", "except"}

Recovering ==
  pc = "recover" =>
    host = NoHost /\ ~lan /\ ~cloudOnly /\ site = "poll" /\ err = "none"

CloudOnlyFlow ==
  cloudOnly =>
    /\ ~lan /\ host = NoHost
    /\ pc \in CloudOnlyLabels /\ site = "poll" /\ err # "transport"
    /\ pc = "cloudread" => fmode = "cloud"

LanInv == (ctl => lan) /\ Recovering /\ CloudOnlyFlow

(***************************************************************************)
(* ModeIsUsersChoice: the mode of an entry, before and after a heal.       *)
(***************************************************************************)

SetupLabels == {"recover", "probe", "setupscan", "reprobe"}

ModeInv ==
  /\ entry.host = NoHost => entry.mode = "cloud"
  /\ pc \in SetupLabels => ~ready
  /\ pc = "recover" => entry.host = NoHost
  /\ chosen \in ControlModes =>
       entry.host # NoHost /\ ~entry.cloudOnly /\ entry.mode = chosen
  /\ chosen = "lock" =>
       \/ entry.host = NoHost /\ (pc = "recover" \/ cloudOnly)
       \/ entry.host # NoHost /\ ~entry.cloudOnly /\ entry.mode = "hybrid"
       \/ entry.host # NoHost /\ entry.cloudOnly /\ entry.mode = "cloud"
            /\ pc \in SetupLabels \ {"recover"}

(***************************************************************************)
(* LocalStaysLocal: the mode a read began with is the entry's mode, unless *)
(* the user has saved the options since.                                   *)
(***************************************************************************)

LocalInv ==
  entry.mode = "local" =>
    \/ "options" \in reload
    \/ ~cloudOnly /\ pc # "cloudread" /\ (pc = "lanread" => fmode = "local")

-----------------------------------------------------------------------------
\* LanInv is an invariant of the device entry.
LEMMA LanInvariant == Spec => []LanInv
<1>1. Init => LanInv
  BY DEF Init, LanInv, Recovering, CloudOnlyFlow, IntentionallyCloud
<1>2. TypeOK /\ LanInv /\ [Next]_vars => LanInv'
  <2> SUFFICES ASSUME TypeOK, LanInv, [Next]_vars PROVE LanInv'
    OBVIOUS
  <2> USE DEF LanInv, Recovering, CloudOnlyFlow, CloudOnlyLabels,
             envVars, confVars, lanVars, bootVars, flowVars, gapVars
  <2>1. CASE RecoverLan
    BY <2>1 DEF RecoverLan, Await, CreateCoordinator
  <2>2. CASE SetupProbeOk
    BY <2>2 DEF SetupProbeOk, Await, CreateCoordinator
  <2>3. CASE SetupProbeFails
    BY <2>3 DEF SetupProbeFails, Await, CreateCoordinator
  <2>4. CASE SetupScan
    BY <2>4 DEF SetupScan, Rebinds, RebindingHost, Await, CreateCoordinator
  <2>5. CASE SetupRetry
    BY <2>5 DEF SetupRetry, StartSetup, IntentionallyCloud
  <2>6. ASSUME NEW why \in {"probe", "options"}, Reload(why)
        PROVE  LanInv'
    BY <2>6 DEF Reload, StartSetup, IntentionallyCloud
  <2>7. CASE PollStart
    BY <2>7 DEF PollStart, Await, FetchAt
  <2>8. CASE PortCheck
    BY <2>8
       DEF PortCheck, PortOpened, PortClosed, CloudOrOffline, Await, FetchAt,
           Publish
  <2>9. CASE CheckScan
    BY <2>9
       DEF CheckScan, Rebinds, RebindingHost, PortOpened, PortClosed,
           CloudOrOffline, FetchAt, Publish
  <2>10. CASE FetchStatus
    <3>1. cloudOnly => fmode' = "cloud" /\ pc' = "cloudread" /\ err' = "none"
      BY <2>10 DEF FetchStatus, ControlMode
    <3>2. pc' # "recover"
      <4>1. fmode' \in {"local", "hybrid", "cloud"}
        BY <2>10, FetchedMode
      <4> QED
        BY <2>10, <4>1 DEF FetchStatus
    <3> QED
      BY <2>10, <3>1, <3>2, Zenon DEF FetchStatus
  <2>11. CASE LanReadOk
    BY <2>11 DEF LanReadOk, ReadSucceeds, Publish
  <2>12. CASE LanReadTransport
    BY <2>12 DEF LanReadTransport, LanReadFails, Await, Raise
  <2>13. CASE LanReadGlitch
    BY <2>13 DEF LanReadGlitch, LanReadFails, Await, Raise
  <2>14. CASE CloudReadOk
    BY <2>14 DEF CloudReadOk, ReadSucceeds, Publish
  <2>15. ASSUME NEW kind \in {"timeout", "offline", "error", "credentials"}, CloudReadFails(kind)
        PROVE  LanInv'
    BY <2>15 DEF CloudReadFails, ReadSucceeds, Publish, Raise
  <2>16. CASE ExceptFails
    BY <2>16 DEF ExceptFails, UpdateFailed
  <2>17. CASE ExceptTransport
    BY <2>17 DEF ExceptTransport, Await, CloudOrOffline, FetchAt, Publish
  <2>18. CASE DropScan
    BY <2>18 DEF DropScan, Rebinds, RebindingHost, CloudOrOffline, FetchAt, Publish
  <2>19. CASE ExceptOther
    BY <2>19 DEF ExceptOther, ControlMode, Await, UpdateFailed
  <2>20. CASE ErrScan
    BY <2>20 DEF ErrScan, Rebinds, RebindingHost, FetchAt, UpdateFailed
  <2>21. CASE ExceptCloud
    BY <2>21 DEF ExceptCloud, KeepLastData, UpdateFailed
  <2>22. CASE Tick
    BY <2>22 DEF Tick
  <2>23. CASE CacheExpires
    BY <2>23 DEF CacheExpires
  <2>24. ASSUME NEW h \in Addresses, NEW mode \in EditModes, SaveOptions(h, mode)
        PROVE  LanInv'
    BY <2>24 DEF SaveOptions
  <2>25. CASE EmsChanges
    BY <2>25 DEF EmsChanges
  <2>26. ASSUME NEW h \in Addresses, ModuleMoves(h)
        PROVE  LanInv'
    BY <2>26 DEF ModuleMoves
  <2>27. CASE UNCHANGED vars
    BY <2>27 DEF vars
  <2> QED
    BY <2>1, <2>2, <2>3, <2>4, <2>5, <2>6, <2>7, <2>8, <2>9, <2>10, <2>11, <2>12,
       <2>13, <2>14, <2>15, <2>16, <2>17, <2>18, <2>19, <2>20, <2>21, <2>22, <2>23,
       <2>24, <2>25, <2>26, <2>27
       DEF Next, Setup, Poll, Reloads, User, Environment
<1> QED
  BY <1>1, <1>2, TypeCorrect, PTL DEF Spec

\* Neither the poll's lan_ok nor DeviceControl's is believed on its own, and a
\* cloud-only setup believes in no LAN (__init__.py 711-734, 747-751, 783-794;
\* control.py 453).
THEOREM LanFlags == Spec => []LanFlagsOrdered
<1>1. LanInv => LanFlagsOrdered
  BY DEF LanInv, CloudOnlyFlow, LanFlagsOrdered
<1> QED
  BY <1>1, LanInvariant, PTL

-----------------------------------------------------------------------------
(* What a heal, a rebind and a recovery do to the stored entry. *)

EntryFields(e, h, c, m) == e.host = h /\ e.cloudOnly = c /\ e.mode = m

\* Setup's heal keeps the host, lifts the flag and changes the mode of a lock only.
LEMMA Healed ==
  ASSUME TypeOK
  PROVE  \/ /\ HealStickyCloudOnly(entry) = entry
            /\ entry.host = NoHost \/ ~entry.cloudOnly
         \/ /\ entry.host # NoHost /\ entry.cloudOnly
            /\ EntryFields(HealStickyCloudOnly(entry), entry.host, FALSE,
                            IF entry.mode = "cloud" THEN "hybrid" ELSE entry.mode)
BY DEF TypeOK, HealStickyCloudOnly, EntryFields

\* A rebind changes the entry's host to a real address and nothing else of it.
LEMMA Rebound ==
  ASSUME TypeOK, NEW found \in Addresses, RebindingHost(found)
  PROVE  \/ entry' = entry
         \/ found # NoHost /\ EntryFields(entry', found, entry.cloudOnly, entry.mode)
BY DEF TypeOK, RebindingHost, Rebinds, EntryFields

\* A recovered cloud-only entry gets the module's address and hybrid mode.
LEMMA Recovered ==
  ASSUME TypeOK, RecoverLan
  PROVE  /\ pc = "recover" /\ UNCHANGED <<ready, chosen, reload>>
         /\ \/ /\ pc' = "probe" /\ module # NoHost /\ UNCHANGED cloudOnly
               /\ EntryFields(entry', module, FALSE,
                               IF entry.mode = "cloud" THEN "hybrid" ELSE entry.mode)
            \/ /\ pc' = "start" /\ cloudOnly' = TRUE
               /\ EntryFields(entry', entry.host, entry.cloudOnly, "cloud")
<1>1. PICK found \in Addresses :
        \/ /\ module # NoHost
           /\ entry' = [host |-> module, cloudOnly |-> FALSE,
                        mode |-> IF entry.mode = "cloud" THEN "hybrid" ELSE entry.mode]
           /\ Await("probe") /\ UNCHANGED <<bootVars, gapVars>>
        \/ /\ entry' = [entry EXCEPT !.mode = "cloud"]
           /\ cloudOnly' = TRUE /\ CreateCoordinator(FALSE, FALSE) /\ Await("start")
  BY Zenon DEF RecoverLan
<1>2. entry \in [host: Addresses, cloudOnly: BOOLEAN, mode: ControlModes]
  BY DEF TypeOK
<1>3. pc = "recover" /\ UNCHANGED chosen
  BY DEF RecoverLan
<1>4. CASE /\ module # NoHost
           /\ entry' = [host |-> module, cloudOnly |-> FALSE,
                        mode |-> IF entry.mode = "cloud" THEN "hybrid" ELSE entry.mode]
           /\ Await("probe") /\ UNCHANGED <<bootVars, gapVars>>
  <2>1. EntryFields(entry', module, FALSE,
                    IF entry.mode = "cloud" THEN "hybrid" ELSE entry.mode)
    BY <1>4 DEF EntryFields
  <2> QED
    BY <1>3, <1>4, <2>1, Zenon DEF Await, bootVars, gapVars
<1>5. CASE /\ entry' = [entry EXCEPT !.mode = "cloud"]
           /\ cloudOnly' = TRUE /\ CreateCoordinator(FALSE, FALSE) /\ Await("start")
  <2>1. EntryFields(entry', entry.host, entry.cloudOnly, "cloud")
    BY <1>2, <1>5 DEF EntryFields
  <2> QED
    BY <1>3, <1>5, <2>1, Zenon DEF Await, CreateCoordinator
<1> QED
  BY <1>1, <1>4, <1>5, Zenon

-----------------------------------------------------------------------------
\* A read of a local entry never goes to the cloud, at any of the poll's read
\* sites, unless it began before the user picked local (control.py 411-414 and
\* 443-464).
THEOREM LocalReads == Spec => []LocalStaysLocal
<1>1. Init => LocalInv
  BY DEF Init, LocalInv, IntentionallyCloud
<1>2. TypeOK /\ LocalInv /\ [Next]_vars => LocalInv'
  <2> SUFFICES ASSUME TypeOK, LocalInv, [Next]_vars PROVE LocalInv'
    OBVIOUS
  <2> USE DEF LocalInv, envVars, confVars, lanVars, bootVars, flowVars, gapVars
  <2>1. CASE RecoverLan
    BY <2>1, Recovered DEF EntryFields
  <2>2. CASE SetupProbeOk
    <3>1. /\ entry' \in {entry, HealStickyCloudOnly(entry)}
          /\ pc' \notin {"cloudread", "lanread"} /\ UNCHANGED <<reload, cloudOnly>>
      BY <2>2, Zenon DEF SetupProbeOk, Await, CreateCoordinator
    <3>2. entry'.mode = "local" => entry.mode = "local"
      BY <3>1, Healed DEF EntryFields
    <3> QED
      BY <3>1, <3>2, Zenon
  <2>3. CASE SetupProbeFails
    <3>1. /\ entry' \in {entry, HealStickyCloudOnly(entry)}
          /\ pc' \notin {"cloudread", "lanread"} /\ UNCHANGED <<reload, cloudOnly>>
      BY <2>3, Zenon DEF SetupProbeFails, Await, CreateCoordinator
    <3>2. entry'.mode = "local" => entry.mode = "local"
      BY <3>1, Healed DEF EntryFields
    <3> QED
      BY <3>1, <3>2, Zenon
  <2>4. CASE SetupScan
    <3>1. PICK found \in Addresses :
            RebindingHost(found) \/ entry' = HealStickyCloudOnly(entry)
      BY <2>4, Zenon DEF SetupScan
    <3>2. pc' \notin {"cloudread", "lanread"} /\ UNCHANGED <<reload, cloudOnly>>
      BY <2>4, Zenon DEF SetupScan, Await, CreateCoordinator
    <3>3. entry'.mode = "local" => entry.mode = "local"
      BY <3>1, Healed, Rebound DEF EntryFields
    <3> QED
      BY <3>2, <3>3, Zenon
  <2>5. CASE SetupRetry
    BY <2>5 DEF SetupRetry, StartSetup, IntentionallyCloud
  <2>6. ASSUME NEW why \in {"probe", "options"}, Reload(why)
        PROVE  LocalInv'
    BY <2>6 DEF Reload, StartSetup, IntentionallyCloud
  <2>7. CASE PollStart
    BY <2>7 DEF PollStart, Await, FetchAt
  <2>8. CASE PortCheck
    BY <2>8
       DEF PortCheck, PortOpened, PortClosed, ScheduleProbeReload, CloudOrOffline,
           Await, FetchAt, Publish
  <2>9. CASE CheckScan
    <3>1. PICK found \in Addresses : RebindingHost(found)
      BY <2>9, Zenon DEF CheckScan
    <3>2. pc' \notin {"cloudread", "lanread"} /\ UNCHANGED cloudOnly
      BY <2>9, Zenon DEF CheckScan, PortOpened, PortClosed, ScheduleProbeReload,
              CloudOrOffline, FetchAt, Publish
    <3>3. "options" \in reload => "options" \in reload'
      BY <2>9 DEF CheckScan, PortOpened, PortClosed, ScheduleProbeReload
    <3>4. entry'.mode = "local" => entry.mode = "local"
      BY <3>1, Rebound DEF EntryFields
    <3> QED
      BY <3>2, <3>3, <3>4, Zenon
  <2>10. CASE FetchStatus
    BY <2>10 DEF FetchStatus, ControlMode
  <2>11. CASE LanReadOk
    BY <2>11 DEF LanReadOk, ReadSucceeds, Publish
  <2>12. CASE LanReadTransport
    BY <2>12 DEF LanReadTransport, LanReadFails, Await, Raise
  <2>13. CASE LanReadGlitch
    BY <2>13 DEF LanReadGlitch, LanReadFails, Await, Raise
  <2>14. CASE CloudReadOk
    BY <2>14 DEF CloudReadOk, ReadSucceeds, Publish
  <2>15. ASSUME NEW kind \in {"timeout", "offline", "error", "credentials"}, CloudReadFails(kind)
        PROVE  LocalInv'
    BY <2>15 DEF CloudReadFails, ReadSucceeds, Publish, Raise
  <2>16. CASE ExceptFails
    BY <2>16 DEF ExceptFails, UpdateFailed
  <2>17. CASE ExceptTransport
    BY <2>17 DEF ExceptTransport, Await, CloudOrOffline, FetchAt, Publish
  <2>18. CASE DropScan
    <3>1. PICK found \in Addresses : RebindingHost(found)
      BY <2>18, Zenon DEF DropScan
    <3>2. pc' \notin {"cloudread", "lanread"} /\ UNCHANGED cloudOnly
      BY <2>18, Zenon DEF DropScan, ScheduleProbeReload,
              CloudOrOffline, FetchAt, Publish
    <3>3. "options" \in reload => "options" \in reload'
      BY <2>18 DEF DropScan, PortOpened, PortClosed, ScheduleProbeReload
    <3>4. entry'.mode = "local" => entry.mode = "local"
      BY <3>1, Rebound DEF EntryFields
    <3> QED
      BY <3>2, <3>3, <3>4, Zenon
  <2>19. CASE ExceptOther
    BY <2>19 DEF ExceptOther, Await, UpdateFailed
  <2>20. CASE ErrScan
    <3>1. PICK found \in Addresses : RebindingHost(found)
      BY <2>20, Zenon DEF ErrScan
    <3>2. pc' \notin {"cloudread", "lanread"} /\ UNCHANGED cloudOnly
      BY <2>20, Zenon DEF ErrScan, FetchAt, UpdateFailed
    <3>3. "options" \in reload => "options" \in reload'
      BY <2>20 DEF ErrScan, PortOpened, PortClosed, ScheduleProbeReload
    <3>4. entry'.mode = "local" => entry.mode = "local"
      BY <3>1, Rebound DEF EntryFields
    <3> QED
      BY <3>2, <3>3, <3>4, Zenon
  <2>21. CASE ExceptCloud
    BY <2>21 DEF ExceptCloud, KeepLastData, UpdateFailed
  <2>22. CASE Tick
    BY <2>22 DEF Tick
  <2>23. CASE CacheExpires
    BY <2>23 DEF CacheExpires
  <2>24. ASSUME NEW h \in Addresses, NEW mode \in EditModes, SaveOptions(h, mode)
        PROVE  LocalInv'
    BY <2>24 DEF SaveOptions
  <2>25. CASE EmsChanges
    BY <2>25 DEF EmsChanges
  <2>26. ASSUME NEW h \in Addresses, ModuleMoves(h)
        PROVE  LocalInv'
    BY <2>26 DEF ModuleMoves
  <2>27. CASE UNCHANGED vars
    BY <2>27 DEF vars
  <2> QED
    BY <2>1, <2>2, <2>3, <2>4, <2>5, <2>6, <2>7, <2>8, <2>9, <2>10, <2>11, <2>12,
       <2>13, <2>14, <2>15, <2>16, <2>17, <2>18, <2>19, <2>20, <2>21, <2>22, <2>23,
       <2>24, <2>25, <2>26, <2>27
       DEF Next, Setup, Poll, Reloads, User, Environment
<1>3. LocalInv => LocalStaysLocal
  BY DEF LocalInv, LocalStaysLocal
<1> QED
  BY <1>1, <1>2, <1>3, TypeCorrect, PTL DEF Spec

-----------------------------------------------------------------------------
\* What ModeIsUsersChoice rests on.
LEMMA ModeInvariant == Spec => []ModeInv
<1>1. Init => ModeInv
  <2> SUFFICES ASSUME Init PROVE ModeInv
    OBVIOUS
  <2>1. \/ entry.host \in Hosts /\ ~entry.cloudOnly /\ entry.mode \in ControlModes
        \/ entry.host \in Addresses /\ entry.cloudOnly /\ entry.mode = "cloud"
    BY ConfigAssumption DEF Init, StoredEntries
  <2>2. /\ ~ready
        /\ pc = IF entry.host = NoHost THEN "recover" ELSE "probe"
        /\ chosen = IF entry.cloudOnly THEN "lock" ELSE entry.mode
    BY DEF Init, IntentionallyCloud
  <2> QED
    BY <2>1, <2>2, HostsAssumption DEF ModeInv, SetupLabels, ControlModes
<1>2. TypeOK /\ TypeOK' /\ LanInv /\ LanInv' /\ ModeInv /\ [Next]_vars => ModeInv'
  <2> SUFFICES ASSUME TypeOK, TypeOK', LanInv, LanInv', ModeInv, [Next]_vars PROVE ModeInv'
    OBVIOUS
  <2> USE DEF ModeInv, SetupLabels, envVars, confVars, lanVars, bootVars, flowVars, gapVars
  <2>1. CASE RecoverLan
    <3>1. /\ pc = "recover" /\ UNCHANGED <<ready, chosen>>
          /\ \/ /\ pc' = "probe" /\ entry'.host # NoHost /\ ~entry'.cloudOnly
                /\ entry'.mode = IF entry.mode = "cloud" THEN "hybrid" ELSE entry.mode
             \/ /\ pc' = "start" /\ cloudOnly'
                /\ entry'.host = entry.host /\ entry'.mode = "cloud"
      BY <2>1, Recovered, Zenon DEF EntryFields
    <3>2. entry.host = NoHost /\ entry.mode = "cloud" /\ ~ready /\ chosen \notin ControlModes
      BY <3>1
    <3> QED
      BY <3>1, <3>2
  <2>2. CASE SetupProbeOk
    <3>1. /\ pc \in {"probe", "reprobe"} /\ UNCHANGED <<cloudOnly, chosen, ready>>
          /\ \/ entry' = HealStickyCloudOnly(entry) /\ pc' = "start"
             \/ entry' = entry /\ pc' = "setupscan"
      BY <2>2, Zenon DEF SetupProbeOk, Await, CreateCoordinator
    <3>2. ~cloudOnly
      BY <3>1 DEF LanInv, CloudOnlyFlow, CloudOnlyLabels
    <3> QED
      BY <3>1, <3>2, Healed DEF EntryFields, ControlModes
  <2>3. CASE SetupProbeFails
    <3>1. /\ pc \in {"probe", "reprobe"} /\ UNCHANGED <<cloudOnly, chosen, ready>>
          /\ \/ entry' = HealStickyCloudOnly(entry) /\ pc' = "start"
             \/ entry' = entry /\ pc' = "setupscan"
      BY <2>3, Zenon DEF SetupProbeFails, Await, CreateCoordinator
    <3>2. ~cloudOnly
      BY <3>1 DEF LanInv, CloudOnlyFlow, CloudOnlyLabels
    <3> QED
      BY <3>1, <3>2, Healed DEF EntryFields, ControlModes
  <2>4. CASE SetupScan
    <3>1. PICK found \in Addresses :
            \/ RebindingHost(found) /\ pc' = "reprobe"
            \/ entry' = HealStickyCloudOnly(entry) /\ pc' = "start"
      BY <2>4, Zenon DEF SetupScan, Await
    <3>2. pc = "setupscan" /\ UNCHANGED <<cloudOnly, chosen, ready>>
      BY <2>4, Zenon DEF SetupScan, Await, CreateCoordinator
    <3>3. ~cloudOnly
      BY <3>2 DEF LanInv, CloudOnlyFlow, CloudOnlyLabels
    <3> QED
      BY <3>1, <3>2, <3>3, Healed, Rebound DEF EntryFields, ControlModes
  <2>5. CASE SetupRetry
    BY <2>5 DEF SetupRetry, StartSetup, IntentionallyCloud
  <2>6. ASSUME NEW why \in {"probe", "options"}, Reload(why)
        PROVE  ModeInv'
    BY <2>6 DEF Reload, StartSetup, IntentionallyCloud
  <2>7. CASE PollStart
    BY <2>7 DEF PollStart, Await, FetchAt
  <2>8. CASE PortCheck
    BY <2>8
       DEF PortCheck, PortOpened, PortClosed, ScheduleProbeReload, CloudOrOffline,
           Await, FetchAt, Publish
  <2>9. CASE CheckScan
    <3>1. PICK found \in Addresses : RebindingHost(found)
      BY <2>9, Zenon DEF CheckScan
    <3>2. /\ pc = "checkscan" /\ UNCHANGED <<cloudOnly, chosen>>
          /\ pc' \notin SetupLabels
      BY <2>9 DEF CheckScan, PortOpened, PortClosed, CloudOrOffline, FetchAt, Publish
    <3>3. ~cloudOnly
      BY <3>2 DEF LanInv, CloudOnlyFlow, CloudOnlyLabels
    <3> QED
      BY <3>1, <3>2, <3>3, Rebound DEF EntryFields, ControlModes
  <2>10. CASE FetchStatus
    <3>1. pc' \notin SetupLabels /\ pc = "fetch"
      BY <2>10, FetchedMode DEF FetchStatus
    <3>2. UNCHANGED <<entry, chosen, cloudOnly, ready>>
      BY <2>10, Zenon DEF FetchStatus
    <3> QED
      BY <3>1, <3>2, Zenon
  <2>11. CASE LanReadOk
    BY <2>11 DEF LanReadOk, ReadSucceeds, Publish
  <2>12. CASE LanReadTransport
    BY <2>12 DEF LanReadTransport, LanReadFails, Await, Raise
  <2>13. CASE LanReadGlitch
    BY <2>13 DEF LanReadGlitch, LanReadFails, Await, Raise
  <2>14. CASE CloudReadOk
    BY <2>14 DEF CloudReadOk, ReadSucceeds, Publish
  <2>15. ASSUME NEW kind \in {"timeout", "offline", "error", "credentials"}, CloudReadFails(kind)
        PROVE  ModeInv'
    BY <2>15 DEF CloudReadFails, ReadSucceeds, Publish, Raise
  <2>16. CASE ExceptFails
    BY <2>16 DEF ExceptFails, UpdateFailed
  <2>17. CASE ExceptTransport
    BY <2>17 DEF ExceptTransport, Await, CloudOrOffline, FetchAt, Publish
  <2>18. CASE DropScan
    <3>1. PICK found \in Addresses : RebindingHost(found)
      BY <2>18, Zenon DEF DropScan
    <3>2. /\ pc = "dropscan" /\ UNCHANGED <<cloudOnly, chosen>>
          /\ pc' \notin SetupLabels
      BY <2>18 DEF DropScan, CloudOrOffline, FetchAt, Publish
    <3>3. ~cloudOnly
      BY <3>2 DEF LanInv, CloudOnlyFlow, CloudOnlyLabels
    <3> QED
      BY <3>1, <3>2, <3>3, Rebound DEF EntryFields, ControlModes
  <2>19. CASE ExceptOther
    BY <2>19 DEF ExceptOther, Await, UpdateFailed
  <2>20. CASE ErrScan
    <3>1. PICK found \in Addresses : RebindingHost(found)
      BY <2>20, Zenon DEF ErrScan
    <3>2. /\ pc = "errscan" /\ UNCHANGED <<cloudOnly, chosen>>
          /\ pc' \notin SetupLabels
      BY <2>20 DEF ErrScan, FetchAt, UpdateFailed
    <3>3. ~cloudOnly
      BY <3>2 DEF LanInv, CloudOnlyFlow, CloudOnlyLabels
    <3> QED
      BY <3>1, <3>2, <3>3, Rebound DEF EntryFields, ControlModes
  <2>21. CASE ExceptCloud
    BY <2>21 DEF ExceptCloud, KeepLastData, UpdateFailed
  <2>22. CASE Tick
    BY <2>22 DEF Tick
  <2>23. CASE CacheExpires
    BY <2>23 DEF CacheExpires
  <2>24. ASSUME NEW h \in Addresses, NEW mode \in EditModes, SaveOptions(h, mode)
        PROVE  ModeInv'
    <3>1. pc \notin SetupLabels
      BY <2>24 DEF SaveOptions
    <3>2. CASE h = NoHost
      <4>1. entry'.host = NoHost /\ entry'.mode = "cloud" /\ chosen' = "cleared"
        BY <2>24, <3>2 DEF SaveOptions
      <4> QED
        BY <2>24, <3>1, <4>1 DEF SaveOptions, ControlModes
    <3>3. CASE h # NoHost
      <4>1. /\ entry'.host # NoHost /\ ~entry'.cloudOnly /\ entry'.mode = mode
            /\ chosen' = mode
        BY <2>24, <3>3 DEF SaveOptions
      <4>2. chosen' # "lock"
        BY <4>1, ConfigAssumption DEF ControlModes
      <4> QED
        BY <2>24, <3>1, <4>1, <4>2 DEF SaveOptions
    <3> QED
      BY <3>2, <3>3
  <2>25. CASE EmsChanges
    BY <2>25 DEF EmsChanges
  <2>26. ASSUME NEW h \in Addresses, ModuleMoves(h)
        PROVE  ModeInv'
    BY <2>26 DEF ModuleMoves
  <2>27. CASE UNCHANGED vars
    BY <2>27 DEF vars
  <2> QED
    BY <2>1, <2>2, <2>3, <2>4, <2>5, <2>6, <2>7, <2>8, <2>9, <2>10, <2>11, <2>12,
       <2>13, <2>14, <2>15, <2>16, <2>17, <2>18, <2>19, <2>20, <2>21, <2>22, <2>23,
       <2>24, <2>25, <2>26, <2>27
       DEF Next, Setup, Poll, Reloads, User, Environment
<1> QED
  BY <1>1, <1>2, TypeCorrect, LanInvariant, PTL DEF Spec

\* The cloud lock is kept by cloud-only entries alone and the mode the user picked
\* is never changed, by an outage, a rebind, a recovery or a heal (__init__.py
\* 219-234, 284-302, 450-484).
THEOREM ModeKept == Spec => []ModeIsUsersChoice
<1>1. ModeInv => ModeIsUsersChoice
  BY DEF ModeInv, ModeIsUsersChoice, SetupLabels
<1> QED
  BY <1>1, ModeInvariant, PTL

-----------------------------------------------------------------------------
(***************************************************************************)
(* LanReadingNotKept: only cloud mode keeps data, and an entry that has    *)
(* read its LAN since it was set up enters cloud mode by its options form  *)
(* alone, whose reload then drops what was read.                           *)
(***************************************************************************)

KeptInv ==
  /\ pc \in SetupLabels => path = "none"
  /\ path = "lan" \/ pc = "lanread" =>
       ~cloudOnly /\ (entry.mode = "cloud" => "options" \in reload)
  /\ LanReadingNotKept

\* A reading taken on the LAN never outlives the poll that fails to renew it
\* (__init__.py 748, 821).
THEOREM LanReadingDropped == Spec => []LanReadingNotKept
<1>1. Init => KeptInv
  BY DEF Init, KeptInv, LanReadingNotKept, IntentionallyCloud
<1>2. TypeOK /\ ModeInv /\ KeptInv /\ [Next]_vars => KeptInv'
  <2> SUFFICES ASSUME TypeOK, ModeInv, KeptInv, [Next]_vars PROVE KeptInv'
    OBVIOUS
  <2> USE DEF KeptInv, LanReadingNotKept, SetupLabels,
             envVars, confVars, lanVars, bootVars, flowVars, gapVars
  <2>1. CASE RecoverLan
    BY <2>1 DEF RecoverLan, Await
  <2>2. CASE SetupProbeOk
    BY <2>2 DEF SetupProbeOk, Await
  <2>3. CASE SetupProbeFails
    BY <2>3 DEF SetupProbeFails, Await
  <2>4. CASE SetupScan
    BY <2>4 DEF SetupScan, Await
  <2>5. CASE SetupRetry
    BY <2>5 DEF SetupRetry, StartSetup
  <2>6. ASSUME NEW why \in {"probe", "options"}, Reload(why)
        PROVE  KeptInv'
    BY <2>6 DEF Reload, StartSetup
  <2>7. CASE PollStart
    BY <2>7 DEF PollStart, Await, FetchAt
  <2>8. CASE PortCheck
    BY <2>8
       DEF PortCheck, PortOpened, PortClosed, ScheduleProbeReload, CloudOrOffline,
           Await, FetchAt, Publish
  <2>9. CASE CheckScan
    <3>1. PICK found \in Addresses : RebindingHost(found)
      BY <2>9, Zenon DEF CheckScan
    <3>2. /\ pc' \notin SetupLabels \cup {"lanread"} /\ UNCHANGED cloudOnly
          /\ \/ UNCHANGED <<path, kept>>
             \/ path' = "offline" /\ kept' = FALSE
      BY <2>9, Zenon DEF CheckScan, PortOpened, PortClosed, CloudOrOffline, FetchAt, Publish
    <3>3. "options" \in reload => "options" \in reload'
      BY <2>9 DEF CheckScan, PortOpened, PortClosed, ScheduleProbeReload
    <3>4. entry'.mode = entry.mode
      BY <3>1, Rebound DEF EntryFields
    <3> QED
      BY <3>2, <3>3, <3>4
  <2>10. CASE FetchStatus
    <3>1. /\ pc' = "lanread" => ~cloudOnly /\ entry.mode # "cloud"
          /\ pc' \notin SetupLabels
      BY <2>10, FetchedMode DEF FetchStatus, ControlMode
    <3>2. UNCHANGED <<entry, cloudOnly, path, kept, reload>>
      BY <2>10, Zenon DEF FetchStatus
    <3> QED
      BY <3>1, <3>2
  <2>11. CASE LanReadOk
    BY <2>11 DEF LanReadOk, ReadSucceeds, Publish
  <2>12. CASE LanReadTransport
    BY <2>12 DEF LanReadTransport, LanReadFails, Await, Raise
  <2>13. CASE LanReadGlitch
    BY <2>13 DEF LanReadGlitch, LanReadFails, Await, Raise
  <2>14. CASE CloudReadOk
    BY <2>14 DEF CloudReadOk, ReadSucceeds, Publish
  <2>15. ASSUME NEW kind \in {"timeout", "offline", "error", "credentials"}, CloudReadFails(kind)
        PROVE  KeptInv'
    BY <2>15 DEF CloudReadFails, ReadSucceeds, Publish, Raise
  <2>16. CASE ExceptFails
    BY <2>16 DEF ExceptFails, UpdateFailed
  <2>17. CASE ExceptTransport
    BY <2>17 DEF ExceptTransport, Await, CloudOrOffline, FetchAt, Publish
  <2>18. CASE DropScan
    <3>1. PICK found \in Addresses : RebindingHost(found)
      BY <2>18, Zenon DEF DropScan
    <3>2. /\ pc' \notin SetupLabels \cup {"lanread"} /\ UNCHANGED cloudOnly
          /\ \/ UNCHANGED <<path, kept>>
             \/ path' = "offline" /\ kept' = FALSE
      BY <2>18, Zenon DEF DropScan, CloudOrOffline, FetchAt, Publish
    <3>3. "options" \in reload => "options" \in reload'
      BY <2>18 DEF DropScan, ScheduleProbeReload
    <3>4. entry'.mode = entry.mode
      BY <3>1, Rebound DEF EntryFields
    <3> QED
      BY <3>2, <3>3, <3>4
  <2>19. CASE ExceptOther
    BY <2>19 DEF ExceptOther, Await, UpdateFailed
  <2>20. CASE ErrScan
    <3>1. PICK found \in Addresses : RebindingHost(found)
      BY <2>20, Zenon DEF ErrScan
    <3>2. /\ pc' \notin SetupLabels \cup {"lanread"}
          /\ UNCHANGED <<cloudOnly, path, kept, reload>>
      BY <2>20, Zenon DEF ErrScan, FetchAt, UpdateFailed
    <3>3. entry'.mode = entry.mode
      BY <3>1, Rebound DEF EntryFields
    <3> QED
      BY <3>2, <3>3
  <2>21. CASE ExceptCloud
    BY <2>21 DEF ExceptCloud, ControlMode, KeepLastData, UpdateFailed
  <2>22. CASE Tick
    BY <2>22 DEF Tick
  <2>23. CASE CacheExpires
    BY <2>23 DEF CacheExpires
  <2>24. ASSUME NEW h \in Addresses, NEW mode \in EditModes, SaveOptions(h, mode)
        PROVE  KeptInv'
    BY <2>24 DEF SaveOptions, ModeInv
  <2>25. CASE EmsChanges
    BY <2>25 DEF EmsChanges
  <2>26. ASSUME NEW h \in Addresses, ModuleMoves(h)
        PROVE  KeptInv'
    BY <2>26 DEF ModuleMoves
  <2>27. CASE UNCHANGED vars
    BY <2>27 DEF vars
  <2> QED
    BY <2>1, <2>2, <2>3, <2>4, <2>5, <2>6, <2>7, <2>8, <2>9, <2>10, <2>11, <2>12,
       <2>13, <2>14, <2>15, <2>16, <2>17, <2>18, <2>19, <2>20, <2>21, <2>22, <2>23,
       <2>24, <2>25, <2>26, <2>27
       DEF Next, Setup, Poll, Reloads, User, Environment
<1>3. KeptInv => LanReadingNotKept
  BY DEF KeptInv
<1> QED
  BY <1>1, <1>2, <1>3, TypeCorrect, ModeInvariant, PTL DEF Spec

-----------------------------------------------------------------------------
(***************************************************************************)
(* OfflineSetupLoads: where the first refresh of an entry that does not    *)
(* depend on EMS can be, and what it holds there.                          *)
(***************************************************************************)

DependsOnEms == entry.mode = "cloud" \/ (hasCloud /\ entry.mode # "local")

FirstInv ==
  /\ pc = "retry" => ~ready
  /\ pc \in SetupLabels \ {"recover"} => ~cloudOnly /\ host # NoHost /\ site = "poll"
  /\ ~ready /\ ~glitched /\ ~DependsOnEms /\ pc \notin SetupLabels =>
       /\ pc \in {"start", "check", "checkscan", "fetch", "lanread", "except", "dropscan"}
       /\ ~cloudOnly /\ host # NoHost /\ site = "poll"
       /\ pc = "start" => (lan => ctl)
       /\ pc = "fetch" => ctl
       /\ pc = "lanread" => fmode = entry.mode
       /\ pc = "except" => err = "transport"

\* A module that does not answer never fails the setup of an entry that does
\* not depend on EMS (__init__.py 414-417).
THEOREM SetupLoads == Spec => []OfflineSetupLoads
<1>1. Init => FirstInv
  BY DEF Init, FirstInv, SetupLabels, IntentionallyCloud
<1>2. TypeOK /\ LanInv /\ ModeInv /\ FirstInv /\ [Next]_vars => FirstInv'
  <2> SUFFICES ASSUME TypeOK, LanInv, ModeInv, FirstInv, [Next]_vars PROVE FirstInv'
    OBVIOUS
  <2> USE DEF FirstInv, SetupLabels, DependsOnEms,
             envVars, confVars, lanVars, bootVars, flowVars, gapVars
  <2>1. CASE RecoverLan
    <3>1. ~cloudOnly /\ site = "poll" /\ pc = "recover"
      BY <2>1 DEF RecoverLan, LanInv, Recovering
    <3>2. CASE pc' = "probe"
      <4>1. host' = module /\ module # NoHost
        BY <2>1, <3>2 DEF RecoverLan, Await
      <4>2. cloudOnly' = cloudOnly /\ site' = site
        BY <2>1, <3>2 DEF RecoverLan, Await
      <4> QED
        BY <3>1, <3>2, <4>1, <4>2
    <3>3. CASE pc' = "start"
      BY <2>1, <3>3, Recovered DEF EntryFields
    <3> QED
      BY <2>1, <3>2, <3>3, Recovered
  <2>2. CASE SetupProbeOk
    BY <2>2 DEF SetupProbeOk, Await, CreateCoordinator
  <2>3. CASE SetupProbeFails
    BY <2>3 DEF SetupProbeFails, Await, CreateCoordinator
  <2>4. CASE SetupScan
    BY <2>4 DEF SetupScan, Rebinds, RebindingHost, Await, CreateCoordinator
  <2>5. CASE SetupRetry
    BY <2>5 DEF SetupRetry, StartSetup, IntentionallyCloud
  <2>6. ASSUME NEW why \in {"probe", "options"}, Reload(why)
        PROVE  FirstInv'
    BY <2>6 DEF Reload, StartSetup, IntentionallyCloud
  <2>7. CASE PollStart
    BY <2>7 DEF PollStart, Await, FetchAt
  <2>8. CASE PortCheck
    BY <2>8
       DEF PortCheck, PortOpened, PortClosed, UsesCloudWhenLanDown, ControlMode,
           CloudOrOffline, Await, FetchAt, Publish
  <2>9. CASE CheckScan
    <3>1. PICK found \in Addresses : RebindingHost(found) /\ (PortOpened \/ PortClosed)
      BY <2>9, Zenon DEF CheckScan
    <3>2. /\ pc = "checkscan" /\ UNCHANGED <<cloudOnly, hasCloud, glitched>>
      BY <2>9, Zenon DEF CheckScan
    <3>3. entry'.mode = entry.mode
      BY <3>1, Rebound DEF EntryFields
    <3>4. host # NoHost => host' # NoHost
      BY <3>1 DEF RebindingHost, Rebinds
    <3>5. \/ pc' = "idle" /\ ready'
          \/ /\ pc' = "fetch" /\ site' = "poll" /\ UNCHANGED ready
             /\ ctl' \/ UsesCloudWhenLanDown
      BY <3>1 DEF PortOpened, PortClosed, CloudOrOffline, FetchAt, Publish
    <3> QED
      BY <3>2, <3>3, <3>4, <3>5 DEF UsesCloudWhenLanDown, ControlMode
  <2>10. CASE FetchStatus
    <3>1. pc = "fetch" /\ fmode' = ControlMode
          /\ UNCHANGED <<entry, hasCloud, cloudOnly, host, ready, glitched, site>>
      BY <2>10, Zenon DEF FetchStatus
    <3>2. fmode' \in {"local", "hybrid", "cloud"}
      BY <2>10, FetchedMode
    <3>3. fmode' = "local" \/ (fmode' = "hybrid" /\ CanUseLan) => pc' = "lanread"
      BY <2>10 DEF FetchStatus
    <3>4. pc' \in {"lanread", "cloudread", "except"}
      BY <2>10, <3>2 DEF FetchStatus
    <3> QED
      BY <3>1, <3>2, <3>3, <3>4 DEF ControlMode, CanUseLan
  <2>11. CASE LanReadOk
    BY <2>11 DEF LanReadOk, ReadSucceeds, Publish
  <2>12. CASE LanReadTransport
    BY <2>12 DEF LanReadTransport, LanReadFails, Await, Raise
  <2>13. CASE LanReadGlitch
    BY <2>13 DEF LanReadGlitch, LanReadFails, Await, Raise
  <2>14. CASE CloudReadOk
    BY <2>14 DEF CloudReadOk, ReadSucceeds, Publish
  <2>15. ASSUME NEW kind \in {"timeout", "offline", "error", "credentials"}, CloudReadFails(kind)
        PROVE  FirstInv'
    BY <2>15 DEF CloudReadFails, ReadSucceeds, Publish, Raise
  <2>16. CASE ExceptFails
    BY <2>16 DEF ExceptFails, UpdateFailed
  <2>17. CASE ExceptTransport
    BY <2>17 DEF ExceptTransport, UsesCloudWhenLanDown, ControlMode, Await, CloudOrOffline,
                 FetchAt, Publish
  <2>18. CASE DropScan
    <3>1. PICK found \in Addresses : RebindingHost(found)
      BY <2>18, Zenon DEF DropScan
    <3>2. /\ pc = "dropscan" /\ UNCHANGED <<cloudOnly, hasCloud, glitched>>
          /\ CloudOrOffline("drop")
      BY <2>18, Zenon DEF DropScan
    <3>3. entry'.mode = entry.mode
      BY <3>1, Rebound DEF EntryFields
    <3>4. \/ pc' = "idle" /\ ready'
          \/ pc' = "fetch" /\ UNCHANGED ready /\ UsesCloudWhenLanDown
      BY <3>2 DEF CloudOrOffline, FetchAt, Publish
    <3> QED
      BY <3>2, <3>3, <3>4 DEF UsesCloudWhenLanDown, ControlMode
  <2>19. CASE ExceptOther
    BY <2>19 DEF ExceptOther, Await, UpdateFailed
  <2>20. CASE ErrScan
    <3>1. PICK found \in Addresses : RebindingHost(found)
      BY <2>20, Zenon DEF ErrScan
    <3>2. /\ pc = "errscan" /\ pc' \in {"fetch", "idle", "retry"}
          /\ pc' = "retry" => ~ready
          /\ UNCHANGED <<hasCloud, glitched, ready>>
      BY <2>20 DEF ErrScan, FetchAt, UpdateFailed
    <3>3. entry'.mode = entry.mode
      BY <3>1, Rebound DEF EntryFields
    <3> QED
      BY <3>2, <3>3
  <2>21. CASE ExceptCloud
    BY <2>21 DEF ExceptCloud, KeepLastData, UpdateFailed
  <2>22. CASE Tick
    BY <2>22 DEF Tick
  <2>23. CASE CacheExpires
    BY <2>23 DEF CacheExpires
  <2>24. ASSUME NEW h \in Addresses, NEW mode \in EditModes, SaveOptions(h, mode)
        PROVE  FirstInv'
    BY <2>24 DEF SaveOptions, ModeInv
  <2>25. CASE EmsChanges
    BY <2>25 DEF EmsChanges
  <2>26. ASSUME NEW h \in Addresses, ModuleMoves(h)
        PROVE  FirstInv'
    BY <2>26 DEF ModuleMoves
  <2>27. CASE UNCHANGED vars
    BY <2>27 DEF vars
  <2> QED
    BY <2>1, <2>2, <2>3, <2>4, <2>5, <2>6, <2>7, <2>8, <2>9, <2>10, <2>11, <2>12,
       <2>13, <2>14, <2>15, <2>16, <2>17, <2>18, <2>19, <2>20, <2>21, <2>22, <2>23,
       <2>24, <2>25, <2>26, <2>27
       DEF Next, Setup, Poll, Reloads, User, Environment
<1>3. FirstInv => OfflineSetupLoads
  BY DEF FirstInv, OfflineSetupLoads, DependsOnEms, SetupLabels
<1> QED
  BY <1>1, <1>2, <1>3, TypeCorrect, LanInvariant, ModeInvariant, PTL DEF Spec
=============================================================================
