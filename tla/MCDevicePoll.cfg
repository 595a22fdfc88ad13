SPECIFICATION Spec
CONSTANTS
  Hosts = {h1, h2}
  NoHost = NoHost
  Unknown = Unknown
  Modes = {"local", "hybrid", "cloud"}
  EditModes = {"local", "hybrid"}
  Clouds = {TRUE, FALSE}
  Glitches = {TRUE, FALSE}
  ReloadGap = 1
  ScanCooldown = 1
SYMMETRY HostSymmetry
INVARIANTS
  TypeOK
  ModeIsUsersChoice
  LanFlagsOrdered
  LocalStaysLocal
  LanReadingNotKept
  OfflineSetupLoads
