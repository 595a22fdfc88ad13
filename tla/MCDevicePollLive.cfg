SPECIFICATION FairSpec
CONSTANTS
  Hosts = {h1, h2}
  NoHost = NoHost
  Unknown = Unknown
  Modes = {"local", "hybrid"}
  EditModes = {}
  Clouds = {TRUE, FALSE}
  Glitches = {TRUE, FALSE}
  ReloadGap = 1
  ScanCooldown = 1
PROPERTIES
  LanReturns
  CloudCovers
