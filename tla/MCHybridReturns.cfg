SPECIFICATION FairSpec
CONSTANTS
  Hosts = {h1}
  NoHost = NoHost
  Unknown = Unknown
  Modes = {"hybrid"}
  EditModes = {}
  Clouds = {TRUE}
  Glitches = {FALSE}
  ReloadGap = 1
  ScanCooldown = 1
PROPERTY HybridReturnsToLan
