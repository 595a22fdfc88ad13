SPECIFICATION GapSpec
CONSTANTS
  Hosts = {h1}
  NoHost = NoHost
  Unknown = Unknown
  Modes = {"local"}
  EditModes = {}
  Clouds = {FALSE}
  Glitches = {FALSE}
  ReloadGap = 2
  ScanCooldown = 1
PROPERTY ReloadGapRespected
