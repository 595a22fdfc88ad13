SPECIFICATION Spec
CONSTANTS
  Hosts = {h1, h2}
  NoHost = NoHost
  Unknown = Unknown
  Modes = {"hybrid"}
  EditModes = {}
  Clouds = {TRUE}
  Glitches = {FALSE}
  ReloadGap = 1
  ScanCooldown = 1
INVARIANT ProbedBeforeSoap
