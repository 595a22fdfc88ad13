SPECIFICATION FairSpec
CONSTANTS
  w = w
  p = p
  none = none
  Tasks <- MCTasks
  Callers <- MCCallers
  Pollers <- MCPollers
  Keys <- MCKeys
  Values <- MCValues
  Commands <- MCCommands
  NoCommand = none
  Retries = 2
  Settings <- MCSettings
  MaxSems = 2
  Services = 1
  MaxCopies = 1
INVARIANTS
  TypeOK
  DeadHostBounded
  ThunderBounded
PROPERTIES
  NotAskedAgain
  Delivered
  EveryCallReturns
