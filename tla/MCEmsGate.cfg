SPECIFICATION FairSpec
CONSTANTS
  User = {u1}
  Normal = {}
  Background = {b1, b2}
  Workers = {w1, w2}
  NoWorker = NoWorker
  NoRequest = NoRequest
  MinInterval = 2
  MayKill = {TRUE}
INVARIANTS
  TypeOK
  NoOrphan
  OvertakenOnce
PROPERTIES
  ServiceSpec
  EveryCallReturns
CHECK_DEADLOCK FALSE
