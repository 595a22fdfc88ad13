SPECIFICATION MCSpec
CONSTANTS
  ac = ac
  dh = dh
  fridge = fridge
  Modules = {ac, dh}
  Listed = {ac, fridge}
  Hosts = {1, 2}
  Nobody = Nobody
  TTL = 2
  MaxEvents = 3
INVARIANTS
  TypeOK
  ScansBounded
  NoTwins
  OwnAddress
CHECK_DEADLOCK FALSE
