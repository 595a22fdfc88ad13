SPECIFICATION FairSpec
CONSTANTS
  Users = {poll}
  Syncs = {sync}
  ControlOf <- OneDevice
  Accounts = {a1, a2, a3, a4, a5, a6}
  NoAccount = NoAccount
  TokenIds = {1, 2, 3, 4, 5, 6, 7, 8}
  MaxTroubles = 1
INVARIANTS
  TypeOK
  RefusalsBounded
  NotifiedHasForm
  CallsCarryToken
PROPERTIES
  AccessRecovers
