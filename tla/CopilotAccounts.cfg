SPECIFICATION FairSpec
CONSTANTS
  i1 = i1
  i2 = i2
  g1 = g1
  Request = {r1, r2}
  Syncer = syncer
  NoProcess = noProcess
  Id = {i1, i2}
  Pool = {g1}
  NoPool = noPool
  NoAccount = noAccount
  Limits = {1, 2}
  Stored <- MCStored
  MaxRequests = 2
  MaxTroubles = 1
INVARIANTS
  AccountsWithinLimit
PROPERTIES
  DeletedStaysDeleted
  RevocationSettles
  StatusFollowsQuota
CHECK_DEADLOCK FALSE
