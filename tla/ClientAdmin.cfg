SPECIFICATION Spec
CONSTANTS
  c1 = c1
  c2 = c2
  k1 = k1
  k2 = k2
  t1 = t1
  t2 = t2
  g1 = g1
  g2 = g2
  Request = {r1, r2}
  NoProcess = noProcess
  Name = {c1, c2}
  Key = {k1, k2}
  Target = {t1, t2}
  PoolName = {g1, g2}
  NoClient = noClient
  NoPool = noPool
  Stored <- MCStored
  Offered <- MCOffered
  Pools <- MCPools
  MaxRequests = 5
  MaxRestarts = 1
INVARIANTS
  AccessKeysDistinct
  IndexFollowsClients
CHECK_DEADLOCK FALSE
