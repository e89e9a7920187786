SPECIFICATION Spec
CONSTANTS
  u1 = u1
  p1 = p1
  Request = {r1, r2}
  Id = {s1, s2}
  User = {u1}
  Password = {p1, p2}
  DefaultUser = u1
  NoUser = noUser
  NoSession = noSession
  Stored <- MCStored
  TTL = 2
  MaxTime = 4
  MaxRequests = 4
  MaxRestarts = 1
INVARIANTS
  EndedForGood
PROPERTIES
  RemovedForGood
SYMMETRY Symmetric
CHECK_DEADLOCK FALSE
