SPECIFICATION AdminSpec
CONSTANTS
  a = a
  b = b
  x1 = x1
  x2 = x2
  r1 = r1
  r2 = r2
  Handler = {r1, r2}
  NoProcess = noProcess
  Name = {a, b}
  Sorted <- MCSorted
  Content = {x1, x2}
  NoRecord = noRecord
  Stored <- MCStored
  MaxRequests = 3
  MaxTroubles = 2
INVARIANTS
  AdminTypeOK
  CopiesAgree
PROPERTIES
  OnlyRequestsChange
SYMMETRY Symmetric
CHECK_DEADLOCK FALSE
