SPECIFICATION Spec
CONSTANTS
  r1 = r1
  r2 = r2
  Request = {r1, r2}
  Admin = {admin}
  Calibrator = calibrator
  Deleted = deleted
  Length <- MCLength
  Limits <- MCOneLimit
  LastHour = 1
  MaxRequests = 2
  Starts <- MCFirstHour
  MaxTroubles = 0
PROPERTIES
  AnyLimitRefuses
CHECK_DEADLOCK FALSE
