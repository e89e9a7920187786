SPECIFICATION FairSpec
CONSTANTS
  r1 = r1
  r2 = r2
  Request = {r1, r2}
  Admin = {admin}
  Calibrator = calibrator
  Deleted = deleted
  Length <- MCLength
  Limits <- MCTwoLimits
  LastHour = 2
  MaxRequests = 2
  Starts <- MCStarts
  MaxTroubles = 1
INVARIANTS
  TypeOK
  RefusalIsJustified
PROPERTIES
  CountedUntilReset
  DriftCorrected
CHECK_DEADLOCK FALSE
