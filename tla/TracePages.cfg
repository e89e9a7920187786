SPECIFICATION Spec
CONSTANTS
  Recorder = {p1}
  Id = {x, y, z}
  NoId = "empty"
  NoRecord = none
  Size = 2
  Buffer = 2
  FileSize = 2
  MaxBackups = 2
  MaxRecords = 5
  MaxTroubles = 1
INVARIANTS
  PagesAreComplete
CHECK_DEADLOCK FALSE
