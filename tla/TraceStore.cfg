SPECIFICATION Spec
CONSTANTS
  Recorder = {p1, p2}
  Id = {x, y, z}
  NoId = "empty"
  NoRecord = none
  Size = 2
  Buffer = 1
  FileSize = 1
  MaxBackups = 1
  MaxRecords = 4
  MaxTroubles = 1
INVARIANTS
  TypeOK
  MemoryBounded
PROPERTIES
  ImplementsRecent
CHECK_DEADLOCK FALSE
