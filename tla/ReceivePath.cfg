SPECIFICATION PathSpec
CONSTANTS
  Frame = {"a", "c", "h", "over"}
  Uuid <- MCUuid
  Pieces <- MCPieces
  TotalSize <- MCTotalSize
  Detection <- MCDetection
  Block <- MCBlock
  NumSets <- MCNumSets
  Timeout = 2
  SweepPeriod = 1
  MaxFree = 1
  MaxConn = 2
  NServer = 2
  NCam = 2
  MaxDiscovery = 2
  MaxFrame = 3
INVARIANTS
  DeliveredWhenComplete
  DetectionsAreItsOwn
  FiledByOwner
  EachFrameOnce
PROPERTIES
  ArrivingFrameIsKept
  AbandonedIsSwept
CHECK_DEADLOCK FALSE
