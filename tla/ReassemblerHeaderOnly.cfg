SPECIFICATION Spec
CONSTANTS
  Frame = {"a", "h"}
  Uuid <- MCUuid
  Pieces <- MCPieces
  TotalSize <- MCTotalSize
  Detection <- MCDetection
  Block <- MCBlock
  NumSets <- MCNumSets
  Timeout = 2
  SweepPeriod = 1
  MaxFree = 1
  MaxConn = 1
INVARIANT HeaderOnlyHasNoData
