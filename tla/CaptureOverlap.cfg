SPECIFICATION FairSpec
CONSTANTS
  c1 = c1  c2 = c2
  Cam <- MCCam
  Kind <- TwoKind
  IdMod = 2
  MaxRequest = 3
  MaxConn = 2
INVARIANTS
  InProgressIffOutstanding
  FrameFindsItsResult
  RefusalNamesItsRequest
PROPERTIES
  CaptureEnds
CHECK_DEADLOCK FALSE
