SPECIFICATION Spec
CONSTANTS
  Window = 2
  Cadence = 3
  TsWidth = 64
  KFom = 2
  MaxFrame = 4
  MaxSkip = 1
  MaxCapture = 2
  MaxReconnect = 1
  Uint32 = 16
INVARIANTS
  OverlayBelongsToTheImage
  CurveIsTheLastValues
  CadenceRecovers
PROPERTIES
  StillIsShown
CHECK_DEADLOCK FALSE
