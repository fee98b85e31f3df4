SPECIFICATION Spec
CONSTANTS
  MaxUs = 6
  FdFallback = 2
  ExposureInit = 1
  FdInit = 3
  LensStep = 2
  LensFallback = 8
  Sensors <- MCSensors
  NoFocuser <- MCNoFocuser
  MaxTyped = 13
  MaxEntry = 4
  Yamls <- MCYamls
  Default <- MCDefault
  Top <- MCTop
  Absent = Absent
  IntSpan = 10
  SubpixDefault = 2
  MaxEdits = 1
INVARIANTS
  ShutterFitsTheFrame
  LensPulledIn
  SentAsConfigured
  RequestsAccepted
