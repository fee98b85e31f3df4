SPECIFICATION MCSpec
CONSTANTS
  NServer = 2
  Shared = {2}
  MaxMsg = 3
  MaxUpset = 1
INVARIANTS
  StageIsTheMinimum
  RegionIsCurrent
  NoHiddenStream
  StartedMeansStreaming
  SettingsAccepted
PROPERTIES
  GuiStartsAll
  GuiGetsLimits
CHECK_DEADLOCK FALSE
