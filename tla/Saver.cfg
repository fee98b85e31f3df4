SPECIFICATION MCSpec
CONSTANTS
  s1 = s1  s2 = s2  c1 = c1  c2 = c2
  Server = {s1, s2}
  Cam <- TwoCams
  Shots <- SomeShot
  Kind <- TwoKinds
  SendImage = {TRUE}
  Unrecorded = TRUE
  Restarted = {s1}
  MaxRun = 2
  MaxShot = 2
  MaxFrameId = 2
  MaxFlush = 1
INVARIANTS
  EveryFrameAccountedFor
  WaitedForIsSettled
  
PROPERTIES
  NobodyHangs
CHECK_DEADLOCK FALSE
