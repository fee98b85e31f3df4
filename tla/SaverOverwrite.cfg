SPECIFICATION OverwriteSpec
CONSTANTS
  s1 = s1  s2 = s2  c1 = c1  c2 = c2
  Server = {s1}
  Cam = {c1}
  Shots <- OneShot
  Kind <- TwoKinds
  SendImage = {FALSE}
  Unrecorded = FALSE
  Restarted = {s1}
  MaxRun = 2
  MaxShot = 1
  MaxFrameId = 1
  MaxFlush = 0
INVARIANTS
  SavedStaysOnDisk
CHECK_DEADLOCK FALSE
