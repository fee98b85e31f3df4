SPECIFICATION Spec
CONSTANTS
  s1 = s1  s2 = s2
  Server <- MCServer
  Kind = {"trigger", "stack"}
  NFrames = {0, 1, 2}
  MayRefuse = TRUE
  MayTimeOut = TRUE
  MaxCall = 3
  MaxConn = 2
SYMMETRY MCSym
INVARIANTS
  OwnFrames
  CompleteMeansDelivered
CHECK_DEADLOCK FALSE
