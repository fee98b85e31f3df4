SPECIFICATION FairSpec
CONSTANTS
  Address = {"a", "b"}
  Config = {"both", "one", "off"}
  Bad = {"bad"}
  ServersOf <- MCServersOf
  DirOf <- MCDirOf
  SaveOf <- MCSaveOf
  First = "both"
  MaxLoad = 2
  MaxCapture = 2
  MaxFault = 1
INVARIANTS
  CallbacksFindTheirSession
  FiledUnderItsServer
  EveryCaptureIsWritten
  StoreIsThisSessions
PROPERTIES
  EndsConnected
CHECK_DEADLOCK FALSE
