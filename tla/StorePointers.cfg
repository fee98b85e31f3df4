SPECIFICATION MCStoreSpec
CONSTANTS
  NServer = 2
  NCam = 1
  MaxDiscovery = 1
  MaxFrame = 1
INVARIANTS
  KeyedByOwner
CHECK_DEADLOCK FALSE
