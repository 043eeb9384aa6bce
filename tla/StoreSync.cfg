SPECIFICATION Spec
CONSTANTS
  Halves = {"list"}
  MaxRow = 3
  MaxCard = 2
  MaxChanges = 3
  Sessions = {}
  NoSession = NoSession
  PageSize = 1
  Keep = 1
  MaxLen = 2
  MaxCommands = 0
  MaxFaults = 1
  MaxReads = 2
  MaxBus = 3
INVARIANTS
  TypeOK
  StoreAgrees
CHECK_DEADLOCK FALSE
