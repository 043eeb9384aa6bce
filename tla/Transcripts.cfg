SPECIFICATION Spec
CONSTANTS
  Halves = {"transcripts"}
  MaxRow = 1
  MaxCard = 1
  MaxChanges = 0
  Sessions = {s1, s2}
  NoSession = NoSession
  PageSize = 2
  Keep = 1
  MaxLen = 4
  MaxCommands = 4
  MaxFaults = 2
  MaxReads = 2
  MaxBus = 2
SYMMETRY Symmetry
INVARIANTS
  TypeOK
  Kept
CHECK_DEADLOCK FALSE
