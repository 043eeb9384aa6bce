SPECIFICATION Spec
CONSTANTS
  MaxEvents = 3
  MaxReads = 2
  MaxBus = 2
  MaxFaults = 1
INVARIANTS
  TypeOK
  Settled
  InTurn
CHECK_DEADLOCK FALSE
