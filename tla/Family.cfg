SPECIFICATION Spec
CONSTANTS
  Parent <- Tree
  MaxTurns = 1
  MaxChanges = 2
  MaxFaults = 1
  MaxCalls = 2
  MaxBus = 1
INVARIANTS
  TypeOK
  FamilyAgrees
CHECK_DEADLOCK FALSE
