SPECIFICATION FairSpec
CONSTANTS
  MaxChanges = 1
  MaxLines = 2
  MaxEffects = 2
  MaxFaults = 1
INVARIANTS
  TypeOK
  Served
PROPERTIES
  Healed
CHECK_DEADLOCK FALSE
