SPECIFICATION Spec
CONSTANTS
  Phones = {known, new}
  Paired = {known}
  Outdated = {known}
  MaxConns = 2
  MaxFrames = 1
  MaxWindows = 1
  MaxFaults = 1
INVARIANTS
  TypeOK
  Gated
PROPERTIES
  Reaped
CHECK_DEADLOCK FALSE
