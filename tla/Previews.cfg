SPECIFICATION Spec
CONSTANTS
  Names = {web}
  PortChecks = 1
  MaxListens = 1
  MaxShells = 2
  MaxCalls = 2
  MaxCommands = 3
  MaxFaults = 2
CONSTRAINT Focus
INVARIANTS
  TypeOK
  Accounted
  Told
CHECK_DEADLOCK FALSE
