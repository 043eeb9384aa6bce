SPECIFICATION Spec
CONSTANTS
  Ports = {p, q}
  MaxEffects = 2
  MaxFollows = 2
  MaxChanges = 1
  MaxPanes = 2
  MaxConns = 2
  MaxOutput = 2
  Models = {a, b}
  None = None
  MaxSwitches = 2
  MaxVisits = 1
  MaxMessages = 3
  MaxParts = 4
  Versions = {1, 2, 3}
  MaxChecks = 2
  MaxRestarts = 2
  MaxErrors = 2
  MaxQuits = 2
  Phones = {phone}
  MaxProcs = 3
  MaxKills = 1
  MaxFaults = 1
SYMMETRY Symmetry
CONSTRAINT FewStart
INVARIANTS
  TypeOK
  Followed
  OneTerminal
  ModelShown
  UpdateTold
  HomeKept
PROPERTIES
  TimelineKept
CHECK_DEADLOCK FALSE
