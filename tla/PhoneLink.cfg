SPECIFICATION FairSpec
CONSTANTS
  Macs = {m1, m2}
  NoMac = NoMac
  Rpcs = {r1}
  MaxEpoch = 5
  MaxCommands = 2
  MaxFaults = 2
INVARIANTS
  TypeOK
  NoLeakedWire
  LatestOwns
  RetryArmed
  StoredShown
PROPERTIES
  Implements
  SentSettles
CHECK_DEADLOCK FALSE
