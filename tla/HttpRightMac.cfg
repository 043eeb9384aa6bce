SPECIFICATION Spec
CONSTANTS
  Reads = {r1, r2}
  Tasks = {}
  Streams = {}
  Macs = {m1, m2}
  NoMac = NoMac
  MaxConns = 4
  MaxServices = 1
  MaxCommands = 1
  MaxFaults = 0
INVARIANTS
  RightMac
CHECK_DEADLOCK FALSE
