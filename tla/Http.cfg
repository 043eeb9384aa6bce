SPECIFICATION Spec
CONSTANTS
  Reads = {}
  Tasks = {t}
  Streams = {s}
  Macs = {m1}
  NoMac = NoMac
  MaxConns = 4
  MaxServices = 2
  MaxCommands = 1
  MaxFaults = 1
INVARIANTS
  TypeOK
  OneConnection
  DoneOnce
PROPERTIES
  Settles
CHECK_DEADLOCK FALSE
