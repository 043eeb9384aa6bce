SPECIFICATION Spec
CONSTANTS
  InboxInPage = FALSE
  MaxId = 4
  MaxCommands = 2
  MaxFaults = 1
  MaxReads = 2
  MaxBus = 3
  MaxStaged = 2
INVARIANTS
  TypeOK
  OptimisticShown
  SubmissionOrder
  RowsAgree
CHECK_DEADLOCK FALSE
