CONSTANTS
  Procs = {p1, p2}
  IdxRange = 4
  RegRange = 2
  Counts = {0, 1, 2, 3}
  kQueueSize = 8
  Buses <- MCBuses
  MaxReads = 2
  Timeouts = TRUE
SPECIFICATION FairSpec
CHECK_DEADLOCK FALSE
INVARIANTS
  ReadsRightUntilLate
  RequestInRange
  InStep
PROPERTIES
  ReadReturns
