CONSTANTS
  Procs = {p1}
  IdxRange = 4
  RegRange = 2
  Counts = {1}
  kQueueSize = 8
  Buses <- LateBuses
  MaxReads = 2
  Timeouts = TRUE
SPECIFICATION Spec
CHECK_DEADLOCK FALSE
INVARIANTS
  ReadsRight
