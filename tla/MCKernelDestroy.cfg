CONSTANTS
  c1 = c1
  c2 = c2
  t1 = t1
  t2 = t2
  s1 = s1
  Boot = Boot
  NULL = NULL
  Cores <- MCCores
  Bsp = c1
  Threads <- MCThreads
  Sems <- MCSems
  Mutexes = {}
  InitCount <- MCCount
  MaxOps = 3
SPECIFICATION DestroySpec
CHECK_DEADLOCK FALSE
INVARIANTS
  DestroyedWhenNoneBlocked
