CONSTANTS
  c1 = c1
  c2 = c2
  t1 = t1
  t2 = t2
  t3 = t3
  m1 = m1
  s1 = s1
  Boot = Boot
  NULL = NULL
  Cores <- MCCores
  Bsp = c1
  Threads <- MCThreads
  Sems <- MCSems
  Mutexes <- MCMutexes
  InitCount <- MCCount
  MaxOps = 5
SPECIFICATION Spec
SYMMETRY ThreadSymmetry
INVARIANTS
  OneStack
  OnePlace
  NoThreadLost
  NoPanic
  QueuedIsSaved
  CounterCountsBlocked
  MutexExclusive
  IInv
PROPERTIES
  ImplementsSemaphores
