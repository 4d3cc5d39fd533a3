CONSTANTS
  Procs = {p1, p2}
  kAlignment = 2
  kArenaSize = 16
  SizeBits = 6
  Sizes = {0, 1, 3}
  NULL = NULL
SPECIFICATION FairSpec
INVARIANTS
  TilesArena
  Coalesced
  InUseIsOwned
  RoomForSize
PROPERTIES
  FailsOnlyWhenFull
  ImplementsAllocator
  LockReleased
