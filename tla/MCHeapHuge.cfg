CONSTANTS
  Procs = {p1}
  kAlignment = 2
  kArenaSize = 14
  SizeBits = 6
  Sizes = {1, 63}
  NULL = NULL
SPECIFICATION Spec
INVARIANTS
  RoomForSize
