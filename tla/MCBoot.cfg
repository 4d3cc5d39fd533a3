CONSTANTS
  Cores = {c1, c2, c3}
  Bsp = c1
  FifoSize = 1
  kMaxCores = 3
  AddressSpace = 16
  Images <- MCImages
  TableOffset = 5
  MayPanic = {c1}
  Unknown = Unknown
SPECIFICATION FairSpec
INVARIANTS
  NoFault
  OwnSlot
PROPERTIES
  PrintIsAtomic
  AllCoresIdle
