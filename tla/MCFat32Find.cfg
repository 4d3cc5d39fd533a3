CONSTANTS
  sectors_per_cluster = 1
  cluster_count = 2
  root_cluster = 2
  EntriesPerSector = 2
  kBase = 2
  kExt = 1
  kPiece = 2
  kMaxNameLen = 4
  Lookups <- MCLookups
SPECIFICATION FairSpec
INVARIANTS
  InBounds
  FindsPath
PROPERTIES
  FindReturns
