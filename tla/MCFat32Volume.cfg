CONSTANTS
  Radix = 4
  FatMask = 15
  kSectorSize = 8
  Signature <- MCSignature
  FsInfoMagic <- MCFsInfoMagic
  Fat32Label <- MCFat32Label
  Space = 0
  Disks <- MCDisks
  DiskImages <- MCDiskImages
  kSector = 8
  sectors_per_cluster = 2
  cluster_count = 3
  data_start_sector = 4
  FatEntries = {0, 1, 2, 3, 4, 5, 6, 7, 8, 9, 10, 11, 12, 13, 14, 15}
  FirstClusters = {0, 2}
  FileSizes = {27, 40}
  Offsets = {0, 11, 16, 24, 37}
  Lens = {0, 3, 16, 40}
  Entries <- MCEntries
SPECIFICATION FairVolumeSpec
CHECK_DEADLOCK FALSE
INVARIANTS
  ClustersOnDisk
  MetadataIsDisks
  FatNextReadsEntry
  ReadsFile
  FailsForReason
  CacheSound
PROPERTIES
  ReadReturns
