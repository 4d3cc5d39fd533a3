---------------------------- MODULE Fat32Volume -----------------------------
(***************************************************************************)
(* A volume is mounted (Fat32Mount), then a File on it is read (FileRead), *)
(* by the geometry and through the FAT that are on its disk.  FileRead's   *)
(* constants are the geometry of the volumes whose files are read.         *)
(***************************************************************************)
EXTENDS FileRead, Fat32Mount

CONSTANT Entries \* the directory entries on a disk of an image, as find() gives them

ASSUME VolumeAssumption == kSector = kSectorSize

(* The FAT on the disk: an array of words behind the reserved sectors.     *)
FatOnDisk ==
  [c \in Clusters |-> word(bpb.reserved_sectors * (kSectorSize \div 4) + c) % (FatMask + 1)]

VolumeInit ==
  /\ MountInit
  /\ fat = FatOnDisk
  /\ file \in Entries[disk_.image]
  /\ Init

(* valid(), on a volume of FileRead's geometry.  fat_next() then finds the *)
(* links that FileRead follows (FatNextReadsEntry).                        *)
Usable ==
  /\ valid_
  /\ meta_.sectors_per_cluster = sectors_per_cluster
  /\ meta_.cluster_count = cluster_count
  /\ meta_.data_start_sector = data_start_sector

Mount == MountNext /\ UNCHANGED vars

ReadFile == Usable /\ Next /\ UNCHANGED volume

VolumeNext == Mount \/ ReadFile

VolumeSpec == VolumeInit /\ [][VolumeNext]_<<volume, vars>>

(* A read that has begun goes on.                                          *)
FairVolumeSpec == VolumeSpec /\ WF_<<volume, vars>>(Running /\ UNCHANGED volume)
=============================================================================
