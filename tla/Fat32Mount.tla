----------------------------- MODULE Fat32Mount -----------------------------
(***************************************************************************)
(* Fat32::Fat32() (fat32.cpp): mounting a volume.  The boot sector is read,*)
(* its fields are decoded and checked, and the geometry everything else is *)
(* computed from is derived, in unsigned integers of four bytes.  A byte   *)
(* has Radix values (256 in the code), and a cluster number in the FAT is  *)
(* at most FatMask (0x0FFFFFFF).  The disk holds whatever it holds, and any*)
(* read of it may fail.  With the geometry that was derived, fat_next()    *)
(* finds the FAT's entries.                                                *)
(***************************************************************************)
EXTENDS Integers, Sequences

CONSTANTS
  Radix, FatMask,
  kSectorSize, \* bytes per sector
  Signature,   \* the two bytes at the end of a boot sector
  FsInfoMagic, \* the two magic numbers of an FSInfo sector
  Fat32Label,  \* the type label, "FAT32   "
  Space,
  Disks,       \* the disks: boot sector and FSInfo, size in sectors, image
  DiskImages   \* what a disk of an image holds, in words of four bytes

VARIABLES
  bpb,         \* what the boot sector and the FSInfo sector on the disk say
  disk_,       \* valid(), sector_count(), its image, and whether a read has failed
  stage,
  valid_,
  meta_        \* the Fat32Metadata, as far as it has been filled in

volume == <<bpb, disk_, stage, valid_, meta_>>

(* What a byte is worth, by its place.                                     *)
Weight == <<1, Radix, Radix * Radix, Radix * Radix * Radix>>

(* The numbers of so many bytes.                                           *)
Numbers(bytes) == 0 .. Weight[bytes] * Radix - 1

UInt(n) == n % (Weight[4] * Radix)

(* The format: where each field of the boot sector is, and how many bytes  *)
(* it has, least significant first; text is a sequence of bytes.           *)
BootLayout ==
  [bytes_per_sector |-> <<11, 2>>, sectors_per_cluster |-> <<13, 1>>, reserved_sectors |-> <<14, 2>>,
   num_fats |-> <<16, 1>>, root_entries |-> <<17, 2>>, total16 |-> <<19, 2>>, fat_size16 |-> <<22, 2>>,
   total32 |-> <<32, 4>>, sectors_per_fat |-> <<36, 4>>, root_cluster |-> <<44, 4>>,
   fsinfo_sector |-> <<48, 2>>, volume_id |-> <<67, 4>>, signature |-> <<510, 2>>]

FsInfoLayout == [lead |-> <<0, 4>>, struct |-> <<484, 4>>, free_clusters |-> <<488, 4>>]

Fits(sector, layout) == \A f \in DOMAIN layout : sector[f] \in Numbers(layout[f][2])

ASSUME MountAssumption ==
  /\ Radix \in Nat \ {0, 1} /\ Radix % 2 = 0
  /\ kSectorSize \in Nat /\ kSectorSize % 4 = 0 /\ kSectorSize >= 8
  /\ FatMask \in Nat
  /\ \A d \in Disks :
       /\ Fits(d.boot, BootLayout) /\ Fits(d.boot, FsInfoLayout)
       /\ d.boot.label \in [1 .. 11 -> Int] /\ d.boot.type \in [1 .. 8 -> Int]
       /\ d.sector_count \in Nat
       /\ \A w \in 0 .. d.sector_count * (kSectorSize \div 4) - 1 : DiskImages[d.image][w] \in Numbers(4)

(* Byte n of a sector with that layout.                                    *)
ByteAt(layout, n) ==
  LET fs == {f \in DOMAIN layout : n \in layout[f][1] .. layout[f][1] + layout[f][2] - 1}
      f == CHOOSE f \in fs : TRUE
  IN  IF fs = {} THEN 0 ELSE (bpb[f] \div Weight[n - layout[f][1] + 1]) % Radix

byte(n) ==
  IF n \in 71 .. 81 THEN bpb.label[n - 70]
  ELSE IF n \in 82 .. 89 THEN bpb.type[n - 81]
  ELSE ByteAt(BootLayout, n)

Text(n, bytes) == [i \in 1 .. bytes |-> byte(n + i - 1)]

le16(n) == byte(n) + byte(n + 1) * Weight[2]

(* Faulty: the most significant byte first.                                *)
Be32(layout, n) ==
  ByteAt(layout, n + 3) + ByteAt(layout, n + 2) * Weight[2] + ByteAt(layout, n + 1) * Weight[3]
    + ByteAt(layout, n) * Weight[4]

le32(layout, n) ==
  ByteAt(layout, n) + ByteAt(layout, n + 1) * Weight[2] + ByteAt(layout, n + 2) * Weight[3]
    + ByteAt(layout, n + 3) * Weight[4]

(* The difference of the first bytes that differ.                          *)
memcmp(a, b) ==
  LET differ == {n \in 1 .. Len(a) : a[n] # b[n]}
      n == CHOOSE n \in differ : \A m \in differ : n <= m
  IN  IF differ = {} THEN 0 ELSE a[n] - b[n]

(* The label without its padding.                                          *)
Trimmed(label) ==
  SubSeq(label, 1, CHOOSE n \in 0 .. Len(label) :
                     /\ n > 0 => label[n] # Space
                     /\ \A m \in n + 1 .. Len(label) : label[m] = Space)

(* valid_cluster() and cluster_lba(), by the meta_ filled in so far.       *)
meta_valid_cluster(cluster) == cluster >= 2 /\ cluster < UInt(meta_.cluster_count + 2)

meta_cluster_lba(cluster) == meta_.data_start_sector + (cluster - 2) * meta_.sectors_per_cluster

(* Faulty: entries of two bytes, as FAT16 has.                             *)
ByteOffTwo(cluster) == UInt(cluster * 2)

byte_off(cluster) == UInt(cluster * 4)

(* The sector fat_next() reads, and the place of the entry in it.          *)
FatSector(cluster) == meta_.reserved_sectors + byte_off(cluster) \div kSectorSize

FatPlace(cluster) == byte_off(cluster) % kSectorSize

word(w) == DiskImages[disk_.image][w]

(* Byte b of a sector of the disk.                                         *)
SectorByte(lba, b) ==
  LET n == lba * kSectorSize + b IN (word(n \div 4) \div Weight[(n % 4) + 1]) % Radix

(* What fat_next() reads if the disk does not fail it: a number in little  *)
(* endian, without its top four bits.                                      *)
fat_next(cluster) ==
  LET B(k) == SectorByte(FatSector(cluster), FatPlace(cluster) + k)
  IN  (B(0) + B(1) * Weight[2] + B(2) * Weight[3] + B(3) * Weight[4]) % (FatMask + 1)

Unknown == UInt(-1)

MountInit ==
  /\ \E d \in Disks, valid \in BOOLEAN :
       /\ bpb = d.boot
       /\ disk_ = [valid |-> valid, sector_count |-> d.sector_count, image |-> d.image, failed |-> FALSE]
  /\ stage = "start"
  /\ valid_ = FALSE
  /\ meta_ = [sectors_per_cluster |-> 0, reserved_sectors |-> 0, num_fats |-> 0, sectors_per_fat |-> 0,
              root_cluster |-> 0, total_sectors |-> 0, volume_id |-> 0, label |-> <<>>, data_start_sector |-> 0, cluster_count |-> 0,
              free_clusters_hint |-> 0]

(* Every early return leaves the volume unmounted.                         *)
GiveUp == stage' = "done" /\ UNCHANGED <<bpb, disk_, valid_, meta_>>

NoDisk == stage = "start" /\ ~disk_.valid /\ GiveUp

BootFails ==
  /\ stage = "start" /\ disk_.valid
  /\ stage' = "done"
  /\ disk_' = [disk_ EXCEPT !.failed = TRUE]
  /\ UNCHANGED <<bpb, valid_, meta_>>

IsFat32 ==
  /\ byte(510) = Signature[1] /\ byte(511) = Signature[2]
  /\ le16(11) = kSectorSize
  /\ le16(17) = 0 /\ le16(22) = 0 /\ le32(BootLayout, 36) # 0
  /\ memcmp(Text(82, 8), Fat32Label) = 0

NotFat32 == stage = "start" /\ disk_.valid /\ ~IsFat32 /\ GiveUp

ReadBoot ==
  /\ stage = "start" /\ disk_.valid /\ IsFat32
  /\ stage' = "geometry"
  /\ meta_' = [meta_ EXCEPT
       !.sectors_per_cluster = byte(13),
       !.reserved_sectors = le16(14),
       !.num_fats = byte(16),
       !.sectors_per_fat = le32(BootLayout, 36),
       !.root_cluster = le32(BootLayout, 44),
       !.total_sectors = IF le16(19) # 0 THEN le16(19) ELSE le32(BootLayout, 32),
       !.volume_id = le32(BootLayout, 67),
       !.label = Trimmed(Text(71, 11))]
  /\ UNCHANGED <<bpb, disk_, valid_>>

IsPowerOfTwo(n) == n \in {1, 2, 4, 8, 16, 32, 64, 128}

(* Faulty: multiplies in 32 bits.                                          *)
DataStartWraps == meta_.reserved_sectors + UInt(meta_.num_fats * meta_.sectors_per_fat)

data_start == meta_.reserved_sectors + meta_.num_fats * meta_.sectors_per_fat

SaneGeometry ==
  /\ IsPowerOfTwo(meta_.sectors_per_cluster)
  /\ meta_.num_fats # 0 /\ meta_.reserved_sectors # 0
  /\ data_start < meta_.total_sectors
  /\ meta_.total_sectors <= disk_.sector_count

Insane == stage = "geometry" /\ ~SaneGeometry /\ GiveUp

ClusterCount == UInt((meta_.total_sectors - data_start) \div meta_.sectors_per_cluster)

Geometry ==
  /\ stage = "geometry" /\ SaneGeometry
  /\ stage' = "root"
  /\ meta_' = [meta_ EXCEPT !.data_start_sector = UInt(data_start), !.cluster_count = ClusterCount]
  /\ UNCHANGED <<bpb, disk_, valid_>>

BadRoot == stage = "root" /\ ~meta_valid_cluster(meta_.root_cluster) /\ GiveUp

(* FSInfo is optional: if it is not there or not readable the hint is      *)
(* unknown, and the volume is mounted all the same.                        *)
Mounted(hint) ==
  /\ stage = "root" /\ meta_valid_cluster(meta_.root_cluster)
  /\ stage' = "done"
  /\ valid_' = TRUE
  /\ meta_' = [meta_ EXCEPT !.free_clusters_hint = hint]
  /\ UNCHANGED bpb

NamesFsInfo == le16(48) # 0 /\ le16(48) < meta_.reserved_sectors

IsFsInfo == le32(FsInfoLayout, 0) = FsInfoMagic[1] /\ le32(FsInfoLayout, 484) = FsInfoMagic[2]

FsInfoFails == NamesFsInfo /\ Mounted(Unknown) /\ disk_' = [disk_ EXCEPT !.failed = TRUE]

FsInfo == NamesFsInfo /\ IsFsInfo /\ Mounted(le32(FsInfoLayout, 488)) /\ UNCHANGED disk_

NoFsInfo == ~(NamesFsInfo /\ IsFsInfo) /\ Mounted(Unknown) /\ UNCHANGED disk_

MountNext ==
  \/ NoDisk \/ BootFails \/ NotFat32 \/ ReadBoot \/ Insane \/ Geometry \/ BadRoot
  \/ FsInfoFails \/ FsInfo \/ NoFsInfo

MountSpec == MountInit /\ [][MountNext]_volume

-----------------------------------------------------------------------------
(* Every cluster of a mounted volume is one that valid_cluster() accepts,  *)
(* lies behind all copies of the FAT and, to its last sector, on the disk: *)
(* no product, sum or narrowing in the derivation of the geometry wraps.   *)
(* The root directory is one of them, and no whole cluster is left out.    *)
ClustersOnDisk ==
  valid_ =>
    /\ meta_.root_cluster \in 2 .. meta_.cluster_count + 1
    /\ meta_cluster_lba(meta_.cluster_count + 2) + meta_.sectors_per_cluster > meta_.total_sectors
    /\ \A c \in 2 .. meta_.cluster_count + 1 :
         /\ meta_valid_cluster(c)
         /\ meta_cluster_lba(c) >= bpb.reserved_sectors + bpb.num_fats * bpb.sectors_per_fat
         /\ meta_cluster_lba(c) + bpb.sectors_per_cluster <= meta_.total_sectors
         /\ meta_.total_sectors <= disk_.sector_count

(* What a mounted volume says of itself is what its boot sector says: each *)
(* field is taken from its place, at its width and byte order, a 16-bit    *)
(* sector count goes before the 32-bit one, the label is the one on the    *)
(* disk but for its padding, and the hint is that of the FSInfo sector, if *)
(* there is one in the reserved area and the disk did not fail, and unknown*)
(* if not.                                                                 *)
MetadataIsDisks ==
  valid_ =>
    /\ \A f \in {"sectors_per_cluster", "reserved_sectors", "num_fats", "sectors_per_fat", "root_cluster",
                  "volume_id"} : meta_[f] = bpb[f]
    /\ meta_.total_sectors \in {bpb.total16, bpb.total32} \ {0}
    /\ bpb.total16 # 0 => meta_.total_sectors = bpb.total16
    /\ \A n \in 1 .. 11 :
         IF n \in DOMAIN meta_.label THEN meta_.label[n] = bpb.label[n] ELSE bpb.label[n] = Space
    /\ meta_.label # <<>> => meta_.label[Len(meta_.label)] # Space
    /\ meta_.free_clusters_hint =
         IF /\ bpb.fsinfo_sector \in 1 .. bpb.reserved_sectors - 1 /\ ~disk_.failed
            /\ bpb.lead = FsInfoMagic[1] /\ bpb.struct = FsInfoMagic[2]
         THEN bpb.free_clusters ELSE Unknown

(* For every cluster N of a mounted volume fat_next() reads a sector of the*)
(* disk, four bytes inside that sector, and gets the low 28 bits of entry N*)
(* of the array of words that begins where the reserved sectors end, unless*)
(* byte_off wraps, which it cannot for an N of 28 bits.                    *)
FatNextReadsEntry ==
  valid_ =>
    \A c \in 2 .. meta_.cluster_count + 1 :
      /\ FatSector(c) \in bpb.reserved_sectors .. disk_.sector_count - 1
      /\ FatPlace(c) + 3 < kSectorSize
      /\ c * 4 \in Numbers(4) => fat_next(c) = word(bpb.reserved_sectors * (kSectorSize \div 4) + c) % (FatMask + 1)
=============================================================================
