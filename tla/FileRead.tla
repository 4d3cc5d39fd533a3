------------------------------ MODULE FileRead ------------------------------
(***************************************************************************)
(* File::read() (fat32.cpp): reads of one File, one after the other, on a  *)
(* mounted volume.  The File's cursor cache lives on from one read to the  *)
(* next, whatever became of the read; the FAT is whatever the disk holds,  *)
(* chains that end early or run in a circle included, and every access to  *)
(* the disk may fail.  A byte's content is its address on the disk.        *)
(***************************************************************************)
EXTENDS Integers

CONSTANTS
  kSector,              \* bytes per sector
  sectors_per_cluster,
  cluster_count,
  data_start_sector,
  FatEntries,           \* what an entry of the FAT may hold: clusters and end marks
  FirstClusters,        \* what a directory entry may give as a file's first cluster
  FileSizes,            \* the sizes a directory entry may give
  Offsets, Lens         \* what callers ask for

valid_cluster(cluster) == cluster >= 2 /\ cluster < cluster_count + 2

Clusters == 2 .. cluster_count + 1

ASSUME ReadAssumption ==
  /\ kSector \in Nat \ {0} /\ sectors_per_cluster \in Nat \ {0}
  /\ cluster_count \in Nat \ {0} /\ data_start_sector \in Nat
  /\ FatEntries \subseteq Nat /\ FirstClusters \subseteq Nat
  /\ \E n \in FileSizes : \A m \in FileSizes : m <= n
  /\ FileSizes \subseteq Nat /\ Offsets \subseteq Nat /\ Lens \subseteq Nat

VARIABLES
  fat,                          \* the File Allocation Table on the disk
  file,                         \* first_cluster_, size_ and dir_ of the File
  cache_index_, cache_cluster_, \* its cursor cache
  pc, offset, len,              \* the read: where it is, and its arguments
  asked,                        \* the len it was called with
  cluster, at, done, out,       \* its locals, and the caller's buffer
  result,                       \* what it returns
  failed                        \* whether the disk has failed it

disk  == <<fat, file>>
cache == <<cache_index_, cache_cluster_>>
call  == <<offset, len, asked>>
vars  == <<disk, cache, pc, call, cluster, at, done, out, result, failed>>

cluster_bytes == sectors_per_cluster * kSector

cluster_lba(c) == data_start_sector + (c - 2) * sectors_per_cluster

(* The byte at offset b of sector lba.                                     *)
DiskByte(lba, b) == lba * kSector + b

Min(a, b) == IF a < b THEN a ELSE b

(* find() has made the File: a directory entry gives it any first cluster, *)
(* 0 for an empty file, and any size; the cache starts at 0.               *)
Init ==
  /\ fat \in [Clusters -> FatEntries]
  /\ file \in [first_cluster_ : FirstClusters, size_ : FileSizes, dir_ : BOOLEAN]
  /\ cache_index_ = 0 /\ cache_cluster_ = 0
  /\ pc = "idle" /\ offset = 0 /\ len = 0 /\ asked = 0
  /\ cluster = 0 /\ at = 0 /\ done = 0 /\ out = <<>> /\ result = 0
  /\ failed = FALSE

(* The early returns, and the clamping of len to the size of the file.     *)
Read(o, n) ==
  /\ pc = "idle"
  /\ offset' = o /\ asked' = n
  /\ IF file.dir_ \/ o >= file.size_ \/ n = 0
     THEN /\ pc' = "return"
          /\ result' = IF file.dir_ THEN -1 ELSE 0
          /\ len' = n
     ELSE /\ pc' = "loop"
          /\ len' = Min(n, file.size_ - o)
          /\ UNCHANGED result
  /\ UNCHANGED <<disk, cache, cluster, at, done, out, failed>>

Return(r) ==
  /\ pc' = "return"
  /\ result' = r

(* An access to the disk fails: every one of them makes read() return -1.  *)
DiskFails ==
  /\ failed' = TRUE
  /\ Return(-1)

index == (offset + done) \div cluster_bytes

(* Faulty: resumes from the cache even when it is past the target.         *)
LocateAnyCache ==
  /\ pc = "loop" /\ done < len
  /\ pc' = "walk"
  /\ IF valid_cluster(cache_cluster_)
     THEN cluster' = cache_cluster_ /\ at' = Min(cache_index_, index)
     ELSE cluster' = file.first_cluster_ /\ at' = 0
  /\ UNCHANGED <<disk, cache, call, done, out, result, failed>>

(* Faulty: starts from the cache but counts from the first cluster.        *)
LocateRestarts ==
  /\ pc = "loop" /\ done < len
  /\ pc' = "walk" /\ at' = 0
  /\ cluster' = IF valid_cluster(cache_cluster_) THEN cache_cluster_ ELSE file.first_cluster_
  /\ UNCHANGED <<disk, cache, call, done, out, result, failed>>

(* Start from the cache, if it is not past the target, or from the file's  *)
(* first cluster.                                                          *)
Locate ==
  /\ pc = "loop" /\ done < len
  /\ pc' = "walk"
  /\ IF valid_cluster(cache_cluster_) /\ cache_index_ <= index
     THEN cluster' = cache_cluster_ /\ at' = cache_index_
     ELSE cluster' = file.first_cluster_ /\ at' = 0
  /\ UNCHANGED <<disk, cache, call, done, out, result, failed>>

(* Faulty: the cache follows the walk, before its cluster is known valid.  *)
WalkMovesCache ==
  /\ pc = "walk" /\ at < index
  /\ \/ /\ ~valid_cluster(cluster)
        /\ Return(-1)
        /\ UNCHANGED <<cache, cluster, at, failed>>
     \/ /\ valid_cluster(cluster)
        /\ DiskFails
        /\ cache_index_' = at + 1
        /\ UNCHANGED <<cache_cluster_, cluster, at>>
     \/ /\ valid_cluster(cluster)
        /\ cluster' = fat[cluster]
        /\ at' = at + 1
        /\ UNCHANGED <<cache, pc, result, failed>>
  /\ UNCHANGED <<disk, call, done, out>>

(* One hop: fat_next(), which may fail.                                    *)
Walk ==
  /\ pc = "walk" /\ at < index
  /\ \/ /\ ~valid_cluster(cluster)
        /\ Return(-1)
        /\ UNCHANGED <<cluster, at, failed>>
     \/ /\ valid_cluster(cluster)
        /\ DiskFails
        /\ UNCHANGED <<cluster, at>>
     \/ /\ valid_cluster(cluster)
        /\ cluster' = fat[cluster]
        /\ at' = at + 1
        /\ UNCHANGED <<pc, result, failed>>
  /\ UNCHANGED <<disk, cache, call, done, out>>

(* The walk is over: the chain ended too early, or the cache moves here.   *)
Arrive ==
  /\ pc = "walk" /\ at >= index
  /\ IF valid_cluster(cluster)
     THEN /\ pc' = "copy"
          /\ cache_index_' = index /\ cache_cluster_' = cluster
          /\ UNCHANGED result
     ELSE Return(-1) /\ UNCHANGED cache
  /\ UNCHANGED <<disk, call, cluster, at, done, out, failed>>

within            == (offset + done) % cluster_bytes
sector_in_cluster == within \div kSector
byte_in_sector    == within % kSector
remaining         == len - done

(* Faulty: whole sectors even when less than one is wanted.                *)
ChunkZero ==
  IF byte_in_sector = 0
  THEN Min(remaining \div kSector, sectors_per_cluster - sector_in_cluster) * kSector
  ELSE Min(kSector - byte_in_sector, remaining)

(* How many bytes this turn of the loop copies: whole sectors up to the end*)
(* of the cluster, straight into the buffer, or a part of one sector.      *)
Chunk ==
  IF byte_in_sector = 0 /\ remaining >= kSector
  THEN Min(remaining \div kSector, sectors_per_cluster - sector_in_cluster) * kSector
  ELSE Min(kSector - byte_in_sector, remaining)

Copy ==
  /\ pc = "copy"
  /\ \/ /\ DiskFails
        /\ UNCHANGED <<done, out>>
     \/ /\ pc' = "loop"
        /\ done' = done + Chunk
        /\ out' = [j \in 0 .. done + Chunk - 1 |->
                     IF j < done THEN out[j]
                     ELSE DiskByte(cluster_lba(cluster) + sector_in_cluster, byte_in_sector + (j - done))]
        /\ UNCHANGED <<result, failed>>
  /\ UNCHANGED <<disk, cache, call, cluster, at>>

Finish ==
  /\ pc = "loop" /\ done >= len
  /\ Return(done)
  /\ UNCHANGED <<disk, cache, call, cluster, at, done, out, failed>>

(* Back to the caller, who may read again.                                 *)
Back ==
  /\ pc = "return"
  /\ pc' = "idle" /\ offset' = 0 /\ len' = 0 /\ asked' = 0
  /\ cluster' = 0 /\ at' = 0 /\ done' = 0 /\ out' = <<>> /\ result' = 0
  /\ failed' = FALSE
  /\ UNCHANGED <<disk, cache>>

Running == Locate \/ Walk \/ Arrive \/ Copy \/ Finish \/ Back

Next ==
  \/ \E o \in Offsets, n \in Lens : Read(o, n)
  \/ Running

Spec == Init /\ [][Next]_vars

(* A read that has begun goes on.                                          *)
FairSpec == Spec /\ WF_vars(Running)

-----------------------------------------------------------------------------
TypeOK ==
  /\ fat \in [Clusters -> FatEntries]
  /\ cache_index_ \in Nat /\ cache_cluster_ \in Clusters \cup {0}
  /\ pc \in {"idle", "loop", "walk", "copy", "return"}
  /\ offset \in Offsets \cup {0} /\ len \in Nat /\ asked \in Nat
  /\ cluster \in Nat /\ at \in Nat
  /\ done \in 0 .. len /\ DOMAIN out = 0 .. done - 1
  /\ result \in {-1} \cup 0 .. len /\ failed \in BOOLEAN

(* The reference: the cluster at each position of the file's chain, 0 past *)
(* its end, and the byte at each offset of the file.                       *)
MaxSize == CHOOSE n \in FileSizes : \A m \in FileSizes : m <= n

Chain[k \in 0 .. MaxSize] ==
  IF k = 0 THEN (IF valid_cluster(file.first_cluster_) THEN file.first_cluster_ ELSE 0)
  ELSE IF Chain[k - 1] # 0 /\ valid_cluster(fat[Chain[k - 1]]) THEN fat[Chain[k - 1]] ELSE 0

FileByte(n) ==
  DiskByte(cluster_lba(Chain[n \div cluster_bytes]), n % cluster_bytes)

(* How many of the bytes asked for the file has.                           *)
Present == IF offset < file.size_ THEN Min(asked, file.size_ - offset) ELSE 0

(* What was read, at any moment and after any earlier reads, is what is in *)
(* the file at that offset; and a read that succeeds gives all the bytes   *)
(* that were asked for and that the file has, and no others.               *)
ReadsFile ==
  /\ \A j \in DOMAIN out : Chain[(offset + j) \div cluster_bytes] # 0 /\ out[j] = FileByte(offset + j)
  /\ pc = "return" /\ result # -1 => result = Present /\ DOMAIN out = 0 .. result - 1

(* -1 means a directory, a disk error, or a chain that ends before the last*)
(* byte asked for that the size gives the file: the cache never makes a    *)
(* readable range unreadable.                                              *)
FailsForReason ==
  pc = "return" /\ result = -1 =>
    file.dir_ \/ failed \/ Chain[(offset + Present - 1) \div cluster_bytes] = 0

(* The cursor cache, if set, names the cluster at its position of the chain*)
(* whatever reads came before, the failed ones included; and the state is  *)
(* well typed: only clusters that were tested are cached.                  *)
CacheSound ==
  /\ TypeOK
  /\ valid_cluster(cache_cluster_) => cache_cluster_ = Chain[cache_index_]

(* Every read returns, a circular chain included.                          *)
ReadReturns == pc = "loop" ~> pc = "return"
=============================================================================
