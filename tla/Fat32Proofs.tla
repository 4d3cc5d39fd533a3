---------------------------- MODULE Fat32Proofs ----------------------------
(***************************************************************************)
(* Proofs about Fat32Volume and its parts.  FileRead: for any geometry, FAT,*)
(* file and sequence of reads, with a disk that may fail at every access,  *)
(* what File::read() returns is the file, and its cursor cache names the   *)
(* right cluster.  Fat32Mount: for any even size of a byte, any disk and   *)
(* any boot sector, the fields of a mounted volume are those of its boot   *)
(* sector, its clusters lie on its disk, and fat_next() reads their entries*)
(* of the FAT.  Fat32Volume: these are the links that File::read() follows.*)
(***************************************************************************)
EXTENDS Fat32Volume, TLAPS, WellFoundedInduction

-----------------------------------------------------------------------------
(* Induction over the naturals, for sets of them.                          *)

(* A set of naturals that is not empty has a least element. *)
LEMMA Least ==
  ASSUME NEW T, T \subseteq Nat, T # {}
  PROVE  \E n \in T : \A m \in T : n <= m
<1> DEFINE R == OpToRel(<, Nat)
<1>1. IsWellFoundedOn(R, Nat)
  BY NatLessThanWellFounded, Zenon
<1>2. \A a, b \in Nat : a < b => <<a, b>> \in R
  BY Zenon DEF OpToRel
<1> HIDE DEF R
<1>3. PICK x \in T : \A y \in T : ~ (<<y, x>> \in R)
  BY <1>1, WFMin, Zenon
<1>4. ASSUME NEW y \in T PROVE x <= y
  <2>1. ~ (y < x)
    BY <1>2, <1>3, Zenon
  <2> QED BY <2>1
<1> QED BY <1>4, Zenon

(* A set with 0 in it and with every successor of its elements holds all   *)
(* naturals.                                                               *)
LEMMA Induction ==
  ASSUME NEW T, 0 \in T, \A n \in Nat : n \in T => n + 1 \in T
  PROVE  \A n \in Nat : n \in T
<1> SUFFICES ASSUME Nat \ T # {} PROVE FALSE
  OBVIOUS
<1>1. PICK n \in Nat \ T : \A m \in Nat \ T : n <= m
  BY Least, Zenon
<1>2. n # 0 /\ n - 1 \in Nat
  BY <1>1
<1>3. n - 1 \in T
  BY <1>1, <1>2
<1> QED BY <1>1, <1>2, <1>3

-----------------------------------------------------------------------------
(* The chain of the file.                                                  *)

First == IF valid_cluster(file.first_cluster_) THEN file.first_cluster_ ELSE 0

Hop(c) == IF c # 0 /\ valid_cluster(fat[c]) THEN fat[c] ELSE 0

FileTypes ==
  /\ fat \in [Clusters -> FatEntries]
  /\ file \in [first_cluster_ : FirstClusters, size_ : FileSizes, dir_ : BOOLEAN]

(* valid_cluster() accepts the clusters of the volume. *)
LEMMA ValidIsCluster == \A c \in Nat : valid_cluster(c) <=> c \in Clusters
BY ReadAssumption DEF valid_cluster, Clusters

(* MaxSize is the largest size a file can have. *)
LEMMA MaxSizeMax == MaxSize \in Nat /\ \A n \in FileSizes : n <= MaxSize
BY ReadAssumption, Zenon DEF MaxSize

(* A position of the chain holds a cluster, or 0. *)
LEMMA HopType ==
  ASSUME FileTypes
  PROVE  /\ First \in Clusters \cup {0}
         /\ \A c \in Clusters \cup {0} : Hop(c) \in Clusters \cup {0}
<1>1. First \in Clusters \cup {0}
  BY ValidIsCluster, ReadAssumption, Zenon DEF First, FileTypes
<1>2. ASSUME NEW c \in Clusters \cup {0} PROVE Hop(c) \in Clusters \cup {0}
  BY ValidIsCluster, ReadAssumption, Zenon DEF Hop, FileTypes
<1> QED BY <1>1, <1>2, Zenon

(* The recursion that defines Chain has a solution. *)
LEMMA ChainExists ==
  ASSUME FileTypes, NEW n \in Nat
  PROVE  \E f : f = [k \in 0 .. n |-> IF k = 0 THEN First ELSE Hop(f[k - 1])]
<1> DEFINE Good(m, f) == f[0] = First /\ \A k \in 1 .. m : f[k] = Hop(f[k - 1])
           C == Clusters \cup {0}
           T == {m \in Nat : \E f \in [0 .. m -> C] : Good(m, f)}
<1>1. 0 \in T
  <2> DEFINE f == [k \in 0 .. 0 |-> First]
  <2>1. f \in [0 .. 0 -> C] /\ Good(0, f)
    BY HopType
  <2> QED BY <2>1, Zenon
<1>2. ASSUME NEW m \in Nat, m \in T PROVE m + 1 \in T
  <2>1. PICK f \in [0 .. m -> C] : Good(m, f)
    BY <1>2, Zenon
  <2> DEFINE g == [k \in 0 .. m + 1 |-> IF k = m + 1 THEN Hop(f[m]) ELSE f[k]]
  <2>2. g \in [0 .. m + 1 -> C]
    <3> SUFFICES ASSUME NEW k \in 0 .. m + 1 PROVE g[k] \in C
      OBVIOUS
    <3>1. f[m] \in C
      OBVIOUS
    <3>2. Hop(f[m]) \in C
      BY <3>1, HopType, Zenon
    <3> QED BY <3>2
  <2>3. g[0] = First
    BY <2>1
  <2>4. ASSUME NEW k \in 1 .. m + 1 PROVE g[k] = Hop(g[k - 1])
    <3>1. g[k - 1] = f[k - 1]
      OBVIOUS
    <3>2. g[k] = Hop(f[k - 1])
      BY <2>1
    <3> QED BY <3>1, <3>2, Zenon
  <2> HIDE DEF g
  <2> QED BY <2>2, <2>3, <2>4
<1> HIDE DEF T
<1>3. n \in T
  BY <1>1, <1>2, Induction, Zenon
<1>4. PICK f \in [0 .. n -> C] : Good(n, f)
  BY <1>3, Zenon DEF T
<1>5. f = [k \in 0 .. n |-> IF k = 0 THEN First ELSE Hop(f[k - 1])]
  BY <1>4
<1> QED BY <1>5, Zenon

(* Chain solves the recursion that defines it. *)
LEMMA ChainRec ==
  ASSUME FileTypes
  PROVE  Chain = [k \in 0 .. MaxSize |-> IF k = 0 THEN First ELSE Hop(Chain[k - 1])]
<1>1. \E f : f = [k \in 0 .. MaxSize |-> IF k = 0 THEN First ELSE Hop(f[k - 1])]
  BY ChainExists, MaxSizeMax, Zenon
<1> QED BY <1>1, Zenon DEF Chain, First, Hop

(* The chain from one position to the next, and the type of its elements. *)
LEMMA ChainDef ==
  ASSUME FileTypes
  PROVE  /\ Chain[0] = First
         /\ \A k \in 0 .. MaxSize - 1 : Chain[k + 1] = Hop(Chain[k])
         /\ \A k \in 0 .. MaxSize : Chain[k] \in Clusters \cup {0}
<1> DEFINE C == Clusters \cup {0}
           T == {k \in Nat : k <= MaxSize => Chain[k] \in C}
<1>0. MaxSize \in Nat
  BY MaxSizeMax, Zenon
<1>1. Chain[0] = First
  BY <1>0, ChainRec
<1>2. ASSUME NEW k \in 0 .. MaxSize - 1 PROVE Chain[k + 1] = Hop(Chain[k])
  <2>1. k + 1 \in 0 .. MaxSize /\ k + 1 # 0 /\ k + 1 - 1 = k
    BY <1>0
  <2> QED BY <2>1, ChainRec
<1>3. 0 \in T
  BY <1>1, HopType, Zenon
<1>4. ASSUME NEW k \in Nat, k \in T PROVE k + 1 \in T
  <2> SUFFICES ASSUME k + 1 <= MaxSize PROVE Chain[k + 1] \in C
    OBVIOUS
  <2>1. Chain[k] \in C /\ Chain[k + 1] = Hop(Chain[k])
    BY <1>0, <1>2, <1>4
  <2> QED BY <2>1, HopType, Zenon
<1> HIDE DEF T
<1>5. \A k \in Nat : k \in T
  BY <1>3, <1>4, Induction, Zenon
<1>6. \A k \in 0 .. MaxSize : Chain[k] \in C
  BY <1>0, <1>5 DEF T
<1> QED BY <1>1, <1>2, <1>6, Zenon

(* A chain that has ended has ended for good. *)
LEMMA ChainEnds ==
  ASSUME FileTypes, NEW k \in Nat, Chain[k] = 0, NEW m \in Nat, k <= m, m <= MaxSize
  PROVE  Chain[m] = 0
<1> DEFINE T == {j \in Nat : k + j <= MaxSize => Chain[k + j] = 0}
<1>1. 0 \in T
  OBVIOUS
<1>2. ASSUME NEW j \in Nat, j \in T PROVE j + 1 \in T
  <2> SUFFICES ASSUME k + (j + 1) <= MaxSize PROVE Chain[k + (j + 1)] = 0
    OBVIOUS
  <2>1. Chain[k + j] = 0 /\ k + j \in 0 .. MaxSize - 1 /\ (k + j) + 1 = k + (j + 1)
    BY <1>2, MaxSizeMax
  <2>2. Chain[(k + j) + 1] = Hop(Chain[k + j])
    BY <2>1, ChainDef, Zenon
  <2> QED BY <2>1, <2>2, Zenon DEF Hop
<1> HIDE DEF T
<1>3. m - k \in T
  BY <1>1, <1>2, Induction
<1> QED BY <1>3 DEF T

-----------------------------------------------------------------------------
(* Division by a constant that is not a number the provers can see.        *)

(* Quotient and remainder. *)
LEMMA DivMod ==
  ASSUME NEW a \in Nat, NEW b \in Nat \ {0}
  PROVE  /\ a \div b \in Nat /\ a % b \in Nat /\ a % b < b
         /\ a = (a \div b) * b + (a % b)
<1>1. /\ a \div b \in Int /\ a % b \in Nat /\ a % b < b
      /\ a = b * (a \div b) + (a % b)
  OBVIOUS
<1> DEFINE q == a \div b
           r == a % b
<1> HIDE DEF q, r
<1>2. q \in Int /\ r \in Nat /\ r < b /\ a = b * q + r
  BY <1>1, Zenon DEF q, r
<1>3. q >= 0
  <2> SUFFICES ASSUME q <= -1 PROVE FALSE
    BY <1>2
  <2>1. PICK d \in Nat : q = -1 - d
    <3>1. -1 - q \in Nat /\ q = -1 - (-1 - q)
      BY <1>2
    <3> QED BY <3>1, Zenon
  <2>2. b * (-1 - d) = -b - b * d /\ b * d \in Nat
    OBVIOUS
  <2> QED BY <1>2, <2>1, <2>2
<1>4. b * q = q * b
  BY <1>2
<1>5. q \in Nat /\ r \in Nat /\ r < b /\ a = q * b + r
  BY <1>2, <1>3, <1>4
<1> QED BY <1>5, Zenon DEF q, r

(* A product grows with its factors. *)
LEMMA ProductMono ==
  ASSUME NEW a \in Nat, NEW b \in Nat, NEW k \in Nat, a <= b
  PROVE  a * k <= b * k
<1>1. PICK d \in Nat : b = a + d
  <2>1. b - a \in Nat /\ b = a + (b - a)
    OBVIOUS
  <2> QED BY <2>1, Zenon
<1>2. (a + d) * k = a * k + d * k /\ d * k \in Nat /\ a * k \in Nat
  OBVIOUS
<1> QED BY <1>1, <1>2

(* Quotient and remainder are the only numbers of their kind. *)
LEMMA DivModUnique ==
  ASSUME NEW b \in Nat \ {0}, NEW q \in Nat, NEW r \in Nat, r < b, NEW a \in Nat, a = q * b + r
  PROVE  a \div b = q /\ a % b = r
<1> DEFINE p == a \div b
           s == a % b
<1>1. p \in Nat /\ s \in Nat /\ s < b /\ a = p * b + s
  BY DivMod, Zenon
<1> HIDE DEF p, s
<1>2. ASSUME p < q PROVE FALSE
  <2>1. (p + 1) * b <= q * b
    BY <1>1, <1>2, ProductMono
  <2>2. (p + 1) * b = p * b + b /\ p * b \in Nat /\ q * b \in Nat
    BY <1>1
  <2> QED BY <1>1, <2>1, <2>2
<1>3. ASSUME q < p PROVE FALSE
  <2>1. (q + 1) * b <= p * b
    BY <1>1, <1>3, ProductMono
  <2>2. (q + 1) * b = q * b + b /\ p * b \in Nat /\ q * b \in Nat
    BY <1>1
  <2> QED BY <1>1, <2>1, <2>2
<1>4. p = q
  BY <1>1, <1>2, <1>3
<1>5. s = r
  <2>1. p * b = q * b /\ q * b \in Nat
    BY <1>1, <1>4
  <2> QED BY <1>1, <2>1
<1> QED BY <1>4, <1>5, Zenon DEF p, s

(* Quotients grow with the dividend and are not above it. *)
LEMMA DivMono ==
  ASSUME NEW a \in Nat, NEW c \in Nat, NEW b \in Nat \ {0}, a <= c
  PROVE  a \div b <= c \div b /\ c \div b <= c
<1> DEFINE p == a \div b
           q == c \div b
<1>1. p \in Nat /\ a % b \in Nat /\ a % b < b /\ a = p * b + (a % b)
  BY DivMod, Zenon
<1>2. q \in Nat /\ c % b \in Nat /\ c % b < b /\ c = q * b + (c % b)
  BY DivMod, Zenon
<1>3. ASSUME q < p PROVE FALSE
  <2>1. (q + 1) * b <= p * b
    BY <1>1, <1>2, <1>3, ProductMono
  <2>2. (q + 1) * b = q * b + b /\ p * b \in Nat /\ q * b \in Nat
    BY <1>1, <1>2
  <2> QED BY <1>1, <1>2, <2>1, <2>2
<1>4. q <= c
  <2>1. 1 * q <= b * q /\ b * q = q * b /\ 1 * q = q /\ q * b \in Nat
    BY <1>2, ProductMono
  <2> QED BY <1>2, <2>1
<1> HIDE DEF p, q
<1>5. p <= q
  BY <1>1, <1>2, <1>3
<1> QED BY <1>4, <1>5, Zenon DEF p, q

(* A product of two such numbers is one. *)
LEMMA ClusterBytes == cluster_bytes \in Nat \ {0}
<1> DEFINE s == sectors_per_cluster
           k == kSector
<1>1. s \in Nat \ {0} /\ k \in Nat \ {0}
  BY ReadAssumption, Zenon
<1>2. 1 * k <= s * k /\ 1 * k = k /\ s * k \in Nat
  BY <1>1, ProductMono
<1> QED BY <1>1, <1>2 DEF cluster_bytes

(* Bytes from o on, as long as they stay in o's cluster, follow o in it. *)
LEMMA SameCluster ==
  ASSUME NEW o \in Nat, NEW i \in Nat, (o % cluster_bytes) + i < cluster_bytes
  PROVE  /\ (o + i) \div cluster_bytes = o \div cluster_bytes
         /\ (o + i) % cluster_bytes = (o % cluster_bytes) + i
<1> DEFINE b == cluster_bytes
           q == o \div b
           r == o % b
<1>0. b \in Nat \ {0}
  BY ClusterBytes, Zenon
<1>1. q \in Nat /\ r \in Nat /\ o = q * b + r
  BY <1>0, DivMod, Zenon
<1>2. r + i \in Nat /\ r + i < b /\ o + i \in Nat
  BY <1>0, <1>1
<1> HIDE DEF b, q, r
<1>3. o + i = q * b + (r + i)
  <2>1. q * b \in Nat
    BY <1>0, <1>1
  <2> QED BY <1>1, <2>1
<1>4. (o + i) \div b = q /\ (o + i) % b = r + i
  <2> DEFINE c == o + i
             t == r + i
  <2> HIDE DEF c, t
  <2>1. c \in Nat /\ t \in Nat /\ t < b /\ c = q * b + t
    BY <1>2, <1>3, Zenon DEF c, t
  <2>2. c \div b = q /\ c % b = t
    BY <1>0, <1>1, <2>1, DivModUnique
  <2> QED BY <2>2, Zenon DEF c, t
<1> QED BY <1>4, Zenon DEF b, q, r

(* What Chunk is made of: the position in the cluster is the sector's and  *)
(* the position in the sector, and the sector is one of the cluster's.     *)
LEMMA SectorOfByte ==
  ASSUME NEW w \in Nat, w < cluster_bytes
  PROVE  /\ w \div kSector \in Nat /\ w % kSector \in Nat /\ w % kSector < kSector
         /\ w = (w \div kSector) * kSector + (w % kSector)
         /\ w \div kSector < sectors_per_cluster
<1> DEFINE q == w \div kSector
           r == w % kSector
<1>1. kSector \in Nat \ {0} /\ sectors_per_cluster \in Nat \ {0}
  BY ReadAssumption, Zenon
<1>2. q \in Nat /\ r \in Nat /\ r < kSector /\ w = q * kSector + r
  BY <1>1, DivMod, Zenon
<1> HIDE DEF q, r
<1>3. ASSUME sectors_per_cluster <= q PROVE FALSE
  <2>1. sectors_per_cluster * kSector <= q * kSector /\ q * kSector \in Nat
    BY <1>1, <1>2, <1>3, ProductMono
  <2>2. sectors_per_cluster * kSector \in Nat
    BY <1>1
  <2> QED BY <1>2, <2>1, <2>2 DEF cluster_bytes
<1>4. q < sectors_per_cluster
  BY <1>1, <1>2, <1>3
<1> QED BY <1>2, <1>4, Zenon DEF q, r

-----------------------------------------------------------------------------
(* The inductive invariant.                                                *)

(* Where the walk along the FAT has come to is where the chain is.         *)
OnChain == IF valid_cluster(cluster) THEN cluster = Chain[at] ELSE Chain[at] = 0

(* What is known at each place of read().                                  *)
Places ==
  /\ pc # "return" => result = 0 /\ ~failed
  /\ pc = "idle" => done = 0
  /\ pc \in {"loop", "walk", "copy"} => ~file.dir_ /\ 0 < len /\ offset + len <= file.size_
  /\ pc \in {"loop", "walk", "copy"} => len = Present
  /\ pc \in {"walk", "copy"} => done < len
  /\ pc = "walk" => at <= index /\ OnChain
  /\ pc = "copy" => valid_cluster(cluster) /\ cluster = Chain[index]

(* The cursor cache, with the bound on its position.                       *)
CacheOnChain ==
  valid_cluster(cache_cluster_) => cache_index_ <= MaxSize /\ cache_cluster_ = Chain[cache_index_]

ReadInv == FileTypes /\ TypeOK /\ Places /\ CacheOnChain /\ ReadsFile /\ FailsForReason

(* The disk does not change under a read, and neither does the chain. *)
LEMMA ChainSame ==
  ASSUME UNCHANGED disk
  PROVE  Chain' = Chain /\ (FileTypes => FileTypes') /\ \A n : FileByte(n)' = FileByte(n)
<1>1. fat' = fat /\ file' = file
  BY Zenon DEF disk
<1>2. Chain' = Chain
  BY <1>1, ZenonT(40) DEF Chain
<1>3. FileTypes => FileTypes'
  BY <1>1, Zenon DEF FileTypes
<1>4. \A n : FileByte(n)' = FileByte(n)
  BY <1>2, Zenon DEF FileByte
<1> QED BY <1>2, <1>3, <1>4, Zenon

(* A position that is being read is within the chain's range. *)
LEMMA IndexBound ==
  ASSUME FileTypes, TypeOK, 0 < len, offset + len <= file.size_, done < len
  PROVE  /\ index \in Nat
         /\ (offset + len - 1) \div cluster_bytes \in Nat
         /\ index <= (offset + len - 1) \div cluster_bytes
         /\ (offset + len - 1) \div cluster_bytes <= MaxSize
<1> DEFINE a == offset + done
           c == offset + len - 1
<1>1. a \in Nat /\ c \in Nat /\ a <= c /\ c <= MaxSize
  <2>1. offset \in Nat /\ len \in Nat /\ done \in Nat
    BY ReadAssumption DEF TypeOK
  <2>2. file.size_ \in Nat /\ file.size_ <= MaxSize /\ MaxSize \in Nat
    BY ReadAssumption, MaxSizeMax, Zenon DEF FileTypes
  <2> QED BY <2>1, <2>2
<1> HIDE DEF a, c
<1>2. a \div cluster_bytes \in Nat /\ c \div cluster_bytes \in Nat
  BY <1>1, DivMod, ClusterBytes, Zenon
<1>3. a \div cluster_bytes <= c \div cluster_bytes /\ c \div cluster_bytes <= c
  BY <1>1, DivMono, ClusterBytes, Zenon
<1>4. c \div cluster_bytes <= MaxSize
  BY <1>1, <1>2, <1>3, MaxSizeMax
<1> QED BY <1>2, <1>3, <1>4, Zenon DEF a, c, index

(* Before the first read there is nothing to be wrong. *)
LEMMA ReadInit == Init => ReadInv
<1> SUFFICES ASSUME Init PROVE ReadInv
  OBVIOUS
<1>0. ~valid_cluster(0)
  BY DEF valid_cluster
<1>1. FileTypes
  BY Zenon DEF Init, FileTypes
<1>2. TypeOK
  <2>1. DOMAIN out = 0 .. done - 1
    BY DEF Init
  <2>2. done \in 0 .. len /\ len \in Nat /\ asked \in Nat /\ at \in Nat /\ cache_index_ \in Nat /\ result \in 0 .. len
    BY DEF Init
  <2> QED BY <2>1, <2>2, Zenon DEF Init, TypeOK
<1>3. Places
  BY Zenon DEF Init, Places
<1>4. CacheOnChain
  BY <1>0, Zenon DEF Init, CacheOnChain
<1>5. ReadsFile
  BY DEF Init, ReadsFile
<1>6. FailsForReason
  BY Zenon DEF Init, FailsForReason
<1> QED BY <1>1, <1>2, <1>3, <1>4, <1>5, <1>6, Zenon DEF ReadInv

(* What every action needs of the variables' types. *)
LEMMA Typed ==
  ASSUME ReadInv
  PROVE  /\ offset \in Nat /\ len \in Nat /\ done \in Nat /\ done <= len /\ at \in Nat
         /\ file.size_ \in Nat /\ cluster \in Nat /\ cache_cluster_ \in Nat /\ cache_index_ \in Nat
         /\ fat \in [Clusters -> FatEntries]
<1>1. /\ offset \in Nat /\ len \in Nat /\ at \in Nat /\ cluster \in Nat /\ cache_index_ \in Nat
      /\ fat \in [Clusters -> FatEntries]
  BY ReadAssumption DEF ReadInv, TypeOK
<1>2. done \in Nat /\ done <= len
  BY <1>1 DEF ReadInv, TypeOK
<1>3. file.size_ \in Nat
  BY ReadAssumption, Zenon DEF ReadInv, FileTypes
<1>4. cache_cluster_ \in Nat
  BY ReadAssumption DEF ReadInv, TypeOK, Clusters
<1> QED BY <1>1, <1>2, <1>3, <1>4, Zenon

(* The early returns, and the clamping of len. *)
LEMMA ReadStep ==
  ASSUME ReadInv, NEW o \in Offsets, NEW n \in Lens, Read(o, n)
  PROVE  ReadInv'
<1> USE DEF cache, call, ReadInv
<1>0. UNCHANGED <<disk, cache, cluster, at, done, out, failed>> /\ pc = "idle" /\ offset' = o /\ asked' = n
  BY Zenon DEF Read
<1>1. Chain' = Chain /\ FileTypes' /\ file' = file /\ fat' = fat
  BY <1>0, ChainSame, Zenon DEF disk
<1>2. done = 0 /\ result = 0 /\ ~failed /\ DOMAIN out = {} /\ o \in Nat /\ n \in Nat
  BY <1>0, ReadAssumption DEF Places, TypeOK
<1>3. /\ len' \in Nat /\ pc' \in {"loop", "return"} /\ result' \in {-1, 0}
      /\ pc' = "loop" => ~file.dir_ /\ 0 < len' /\ o + len' <= file.size_ /\ result' = 0 /\ len' = Present'
      /\ result' = -1 => file.dir_
      /\ pc' = "return" /\ result' # -1 => result' = 0 /\ Present' = 0
  <2>0. file.size_ \in Nat
    BY Typed, Zenon
  <2>p. Present' = IF o < file.size_ THEN Min(n, file.size_ - o) ELSE 0
    BY <1>0, <1>1, Zenon DEF Present
  <2>1. CASE file.dir_ \/ o >= file.size_ \/ n = 0
    <3>1. pc' = "return" /\ len' = n /\ result' = IF file.dir_ THEN -1 ELSE 0
      BY <2>1, Zenon DEF Read
    <3>2. ~file.dir_ => Present' = 0
      BY <1>2, <2>0, <2>p, <2>1 DEF Min
    <3> QED BY <1>2, <3>1, <3>2
  <2>2. CASE ~(file.dir_ \/ o >= file.size_ \/ n = 0)
    <3>1. pc' = "loop" /\ len' = Min(n, file.size_ - o) /\ result' = result
      BY <2>2, Zenon DEF Read
    <3>2. len' \in Nat /\ 0 < len' /\ o + len' <= file.size_
      BY <1>2, <2>0, <2>2, <3>1 DEF Min
    <3>3. ~file.dir_ /\ len' = Present'
      BY <1>2, <2>0, <2>p, <2>2, <3>1
    <3> QED BY <1>2, <3>1, <3>2, <3>3
  <2> QED BY <2>1, <2>2, Zenon
<1>4. TypeOK'
  <2>1. done' \in 0 .. len' /\ result' \in {-1} \cup 0 .. len'
    BY <1>0, <1>2, <1>3
  <2> QED BY <1>0, <1>1, <1>2, <1>3, <2>1, Zenon DEF TypeOK
<1>5. Places'
  BY <1>0, <1>1, <1>2, <1>3, Zenon DEF Places
<1>6. CacheOnChain'
  BY <1>0, <1>1, Zenon DEF CacheOnChain
<1>7. ReadsFile'
  <2>1. DOMAIN out' = {}
    BY <1>0, <1>2, Zenon
  <2>2. pc' = "return" /\ result' # -1 => result' = Present' /\ DOMAIN out' = 0 .. result' - 1
    BY <1>3, <2>1
  <2> QED BY <2>1, <2>2, Zenon DEF ReadsFile
<1>8. FailsForReason'
  BY <1>1, <1>3, Zenon DEF FailsForReason
<1> QED BY <1>1, <1>4, <1>5, <1>6, <1>7, <1>8, Zenon

(* The walk starts on the chain, from the cache or from its beginning. *)
LEMMA LocateStep ==
  ASSUME ReadInv, Locate
  PROVE  ReadInv'
<1> USE DEF cache, call, ReadInv
<1>0. UNCHANGED <<disk, cache, call, done, out, result, failed>> /\ pc = "loop" /\ pc' = "walk" /\ done < len
  BY Zenon DEF Locate
<1>1. Chain' = Chain /\ FileTypes' /\ file' = file /\ fat' = fat /\ \A n : FileByte(n)' = FileByte(n)
  BY <1>0, ChainSame, Zenon DEF disk
<1>2. index' = index /\ Present' = Present
  BY <1>0, <1>1, Zenon DEF index, Present
<1>3. index \in Nat /\ index <= MaxSize /\ MaxSize \in Nat
  BY <1>0, IndexBound, MaxSizeMax DEF Places
<1>4. at' \in Nat /\ at' <= index /\ cluster' \in Nat
      /\ IF valid_cluster(cluster') THEN cluster' = Chain[at'] ELSE Chain[at'] = 0
  <2>1. CASE valid_cluster(cache_cluster_) /\ cache_index_ <= index
    BY <2>1, Typed, Zenon DEF Locate, CacheOnChain
  <2>2. CASE ~(valid_cluster(cache_cluster_) /\ cache_index_ <= index)
    <3>1. cluster' = file.first_cluster_ /\ at' = 0 /\ file.first_cluster_ \in Nat
      BY <2>2, ReadAssumption, Zenon DEF Locate, FileTypes
    <3>2. Chain[0] = First
      BY ChainDef, Zenon
    <3> QED BY <1>3, <3>1, <3>2 DEF First
  <2> QED BY <2>1, <2>2, Zenon
<1>5. TypeOK'
  BY <1>0, <1>1, <1>4, Zenon DEF TypeOK
<1>6. Places'
  BY <1>0, <1>1, <1>2, <1>4, Zenon DEF Places, OnChain
<1>7. CacheOnChain'
  BY <1>0, <1>1, Zenon DEF CacheOnChain
<1>8. ReadsFile'
  BY <1>0, <1>1, Zenon DEF ReadsFile
<1>9. FailsForReason'
  BY <1>0, Zenon DEF FailsForReason
<1> QED BY <1>1, <1>5, <1>6, <1>7, <1>8, <1>9, Zenon

(* A chain found to end at or before the target ends before the last byte. *)
LEMMA EndsEarly ==
  ASSUME ReadInv, pc = "walk", ~valid_cluster(cluster)
  PROVE  Chain[(offset + Present - 1) \div cluster_bytes] = 0
<1> DEFINE last == (offset + len - 1) \div cluster_bytes
<1>1. index \in Nat /\ last \in Nat /\ index <= last /\ last <= MaxSize
  BY IndexBound, Zenon DEF ReadInv, Places
<1>2. at \in Nat /\ at <= index /\ Chain[at] = 0
  BY Typed, Zenon DEF ReadInv, Places, OnChain
<1> HIDE DEF last
<1>3. Chain[last] = 0
  BY <1>1, <1>2, ChainEnds, MaxSizeMax DEF ReadInv
<1> QED BY <1>3, Zenon DEF last, ReadInv, Places

(* A hop follows the chain; an invalid cluster, or the disk, ends the read. *)
LEMMA WalkStep ==
  ASSUME ReadInv, Walk
  PROVE  ReadInv'
<1> USE DEF cache, call, ReadInv
<1>0. UNCHANGED <<disk, cache, call, done, out>> /\ pc = "walk" /\ at < index
  BY Zenon DEF Walk
<1>1. Chain' = Chain /\ FileTypes' /\ file' = file /\ fat' = fat /\ \A n : FileByte(n)' = FileByte(n)
  BY <1>0, ChainSame, Zenon DEF disk
<1>2. index' = index /\ Present' = Present
  BY <1>0, <1>1, Zenon DEF index, Present
<1>3. index \in Nat /\ index <= MaxSize /\ MaxSize \in Nat
  BY <1>0, IndexBound, MaxSizeMax DEF Places
<1>4. CacheOnChain'
  BY <1>0, <1>1, Zenon DEF CacheOnChain
<1>5. result = 0 /\ ~failed
  BY <1>0, Zenon DEF Places
<1>6. CASE /\ pc' = "return" /\ result' = -1
           /\ UNCHANGED <<cluster, at>> /\ failed' \in BOOLEAN
           /\ failed' \/ ~valid_cluster(cluster)
  <2>1. TypeOK'
    BY <1>0, <1>1, <1>6, Zenon DEF TypeOK
  <2>2. Places'
    BY <1>6, Zenon DEF Places
  <2>3. ReadsFile'
    BY <1>0, <1>1, <1>6, Zenon DEF ReadsFile
  <2>4. FailsForReason'
    BY <1>0, <1>1, <1>2, <1>6, EndsEarly, Zenon DEF FailsForReason
  <2> QED BY <1>1, <1>4, <2>1, <2>2, <2>3, <2>4, Zenon
<1>7. CASE valid_cluster(cluster) /\ cluster' = fat[cluster] /\ at' = at + 1 /\ UNCHANGED <<pc, result, failed>>
  <2>1. cluster \in Clusters /\ at \in Nat /\ cluster = Chain[at] /\ cluster # 0
    BY <1>0, <1>7, Typed, ValidIsCluster DEF Places, OnChain, valid_cluster
  <2>2. cluster' \in Nat /\ at' \in Nat /\ at' <= index
    <3>1. fat[cluster] \in FatEntries
      BY <2>1, Typed, Zenon
    <3>2. at + 1 \in Nat /\ at + 1 <= index
      BY <1>0, <1>3, <2>1
    <3> QED BY <1>7, <3>1, <3>2, ReadAssumption, Zenon
  <2>3. Chain[at + 1] = Hop(cluster)
    BY <1>0, <1>3, <2>1, ChainDef
  <2>4. OnChain'
    BY <1>1, <1>7, <2>1, <2>3, Zenon DEF OnChain, Hop
  <2>5. TypeOK'
    BY <1>0, <1>1, <1>7, <2>2, Zenon DEF TypeOK
  <2>6. Places'
    BY <1>0, <1>1, <1>2, <1>7, <2>2, <2>4, Zenon DEF Places
  <2>7. ReadsFile'
    BY <1>0, <1>1, <1>7, Zenon DEF ReadsFile
  <2>8. FailsForReason'
    BY <1>0, <1>7, Zenon DEF FailsForReason
  <2> QED BY <1>1, <1>4, <2>5, <2>6, <2>7, <2>8, Zenon
<1>8. failed \in BOOLEAN
  BY Zenon DEF TypeOK
<1> QED BY <1>5, <1>6, <1>7, <1>8, Zenon DEF Walk, Return, DiskFails

(* The cache moves to a cluster that is the chain's; or the read ends. *)
LEMMA ArriveStep ==
  ASSUME ReadInv, Arrive
  PROVE  ReadInv'
<1> USE DEF cache, call, ReadInv
<1>0. UNCHANGED <<disk, call, cluster, at, done, out, failed>> /\ pc = "walk" /\ at >= index
  BY Zenon DEF Arrive
<1>1. Chain' = Chain /\ FileTypes' /\ file' = file /\ fat' = fat /\ \A n : FileByte(n)' = FileByte(n)
  BY <1>0, ChainSame, Zenon DEF disk
<1>2. index' = index /\ Present' = Present
  BY <1>0, <1>1, Zenon DEF index, Present
<1>3. index \in Nat /\ index <= MaxSize /\ MaxSize \in Nat /\ at = index
  BY <1>0, IndexBound, MaxSizeMax, Typed DEF Places
<1>4. CASE valid_cluster(cluster)
  <2>1. pc' = "copy" /\ cache_index_' = index /\ cache_cluster_' = cluster /\ UNCHANGED result
    BY <1>4, Zenon DEF Arrive
  <2>2. cluster \in Clusters /\ cluster = Chain[index]
    BY <1>0, <1>3, <1>4, Typed, ValidIsCluster, Zenon DEF Places, OnChain
  <2>3. TypeOK'
    BY <1>0, <1>1, <1>3, <2>1, <2>2, Zenon DEF TypeOK
  <2>4. Places'
    BY <1>0, <1>1, <1>2, <1>4, <2>1, <2>2, Zenon DEF Places
  <2>5. CacheOnChain'
    BY <1>1, <1>3, <2>1, <2>2, Zenon DEF CacheOnChain
  <2>6. ReadsFile'
    BY <1>0, <1>1, <2>1, Zenon DEF ReadsFile
  <2>7. FailsForReason'
    BY <2>1, Zenon DEF FailsForReason
  <2> QED BY <1>1, <2>3, <2>4, <2>5, <2>6, <2>7, Zenon
<1>5. CASE ~valid_cluster(cluster)
  <2>1. pc' = "return" /\ result' = -1 /\ UNCHANGED cache
    BY <1>5, Zenon DEF Arrive, Return
  <2>2. TypeOK'
    BY <1>0, <1>1, <2>1, Zenon DEF TypeOK
  <2>3. Places'
    BY <2>1, Zenon DEF Places
  <2>4. CacheOnChain'
    BY <1>1, <2>1, Zenon DEF CacheOnChain
  <2>5. ReadsFile'
    BY <1>0, <1>1, <2>1, Zenon DEF ReadsFile
  <2>6. FailsForReason'
    BY <1>0, <1>1, <1>2, <1>5, EndsEarly, Zenon DEF FailsForReason
  <2> QED BY <1>1, <2>2, <2>3, <2>4, <2>5, <2>6, Zenon
<1> QED BY <1>4, <1>5, Zenon

(* A turn of the loop copies a part of one cluster, and not more than what *)
(* is wanted.                                                              *)
LEMMA ChunkFits ==
  ASSUME offset \in Nat, done \in Nat, len \in Nat, done < len
  PROVE  /\ within \in Nat /\ sector_in_cluster \in Nat /\ byte_in_sector \in Nat
         /\ within = sector_in_cluster * kSector + byte_in_sector
         /\ Chunk \in Nat
         /\ within + Chunk <= cluster_bytes
         /\ done + Chunk <= len
<1> DEFINE w == within
           s == sector_in_cluster
           b == byte_in_sector
           r == remaining
           n == sectors_per_cluster
           k == kSector
<1>1. k \in Nat \ {0} /\ n \in Nat \ {0} /\ cluster_bytes \in Nat \ {0} /\ cluster_bytes = n * k
  BY ReadAssumption, ClusterBytes, Zenon DEF cluster_bytes
<1>2. w \in Nat /\ w < cluster_bytes
  <2> DEFINE o == offset + done
  <2>1. o \in Nat
    OBVIOUS
  <2> HIDE DEF o
  <2>2. o % cluster_bytes \in Nat /\ o % cluster_bytes < cluster_bytes
    BY <1>1, <2>1, DivMod, Zenon
  <2> QED BY <2>2, Zenon DEF o, within
<1>3. s \in Nat /\ b \in Nat /\ b < k /\ w = s * k + b /\ s < n
  BY <1>2, SectorOfByte, Zenon DEF sector_in_cluster, byte_in_sector
<1>4. r \in Nat \ {0} /\ done + r = len
  BY DEF remaining
<1>5. s * k \in Nat /\ (s + 1) * k <= n * k /\ (s + 1) * k = s * k + k /\ n * k \in Nat
  BY <1>1, <1>3, ProductMono
<1> HIDE DEF w, s, b, r, n, k
<1>6. CASE b = 0 /\ r >= k
  <2> DEFINE q == r \div k
             m == IF q < n - s THEN q ELSE n - s
  <2>1. Chunk = m * k
    BY <1>6, Zenon DEF Chunk, Min, b, r, k, n, s
  <2>2. q \in Nat /\ q * k <= r /\ q * k \in Nat
    <3>1. q \in Nat /\ r % k \in Nat /\ r = q * k + (r % k)
      BY <1>1, <1>4, DivMod, Zenon
    <3> HIDE DEF q
    <3>2. q * k \in Nat
      BY <1>1, <3>1
    <3> QED BY <1>4, <3>1, <3>2
  <2> HIDE DEF q
  <2>3. m \in Nat /\ m <= q /\ m <= n - s /\ n - s \in Nat
    BY <1>1, <1>3, <2>2
  <2> HIDE DEF m
  <2>4. m * k \in Nat /\ m * k <= q * k /\ m * k <= (n - s) * k
    BY <1>1, <2>2, <2>3, ProductMono
  <2>5. (n - s) * k = n * k - s * k
    BY <1>1, <1>3
  <2>6. w + m * k <= n * k
    BY <1>3, <1>5, <1>6, <2>4, <2>5
  <2>7. done + m * k <= len
    BY <1>4, <2>2, <2>4
  <2> QED BY <1>1, <1>2, <1>3, <2>1, <2>4, <2>6, <2>7, Zenon DEF w, s, b, k
<1>7. CASE ~(b = 0 /\ r >= k)
  <2>1. Chunk = IF k - b < r THEN k - b ELSE r
    BY <1>7, Zenon DEF Chunk, Min, b, r, k
  <2>2. Chunk \in Nat /\ Chunk <= r /\ Chunk <= k - b
    BY <1>1, <1>3, <1>4, <2>1
  <2> QED BY <1>1, <1>2, <1>3, <1>4, <1>5, <2>2 DEF w, s, b, k
<1> QED BY <1>6, <1>7, Zenon

(* What is copied is the file's, and follows what was copied before. *)
LEMMA CopiedIsFile ==
  ASSUME ReadInv, pc = "copy", NEW j \in Nat, done <= j, j < done + Chunk
  PROVE  /\ Chain[(offset + j) \div cluster_bytes] # 0
         /\ DiskByte(cluster_lba(cluster) + sector_in_cluster, byte_in_sector + (j - done)) = FileByte(offset + j)
<1>0. done < len /\ cluster = Chain[index] /\ valid_cluster(cluster)
  BY Zenon DEF ReadInv, Places
<1>1. /\ offset \in Nat /\ done \in Nat /\ len \in Nat
      /\ kSector \in Nat /\ sectors_per_cluster \in Nat /\ data_start_sector \in Nat
  BY Typed, ReadAssumption, Zenon
<1>2. /\ within \in Nat /\ sector_in_cluster \in Nat /\ byte_in_sector \in Nat
      /\ within = sector_in_cluster * kSector + byte_in_sector
      /\ Chunk \in Nat /\ within + Chunk <= cluster_bytes
  BY <1>0, <1>1, ChunkFits, Zenon
<1> DEFINE o == offset + done
           i == j - done
<1>3. o \in Nat /\ i \in Nat /\ o + i = offset + j /\ i < Chunk
  BY <1>1, <1>2
<1>4. within = o % cluster_bytes /\ index = o \div cluster_bytes
  BY Zenon DEF within, index
<1> HIDE DEF o, i
<1>5. (o + i) \div cluster_bytes = index /\ (o + i) % cluster_bytes = within + i
  <2>1. (o % cluster_bytes) + i < cluster_bytes
    BY <1>2, <1>3, <1>4, ClusterBytes
  <2> QED BY <1>3, <1>4, <2>1, SameCluster, Zenon
<1>6. cluster # 0 /\ cluster \in Nat
  BY <1>0, Typed DEF valid_cluster
<1>7. cluster_lba(cluster) \in Int
  BY <1>1, <1>6 DEF cluster_lba
<1> DEFINE l == cluster_lba(cluster)
           k == kSector
           s == sector_in_cluster
           b == byte_in_sector
<1>8. (l + s) * k + (b + i) = l * k + (within + i)
  <2>1. l \in Int /\ s \in Nat /\ k \in Nat /\ b \in Nat /\ i \in Nat /\ within = s * k + b
    BY <1>1, <1>2, <1>3, <1>7, Zenon
  <2> HIDE DEF l, k, s, b
  <2>2. (l + s) * k = l * k + s * k /\ s * k \in Int /\ l * k \in Int
    BY <2>1
  <2> QED BY <2>1, <2>2
<1>9. /\ DiskByte(cluster_lba(cluster) + sector_in_cluster, byte_in_sector + i) = (l + s) * k + (b + i)
      /\ FileByte(o + i) = l * k + (within + i)
  BY <1>0, <1>5, Zenon DEF DiskByte, FileByte
<1>10. Chain[(o + i) \div cluster_bytes] # 0
  BY <1>0, <1>5, <1>6, Zenon
<1> HIDE DEF l, k, s, b
<1>11. DiskByte(cluster_lba(cluster) + sector_in_cluster, byte_in_sector + i) = FileByte(o + i)
  BY <1>8, <1>9, Zenon
<1> QED BY <1>3, <1>10, <1>11, Zenon DEF i

(* A chunk is copied, or the disk fails. *)
LEMMA CopyStep ==
  ASSUME ReadInv, Copy
  PROVE  ReadInv'
<1> USE DEF cache, call, ReadInv
<1>0. UNCHANGED <<disk, cache, call, cluster, at>> /\ pc = "copy"
  BY Zenon DEF Copy
<1>1. Chain' = Chain /\ FileTypes' /\ file' = file /\ fat' = fat /\ \A n : FileByte(n)' = FileByte(n)
  BY <1>0, ChainSame, Zenon DEF disk
<1>p. Present' = Present
  BY <1>0, <1>1, Zenon DEF Present
<1>2. CacheOnChain'
  BY <1>0, <1>1, Zenon DEF CacheOnChain
<1>3. CASE DiskFails /\ UNCHANGED <<done, out>>
  <2>0. failed' = TRUE /\ pc' = "return" /\ result' = -1
    BY <1>3, Zenon DEF DiskFails, Return
  <2>1. TypeOK'
    BY <1>0, <1>1, <1>3, <2>0, Zenon DEF TypeOK
  <2>2. Places'
    BY <2>0, Zenon DEF Places
  <2>3. ReadsFile'
    BY <1>0, <1>1, <1>3, <2>0, Zenon DEF ReadsFile
  <2>4. FailsForReason'
    BY <2>0, Zenon DEF FailsForReason
  <2> QED BY <1>1, <1>2, <2>1, <2>2, <2>3, <2>4, Zenon
<1>4. CASE pc' = "loop" /\ done' = done + Chunk /\ UNCHANGED <<result, failed>>
           /\ out' = [j \in 0 .. done + Chunk - 1 |->
                        IF j < done THEN out[j]
                        ELSE DiskByte(cluster_lba(cluster) + sector_in_cluster, byte_in_sector + (j - done))]
  <2>0. offset \in Nat /\ done \in Nat /\ len \in Nat /\ done < len /\ Chunk \in Nat /\ done + Chunk <= len
    BY <1>0, Typed, ChunkFits, Zenon DEF Places
  <2>1. DOMAIN out = 0 .. done - 1 /\ DOMAIN out' = 0 .. done + Chunk - 1
    BY <1>4, Zenon DEF TypeOK
  <2>2. TypeOK'
    <3>1. done' \in 0 .. len /\ DOMAIN out' = 0 .. done' - 1
      BY <1>4, <2>0, <2>1
    <3> QED BY <1>0, <1>1, <1>4, <3>1, Zenon DEF TypeOK
  <2>3. Places'
    BY <1>0, <1>1, <1>p, <1>4, Zenon DEF Places
  <2>4. ASSUME NEW j \in DOMAIN out'
        PROVE  Chain[(offset + j) \div cluster_bytes] # 0 /\ out'[j] = FileByte(offset + j)
    <3>1. CASE j < done
      <4>1. j \in DOMAIN out
        BY <2>0, <2>1, <3>1
      <4>2. out'[j] = out[j]
        BY <1>4, <2>1, <3>1, Zenon
      <4> QED BY <4>1, <4>2, Zenon DEF ReadsFile
    <3>2. CASE ~(j < done)
      <4>1. j \in Nat /\ done <= j /\ j < done + Chunk
        BY <2>0, <2>1, <3>2
      <4>2. out'[j] = DiskByte(cluster_lba(cluster) + sector_in_cluster, byte_in_sector + (j - done))
        BY <1>4, <2>1, <3>2, Zenon
      <4> QED BY <1>0, <4>1, <4>2, CopiedIsFile, Zenon
    <3> QED BY <3>1, <3>2, Zenon
  <2>5. ReadsFile'
    BY <1>0, <1>1, <1>4, <2>4, Zenon DEF ReadsFile
  <2>6. FailsForReason'
    BY <1>4, Zenon DEF FailsForReason
  <2> QED BY <1>1, <1>2, <2>2, <2>3, <2>5, <2>6, Zenon
<1> QED BY <1>3, <1>4, Zenon DEF Copy

(* All is read. *)
LEMMA FinishStep ==
  ASSUME ReadInv, Finish
  PROVE  ReadInv'
<1> USE DEF cache, call, ReadInv
<1>0. /\ UNCHANGED <<disk, cache, call, cluster, at, done, out, failed>>
      /\ pc = "loop" /\ done >= len /\ pc' = "return" /\ result' = done
  BY Zenon DEF Finish, Return
<1>1. Chain' = Chain /\ FileTypes' /\ file' = file /\ fat' = fat /\ \A n : FileByte(n)' = FileByte(n)
  BY <1>0, ChainSame, Zenon DEF disk
<1>2. done = len /\ result' = len /\ len \in Nat /\ 0 < len /\ DOMAIN out = 0 .. len - 1
  <2>1. done = len /\ len \in Nat /\ 0 < len
    BY <1>0, Typed DEF Places
  <2> QED BY <1>0, <2>1, Zenon DEF TypeOK
<1>p. len = Present /\ Present' = Present
  BY <1>0, <1>1, Zenon DEF Places, Present
<1>3. TypeOK'
  <2>1. result' \in 0 .. len'
    BY <1>0, <1>2
  <2> QED BY <1>0, <1>1, <2>1, Zenon DEF TypeOK
<1>4. Places'
  BY <1>0, Zenon DEF Places
<1>5. CacheOnChain'
  BY <1>0, <1>1, Zenon DEF CacheOnChain
<1>6. ReadsFile'
  BY <1>0, <1>1, <1>2, <1>p, Zenon DEF ReadsFile
<1>7. FailsForReason'
  BY <1>2 DEF FailsForReason
<1> QED BY <1>1, <1>3, <1>4, <1>5, <1>6, <1>7, Zenon

(* Back at the caller, only the cache is left of the read. *)
LEMMA BackStep ==
  ASSUME ReadInv, Back
  PROVE  ReadInv'
<1> USE DEF cache, ReadInv
<1>0. /\ UNCHANGED <<disk, cache>> /\ pc' = "idle" /\ offset' = 0 /\ len' = 0 /\ asked' = 0
      /\ cluster' = 0 /\ at' = 0 /\ done' = 0 /\ out' = <<>> /\ result' = 0 /\ failed' = FALSE
  BY Zenon DEF Back
<1>1. Chain' = Chain /\ FileTypes' /\ file' = file /\ fat' = fat
  BY <1>0, ChainSame, Zenon DEF disk
<1>2. TypeOK'
  <2>1. DOMAIN out' = 0 .. done' - 1
    BY <1>0
  <2>2. /\ done' \in 0 .. len' /\ len' \in Nat /\ asked' \in Nat /\ at' \in Nat
        /\ result' \in 0 .. len' /\ cluster' \in Nat
    BY <1>0
  <2> QED BY <1>0, <1>1, <2>1, <2>2, Zenon DEF TypeOK
<1>3. Places'
  BY <1>0, Zenon DEF Places
<1>4. CacheOnChain'
  BY <1>0, <1>1, Zenon DEF CacheOnChain
<1>5. ReadsFile'
  BY <1>0 DEF ReadsFile
<1>6. FailsForReason'
  BY <1>0, Zenon DEF FailsForReason
<1> QED BY <1>1, <1>2, <1>3, <1>4, <1>5, <1>6, Zenon

-----------------------------------------------------------------------------
(* ReadInv is inductive. *)
LEMMA ReadInvStep == ReadInv /\ [Next]_vars => ReadInv'
<1> SUFFICES ASSUME ReadInv, [Next]_vars PROVE ReadInv'
  OBVIOUS
<1>1. CASE Next
  <2>1. ASSUME NEW o \in Offsets, NEW n \in Lens, Read(o, n) PROVE ReadInv'
    BY <2>1, ReadStep, Zenon
  <2> QED BY <1>1, <2>1, LocateStep, WalkStep, ArriveStep, CopyStep, FinishStep, BackStep, Zenon DEF Next, Running
<1>2. CASE UNCHANGED vars
  <2>0. UNCHANGED <<disk, cache, pc, call, cluster, at, done, out, result, failed>>
    BY <1>2, Zenon DEF vars
  <2>1. Chain' = Chain /\ FileTypes' /\ file' = file /\ fat' = fat /\ \A n : FileByte(n)' = FileByte(n)
    BY <2>0, ChainSame, Zenon DEF disk, ReadInv
  <2> USE DEF cache, call
  <2>p. Present' = Present
    BY <2>0, <2>1, Zenon DEF Present
  <2>2. TypeOK'
    BY <2>0, <2>1, Zenon DEF ReadInv, TypeOK
  <2>3. Places'
    BY <2>0, <2>1, <2>p, Zenon DEF ReadInv, Places, index, OnChain
  <2>4. CacheOnChain'
    BY <2>0, <2>1, Zenon DEF ReadInv, CacheOnChain
  <2>5. ReadsFile'
    BY <2>0, <2>1, <2>p, Zenon DEF ReadInv, ReadsFile
  <2>6. FailsForReason'
    BY <2>0, <2>1, <2>p, Zenon DEF ReadInv, FailsForReason
  <2> QED BY <2>1, <2>2, <2>3, <2>4, <2>5, <2>6, Zenon DEF ReadInv
<1> QED BY <1>1, <1>2, Zenon

(* The invariant holds in every reachable state. *)
THEOREM ReadInvariance == Spec => []ReadInv
BY ReadInit, ReadInvStep, PTL DEF Spec

(* Whatever was read before and whatever failed, the bytes in the caller's *)
(* buffer are the file's at that offset, and a read that succeeds has read *)
(* all it was asked for up to the end of the file.                         *)
THEOREM ReadsAreTheFile == Spec => []ReadsFile
BY ReadInvariance, PTL DEF ReadInv

(* read() fails only for a directory, a disk error or a chain that ends    *)
(* before the last byte asked for.                                         *)
THEOREM FailuresHaveReasons == Spec => []FailsForReason
BY ReadInvariance, PTL DEF ReadInv

(* The cursor cache names the cluster at its position of the chain, over   *)
(* any sequence of reads, failed ones included.                            *)
THEOREM CacheStaysSound == Spec => []CacheSound
<1>1. ReadInv => CacheSound
  BY Zenon DEF ReadInv, CacheOnChain, CacheSound
<1> QED BY <1>1, ReadInvariance, PTL

-----------------------------------------------------------------------------
(* Division.                                                               *)

(* A multiple of m that is smaller than m, in absolute value, is 0. *)
LEMMA SmallMultiple ==
  ASSUME NEW m \in Nat \ {0}, NEW k \in Int, m * k < m, m * k > -m
  PROVE  k = 0
<1>1. k >= 1 => m * k >= m
  OBVIOUS
<1>2. k <= -1 => m * k <= -m
  OBVIOUS
<1> QED BY <1>1, <1>2

(* They are the only ones. *)
LEMMA Division ==
  ASSUME NEW x \in Nat, NEW m \in Nat \ {0}, NEW q \in Nat, NEW r \in 0 .. m - 1, x = m * q + r
  PROVE  x \div m = q /\ x % m = r
<1> DEFINE d == x \div m
           s == x % m
<1>1. d \in Nat /\ s \in 0 .. m - 1 /\ x = m * d + s
  BY DivMod
<1> HIDE DEF d, s
<1>2. m * (q - d) = s - r
  <2>1. m * (q - d) = m * q - m * d
    BY <1>1
  <2>2. m * q \in Int /\ m * d \in Int
    BY <1>1
  <2> QED BY <1>1, <2>1, <2>2
<1>3. q - d = 0
  <2>1. s - r < m /\ s - r > -m
    BY <1>1
  <2> QED BY <1>1, <1>2, <2>1, SmallMultiple
<1>4. d = q /\ s = r
  <2>1. d = q
    BY <1>1, <1>3
  <2>2. m * (q - d) = 0
    BY <1>1, <1>3
  <2> QED BY <1>1, <1>2, <2>1, <2>2
<1> QED BY <1>4, Zenon DEF d, s

(* The bytes of a field of one, two or four. *)
LEMMA Small ==
  /\ 0 \in Nat /\ 1 \in Nat /\ 2 \in Nat /\ 3 \in Nat /\ 4 \in Nat
  /\ 0 < 1 /\ 0 < 2 /\ 1 < 2 /\ 0 < 4 /\ 1 < 4 /\ 2 < 4 /\ 3 < 4
OBVIOUS

(* A byte of a span of bytes, and its place in it. *)
LEMMA InSpan ==
  ASSUME NEW a \in Nat, NEW b \in Nat, NEW k \in Nat, k < b
  PROVE  a + k \in a .. a + b - 1 /\ (a + k) - a + 1 = k + 1
OBVIOUS

(* Two spans, one behind the other, have no byte in common. *)
LEMMA Apart ==
  ASSUME NEW a \in Nat, NEW b \in Nat, NEW c \in Nat, NEW d \in Nat, a + b <= c,
         NEW n \in a .. a + b - 1, n \in c .. c + d - 1
  PROVE  FALSE
OBVIOUS

(* n clusters of w sectors, the first at d, in t sectors that hold no more. *)
LEMMA ClustersFit ==
  ASSUME NEW n \in Nat, NEW w \in Nat, NEW d \in Nat, NEW t \in Nat, d + n * w <= t, d + (n + 1) * w > t
  PROVE  /\ (d + ((n + 2) - 2) * w) + w > t
         /\ \A c \in 2 .. n + 1 :
              c >= 2 /\ c < n + 2 /\ d + (c - 2) * w >= d /\ (d + (c - 2) * w) + w <= t
<1>1. n * w \in Nat /\ (n + 1) * w = n * w + w /\ (n + 2) - 2 = n
  OBVIOUS
<1>2. ASSUME NEW c \in 2 .. n + 1
      PROVE  c >= 2 /\ c < n + 2 /\ d + (c - 2) * w >= d /\ (d + (c - 2) * w) + w <= t
  <2> DEFINE k == c - 2
  <2>1. k \in Nat /\ k + 1 <= n /\ c >= 2 /\ c < n + 2
    OBVIOUS
  <2> HIDE DEF k
  <2>2. k * w \in Nat /\ (k + 1) * w = k * w + w /\ (k + 1) * w <= n * w
    BY <2>1
  <2>3. d + k * w >= d /\ (d + k * w) + w <= t
    BY <1>1, <2>2
  <2> QED BY <2>1, <2>3, Zenon DEF k
<1>3. (d + n * w) + w > t
  BY <1>1
<1> QED BY <1>1, <1>2, <1>3, Zenon

(* A cluster number that is not too large for n clusters. *)
LEMMA ClusterNumber ==
  ASSUME NEW n \in Nat, NEW c \in Nat, c >= 2, c < n + 2
  PROVE  c \in 2 .. n + 1
OBVIOUS

(* A number that is neither 0 nor too large. *)
LEMMA Between ==
  ASSUME NEW n \in Nat, NEW c \in Nat, c # 0, c < n
  PROVE  c \in 1 .. n - 1
OBVIOUS

(* A number below the modulus. *)
LEMMA SmallMod ==
  ASSUME NEW m \in Nat \ {0}, NEW x \in 0 .. m - 1
  PROVE  x % m = x /\ x \div m = 0
<1>1. x \in Nat /\ x = m * 0 + x /\ 0 \in Nat
  OBVIOUS
<1> QED BY <1>1, Division, Zenon

(* Dividing by a product is dividing twice. *)
LEMMA DivTwice ==
  ASSUME NEW x \in Nat, NEW a \in Nat \ {0}, NEW b \in Nat \ {0}
  PROVE  x \div (a * b) = (x \div a) \div b
<1> DEFINE y == x \div a
           s == x % a
           q == y \div b
           t == y % b
<1>1. y \in Nat /\ s \in 0 .. a - 1 /\ x = a * y + s
  BY DivMod
<1> HIDE DEF y, s
<1>2. q \in Nat /\ t \in 0 .. b - 1 /\ y = b * q + t
  BY <1>1, DivMod
<1> HIDE DEF q, t
<1>3. a * b \in Nat \ {0}
  OBVIOUS
<1>4. x = (a * b) * q + (a * t + s)
  <2>1. a * y = a * (b * q) + a * t
    BY <1>1, <1>2
  <2>2. a * (b * q) = (a * b) * q
    BY <1>2
  <2>3. a * y \in Int /\ a * t \in Int /\ (a * b) * q \in Int
    BY <1>1, <1>2, <1>3
  <2> QED BY <1>1, <1>2, <2>1, <2>2, <2>3
<1>5. a * t + s \in 0 .. a * b - 1
  <2>1. a * t <= a * (b - 1) /\ a * t >= 0
    BY <1>2
  <2>2. a * (b - 1) = a * b - a
    OBVIOUS
  <2>3. a * t \in Int /\ a * b \in Int
    BY <1>2
  <2> QED BY <1>1, <2>1, <2>2, <2>3
<1>6. x \div (a * b) = q
  BY <1>2, <1>3, <1>4, <1>5, Division, Zenon
<1> QED BY <1>6, Zenon DEF q, y

-----------------------------------------------------------------------------
(* Numbers put together from their bytes.                                  *)

(* Two bytes. *)
LEMMA TwoBytes ==
  ASSUME NEW R \in Nat \ {0}, NEW x \in Nat, x < R * R
  PROVE  (x % R) + ((x \div R) % R) * R = x
<1> DEFINE y == x \div R
           s == x % R
<1>1. y \in Nat /\ s \in 0 .. R - 1 /\ x = R * y + s
  BY DivMod
<1> HIDE DEF y, s
<1>2. y < R
  <2>1. y >= R => R * y >= R * R
    BY <1>1
  <2>2. R * y \in Int /\ R * R \in Int /\ R * y <= x
    BY <1>1
  <2> QED BY <1>1, <2>1, <2>2
<1>3. y % R = y
  BY <1>1, <1>2, SmallMod
<1>4. s + y * R = x
  BY <1>1
<1> QED BY <1>3, <1>4, Zenon DEF y, s

(* A quotient is smaller by as much. *)
LEMMA Quotient ==
  ASSUME NEW R \in Nat \ {0}, NEW m \in Nat, NEW x \in Nat, x < R * m
  PROVE  x \div R < m
<1> DEFINE y == x \div R
<1>1. y \in Nat /\ x % R \in 0 .. R - 1 /\ x = R * y + (x % R)
  BY DivMod
<1> HIDE DEF y
<1>2. R * y \in Int /\ R * m \in Int
  BY <1>1
<1>3. R * y <= x
  BY <1>1, <1>2
<1>4. y >= m => R * y >= R * m
  BY <1>1
<1>5. y < m
  BY <1>1, <1>2, <1>3, <1>4
<1> QED BY <1>5, Zenon DEF y

(* Four bytes. *)
LEMMA FourBytes ==
  ASSUME NEW R \in Nat \ {0}, NEW x \in Nat, x < R * R * R * R
  PROVE  (x % R) + ((x \div R) % R) * R + ((x \div (R * R)) % R) * (R * R)
           + ((x \div (R * R * R)) % R) * (R * R * R) = x
<1> DEFINE y == x \div R
           z == y \div R
           w == z \div R
<1>1. R * R \in Nat \ {0} /\ R * R * R \in Nat \ {0} /\ R * R * R * R \in Nat
  OBVIOUS
<1>2. y \in Nat /\ x % R \in 0 .. R - 1 /\ x = R * y + (x % R)
  BY DivMod
<1> HIDE DEF y
<1>3. z \in Nat /\ y % R \in 0 .. R - 1 /\ y = R * z + (y % R)
  BY <1>2, DivMod
<1> HIDE DEF z
<1>4. w \in Nat /\ z % R \in 0 .. R - 1 /\ z = R * w + (z % R)
  BY <1>3, DivMod
<1> HIDE DEF w
<1>5. x \div (R * R) = z
  <2>1. x \div (R * R) = (x \div R) \div R
    BY DivTwice, Zenon
  <2> QED BY <2>1, Zenon DEF y, z
<1>6. x \div (R * R * R) = w
  <2>1. x \div (R * R * R) = (x \div (R * R)) \div R
    BY <1>1, DivTwice, Zenon
  <2> QED BY <1>5, <2>1, Zenon DEF w
<1>7. w < R
  <2>1. x < R * (R * R * R)
    OBVIOUS
  <2>2. y < R * R * R
    BY <1>1, <2>1, Quotient, Zenon DEF y
  <2>3. y < R * (R * R)
    BY <1>1, <1>2, <2>2
  <2>4. z < R * R
    BY <1>1, <1>2, <2>3, Quotient, Zenon DEF z
  <2> QED BY <1>3, <2>4, Quotient, Zenon DEF w
<1>8. w % R = w
  <2>1. w \in 0 .. R - 1
    BY <1>4, <1>7
  <2> QED BY <2>1, SmallMod, Zenon
<1>9. (x % R) + (y % R) * R + (z % R) * (R * R) + w * (R * R * R) = x
  <2> DEFINE a == x % R
             b == y % R
             c == z % R
  <2>1. a \in Nat /\ b \in Nat /\ c \in Nat /\ x = R * y + a /\ y = R * z + b /\ z = R * w + c
    BY <1>2, <1>3, <1>4
  <2> HIDE DEF a, b, c
  <2>2. y * R = (R * w + c) * (R * R) + b * R
    BY <1>3, <1>4, <2>1
  <2>3. (R * w + c) * (R * R) = w * (R * R * R) + c * (R * R)
    BY <1>4, <2>1
  <2>4. a + b * R + c * (R * R) + w * (R * R * R) = x
    <3>1. b * R \in Int /\ c * (R * R) \in Int /\ w * (R * R * R) \in Int /\ y * R \in Int /\ R * y = y * R
      BY <1>1, <1>2, <1>4, <2>1
    <3> QED BY <2>1, <2>2, <2>3, <3>1
  <2> QED BY <2>4, Zenon DEF a, b, c
<1> QED BY <1>5, <1>6, <1>8, <1>9, Zenon DEF y

(* The weights. *)
LEMMA Weights ==
  /\ Radix \in Nat \ {0} /\ Radix \in Nat /\ Radix > 1
  /\ Weight[1] = 1 /\ Weight[2] = Radix /\ Weight[3] = Radix * Radix /\ Weight[4] = Radix * Radix * Radix
  /\ \A n \in 1 .. 4 : Weight[n] \in Nat \ {0}
<1>1. Radix \in Nat \ {0} /\ Radix > 1
  BY MountAssumption
<1>2. Radix * Radix \in Nat \ {0} /\ Radix * Radix * Radix \in Nat \ {0}
  BY <1>1
<1>3. Weight[1] = 1 /\ Weight[2] = Radix /\ Weight[3] = Radix * Radix /\ Weight[4] = Radix * Radix * Radix
  BY Zenon DEF Weight
<1>4. \A n \in 1 .. 4 : n = 1 \/ n = 2 \/ n = 3 \/ n = 4
  OBVIOUS
<1> QED BY <1>1, <1>2, <1>3, <1>4

(* How far an unsigned int goes. *)
Top == Weight[4] * Radix

(* It goes further than the constants need. *)
LEMMA TopIs ==
  /\ Top = Radix * Radix * Radix * Radix /\ Top \in Nat \ {0}
  /\ Numbers(1) = 0 .. Radix - 1 /\ Numbers(2) = 0 .. Radix * Radix - 1 /\ Numbers(4) = 0 .. Top - 1
  /\ Radix <= Top /\ Radix * Radix <= Top
<1> DEFINE R == Radix
<1>1. R \in Nat \ {0} /\ Weight[1] = 1 /\ Weight[2] = R /\ Weight[4] = R * R * R
  BY Weights, Zenon
<1>2. R * R \in Nat \ {0} /\ R * R * R \in Nat \ {0} /\ R * R * R * R \in Nat \ {0}
  BY <1>1
<1>3. R * R <= R * R * R /\ R * R * R <= R * R * R * R /\ R <= R * R
  BY <1>1, <1>2
<1>4. 1 * R = R
  BY <1>1
<1> HIDE DEF R
<1>5. Top = R * R * R * R
  BY <1>1, Zenon DEF Top, R
<1>6. Numbers(1) = 0 .. R - 1
  BY <1>1, <1>4, Zenon DEF Numbers, R
<1>7. Numbers(2) = 0 .. R * R - 1
  BY <1>1, Zenon DEF Numbers, R
<1>8. Numbers(4) = 0 .. Top - 1
  BY <1>1, Zenon DEF Numbers, Top
<1>9. R <= R * R * R * R /\ R * R <= R * R * R * R
  BY <1>2, <1>3, <1>1
<1>10. R = Radix
  BY Zenon DEF R
<1> QED BY <1>2, <1>5, <1>6, <1>7, <1>8, <1>9, <1>10, Zenon

(* Where the fields of the boot sector are: no two have a byte in common. *)
BootFields ==
  {"bytes_per_sector", "sectors_per_cluster", "reserved_sectors", "num_fats", "root_entries", "total16",
   "fat_size16", "total32", "sectors_per_fat", "root_cluster", "fsinfo_sector", "volume_id", "signature"}

Start(layout, f) == layout[f][1]

Width(layout, f) == layout[f][2]

Disjoint(layout) ==
  \A f, g \in DOMAIN layout :
    f # g => \/ Start(layout, f) + Width(layout, f) <= Start(layout, g)
             \/ Start(layout, g) + Width(layout, g) <= Start(layout, f)

Placed(layout) ==
  \A f \in DOMAIN layout : Start(layout, f) \in Nat /\ Width(layout, f) \in {1, 2, 4}

(* The boot sector's layout, field by field. *)
LEMMA BootLayoutIs ==
  /\ DOMAIN BootLayout = BootFields
  /\ BootLayout["bytes_per_sector"] = <<11, 2>> /\ BootLayout["sectors_per_cluster"] = <<13, 1>>
  /\ BootLayout["reserved_sectors"] = <<14, 2>> /\ BootLayout["num_fats"] = <<16, 1>>
  /\ BootLayout["root_entries"] = <<17, 2>> /\ BootLayout["total16"] = <<19, 2>>
  /\ BootLayout["fat_size16"] = <<22, 2>> /\ BootLayout["total32"] = <<32, 4>>
  /\ BootLayout["sectors_per_fat"] = <<36, 4>> /\ BootLayout["root_cluster"] = <<44, 4>>
  /\ BootLayout["fsinfo_sector"] = <<48, 2>> /\ BootLayout["volume_id"] = <<67, 4>>
  /\ BootLayout["signature"] = <<510, 2>>
BY Zenon DEF BootLayout, BootFields

(* The FSInfo sector's layout, field by field. *)
LEMMA FsInfoLayoutIs ==
  /\ DOMAIN FsInfoLayout = {"lead", "struct", "free_clusters"}
  /\ FsInfoLayout["lead"] = <<0, 4>> /\ FsInfoLayout["struct"] = <<484, 4>>
  /\ FsInfoLayout["free_clusters"] = <<488, 4>>
BY Zenon DEF FsInfoLayout

(* The boot sector's fields. *)
LEMMA BootDisjoint == Disjoint(BootLayout) /\ Placed(BootLayout)
<1>1. Placed(BootLayout)
  BY BootLayoutIs DEF Placed, BootFields, Start, Width
<1>2. Disjoint(BootLayout)
  BY BootLayoutIs DEF Disjoint, BootFields, Start, Width
<1> QED BY <1>1, <1>2, Zenon

(* The FSInfo sector's fields. *)
LEMMA FsInfoDisjoint == Disjoint(FsInfoLayout) /\ Placed(FsInfoLayout)
<1>1. Placed(FsInfoLayout)
  BY FsInfoLayoutIs DEF Placed, Start, Width
<1>2. Disjoint(FsInfoLayout)
  BY FsInfoLayoutIs DEF Disjoint, Start, Width
<1> QED BY <1>1, <1>2, Zenon

(* No number in the boot sector has a byte where the text is. *)
LEMMA NotText ==
  ASSUME NEW f \in DOMAIN BootLayout, NEW k \in Nat, k < Width(BootLayout, f)
  PROVE  byte(Start(BootLayout, f) + k) = ByteAt(BootLayout, Start(BootLayout, f) + k)
<1> DEFINE n == Start(BootLayout, f) + k
<1>1. n \notin 71 .. 81 /\ n \notin 82 .. 89
  BY BootLayoutIs DEF BootFields, Start, Width
<1> HIDE DEF n
<1>2. byte(n) = ByteAt(BootLayout, n)
  BY <1>1, SMT DEF byte
<1> QED BY <1>2, Zenon DEF n

(* A byte of a field. *)
LEMMA ByteOf ==
  ASSUME NEW layout, Disjoint(layout), Placed(layout), NEW f \in DOMAIN layout,
         NEW k \in Nat, k < Width(layout, f)
  PROVE  ByteAt(layout, Start(layout, f) + k) = (bpb[f] \div Weight[k + 1]) % Radix
<1> DEFINE n == Start(layout, f) + k
           Span(g) == Start(layout, g) .. Start(layout, g) + Width(layout, g) - 1
           fs == {g \in DOMAIN layout : n \in layout[g][1] .. layout[g][1] + layout[g][2] - 1}
<1>1. \A g \in DOMAIN layout : Start(layout, g) \in Nat /\ Width(layout, g) \in Nat
  BY Small, Zenon DEF Placed
<1>2. n \in Span(f) /\ n - Start(layout, f) + 1 = k + 1
  BY <1>1, InSpan, Zenon
<1>3. ASSUME NEW g \in DOMAIN layout, n \in Span(g) PROVE g = f
  BY <1>1, <1>2, <1>3, Apart, Zenon DEF Disjoint
<1> HIDE DEF n
<1>4. fs = {f}
  <2>1. \A g \in DOMAIN layout : g \in fs <=> n \in Span(g)
    BY Zenon DEF Start, Width
  <2> QED BY <1>2, <1>3, <2>1, Zenon
<1>5. (CHOOSE g \in fs : TRUE) = f /\ fs # {}
  BY <1>4, Zenon
<1>6. ByteAt(layout, n) = (bpb[f] \div Weight[n - layout[f][1] + 1]) % Radix
  BY <1>5, Zenon DEF ByteAt
<1> QED BY <1>2, <1>6, Zenon DEF n, Start

(* A field of one byte. *)
LEMMA FieldOfOne ==
  ASSUME NEW layout, Disjoint(layout), Placed(layout), Fits(bpb, layout), NEW f \in DOMAIN layout,
         Width(layout, f) = 1
  PROVE  ByteAt(layout, Start(layout, f)) = bpb[f]
<1> DEFINE a == Start(layout, f)
           x == bpb[f]
<1>1. a \in Nat /\ a + 0 = a
  BY DEF Placed
<1>2. x \in 0 .. Radix - 1
  BY TopIs, Zenon DEF Fits, Width
<1>3. ByteAt(layout, a + 0) = (x \div Weight[0 + 1]) % Radix
  BY Small, ByteOf, Zenon
<1>4. x \div 1 = x /\ x % Radix = x
  BY <1>2, Weights, SmallMod
<1> HIDE DEF a, x
<1>5. Weight[0 + 1] = 1
  BY Weights
<1>6. ByteAt(layout, a) = x
  BY <1>1, <1>3, <1>4, <1>5, Zenon
<1> QED BY <1>6, Zenon DEF a, x

(* A field of two bytes. *)
LEMMA FieldOfTwo ==
  ASSUME Fits(bpb, BootLayout), NEW f \in DOMAIN BootLayout, Width(BootLayout, f) = 2
  PROVE  le16(Start(BootLayout, f)) = bpb[f]
<1> DEFINE a == Start(BootLayout, f)
           x == bpb[f]
<1>1. a \in Nat /\ a + 0 = a
  BY BootDisjoint DEF Placed
<1>2. x \in Nat /\ x < Radix * Radix
  <2>1. x \in 0 .. Radix * Radix - 1
    BY TopIs, Zenon DEF Fits, Width
  <2>2. Radix * Radix \in Nat
    BY Weights
  <2> QED BY <2>1, <2>2
<1>3. ByteAt(BootLayout, a + 0) = (x \div Weight[0 + 1]) % Radix
  BY Small, BootDisjoint, ByteOf, Zenon
<1>4. ByteAt(BootLayout, a + 1) = (x \div Weight[1 + 1]) % Radix
  BY Small, BootDisjoint, ByteOf, Zenon
<1>5. x \div 1 = x
  BY <1>2
<1> HIDE DEF a, x
<1>6. Weight[0 + 1] = 1 /\ Weight[1 + 1] = Radix /\ Weight[2] = Radix
  BY Weights
<1>7. ByteAt(BootLayout, a) = x % Radix /\ ByteAt(BootLayout, a + 1) = (x \div Radix) % Radix
  BY <1>1, <1>3, <1>4, <1>5, <1>6, Zenon
<1>8. (x % Radix) + ((x \div Radix) % Radix) * Radix = x
  BY <1>2, Weights, TwoBytes, Zenon
<1>b. byte(a + 0) = ByteAt(BootLayout, a + 0) /\ byte(a + 1) = ByteAt(BootLayout, a + 1)
  BY Small, NotText, Zenon DEF a
<1>9. le16(a) = x
  BY <1>1, <1>6, <1>7, <1>8, <1>b, Zenon DEF le16
<1> QED BY <1>9, Zenon DEF a, x

(* A field of four bytes. *)
LEMMA FieldOfFour ==
  ASSUME NEW layout, Disjoint(layout), Placed(layout), Fits(bpb, layout), NEW f \in DOMAIN layout,
         Width(layout, f) = 4
  PROVE  le32(layout, Start(layout, f)) = bpb[f]
<1> DEFINE a == Start(layout, f)
           x == bpb[f]
<1>1. a \in Nat /\ a + 0 = a
  BY DEF Placed
<1>2. x \in Nat /\ x < Radix * Radix * Radix * Radix
  <2>1. x \in 0 .. Top - 1 /\ Top \in Nat
    BY TopIs, Zenon DEF Fits, Width
  <2>2. x \in Nat /\ x < Top
    BY <2>1
  <2> QED BY <2>2, TopIs, Zenon
<1>3. ByteAt(layout, a + 0) = (x \div Weight[0 + 1]) % Radix
  BY Small, ByteOf, Zenon
<1>4. ByteAt(layout, a + 1) = (x \div Weight[1 + 1]) % Radix
  BY Small, ByteOf, Zenon
<1>5. ByteAt(layout, a + 2) = (x \div Weight[2 + 1]) % Radix
  BY Small, ByteOf, Zenon
<1>6. ByteAt(layout, a + 3) = (x \div Weight[3 + 1]) % Radix
  BY Small, ByteOf, Zenon
<1>7. x \div 1 = x
  BY <1>2
<1> HIDE DEF a, x
<1>8. /\ 0 + 1 = 1 /\ 1 + 1 = 2 /\ 2 + 1 = 3 /\ 3 + 1 = 4
      /\ Weight[1] = 1 /\ Weight[2] = Radix /\ Weight[3] = Radix * Radix /\ Weight[4] = Radix * Radix * Radix
  BY Weights
<1>9. /\ ByteAt(layout, a) = x % Radix
      /\ ByteAt(layout, a + 1) = (x \div Radix) % Radix
      /\ ByteAt(layout, a + 2) = (x \div (Radix * Radix)) % Radix
      /\ ByteAt(layout, a + 3) = (x \div (Radix * Radix * Radix)) % Radix
  BY <1>1, <1>3, <1>4, <1>5, <1>6, <1>7, <1>8, Zenon
<1>10. (x % Radix) + ((x \div Radix) % Radix) * Radix + ((x \div (Radix * Radix)) % Radix) * (Radix * Radix)
         + ((x \div (Radix * Radix * Radix)) % Radix) * (Radix * Radix * Radix) = x
  BY <1>2, Weights, FourBytes, Zenon
<1>11. le32(layout, a) = x
  BY <1>8, <1>9, <1>10, Zenon DEF le32
<1> QED BY <1>11, Zenon DEF a, x

BootSectors == {d.boot : d \in Disks}

(* Every offset and width in the code is that of the field meant. *)
LEMMA Decoding ==
  ASSUME bpb \in BootSectors
  PROVE  /\ byte(13) = bpb.sectors_per_cluster /\ le16(14) = bpb.reserved_sectors /\ byte(16) = bpb.num_fats
         /\ le32(BootLayout, 36) = bpb.sectors_per_fat /\ le32(BootLayout, 44) = bpb.root_cluster
         /\ le16(19) = bpb.total16 /\ le32(BootLayout, 32) = bpb.total32 /\ le32(BootLayout, 67) = bpb.volume_id
         /\ le16(48) = bpb.fsinfo_sector
         /\ le32(FsInfoLayout, 0) = bpb.lead /\ le32(FsInfoLayout, 484) = bpb.struct
         /\ le32(FsInfoLayout, 488) = bpb.free_clusters
<1>1. Fits(bpb, BootLayout) /\ Fits(bpb, FsInfoLayout)
  BY MountAssumption, Zenon DEF BootSectors
<1>2. ASSUME NEW f \in BootFields, NEW a, BootLayout[f] = <<a, 1>> PROVE byte(a) = bpb[f]
  <2>1. f \in DOMAIN BootLayout /\ Width(BootLayout, f) = 1 /\ Start(BootLayout, f) = a
    BY <1>2, BootLayoutIs DEF Width, Start
  <2>2. ByteAt(BootLayout, a) = bpb[f]
    BY <1>1, <2>1, BootDisjoint, FieldOfOne, Zenon
  <2>3. a \in Nat
    BY <2>1, BootDisjoint, Zenon DEF Placed
  <2>4. a + 0 = a
    BY <2>3
  <2> QED BY <2>1, <2>2, <2>4, Small, NotText, Zenon
<1>3. ASSUME NEW f \in BootFields, NEW a, BootLayout[f] = <<a, 2>> PROVE le16(a) = bpb[f]
  <2>1. f \in DOMAIN BootLayout /\ Width(BootLayout, f) = 2 /\ Start(BootLayout, f) = a
    BY <1>3, BootLayoutIs DEF Width, Start
  <2> QED BY <1>1, <2>1, FieldOfTwo, Zenon
<1>4. ASSUME NEW f \in BootFields, NEW a, BootLayout[f] = <<a, 4>> PROVE le32(BootLayout, a) = bpb[f]
  <2>1. f \in DOMAIN BootLayout /\ Width(BootLayout, f) = 4 /\ Start(BootLayout, f) = a
    BY <1>4, BootLayoutIs DEF Width, Start
  <2> QED BY <1>1, <2>1, BootDisjoint, FieldOfFour, Zenon
<1>5. ASSUME NEW f \in DOMAIN FsInfoLayout, NEW a, FsInfoLayout[f] = <<a, 4>> PROVE le32(FsInfoLayout, a) = bpb[f]
  <2>1. Width(FsInfoLayout, f) = 4 /\ Start(FsInfoLayout, f) = a
    BY <1>5 DEF Width, Start
  <2> QED BY <1>1, <2>1, FsInfoDisjoint, FieldOfFour, Zenon
<1>6. byte(13) = bpb["sectors_per_cluster"] /\ byte(16) = bpb["num_fats"]
  BY <1>2, BootLayoutIs, ZenonT(40) DEF BootFields
<1>7. /\ le16(14) = bpb["reserved_sectors"] /\ le16(19) = bpb["total16"] /\ le16(48) = bpb["fsinfo_sector"]
  BY <1>3, BootLayoutIs, ZenonT(40) DEF BootFields
<1>8. /\ le32(BootLayout, 36) = bpb["sectors_per_fat"] /\ le32(BootLayout, 44) = bpb["root_cluster"]
      /\ le32(BootLayout, 32) = bpb["total32"] /\ le32(BootLayout, 67) = bpb["volume_id"]
  BY <1>4, BootLayoutIs, ZenonT(40) DEF BootFields
<1>9. /\ le32(FsInfoLayout, 0) = bpb["lead"] /\ le32(FsInfoLayout, 484) = bpb["struct"]
      /\ le32(FsInfoLayout, 488) = bpb["free_clusters"]
  <2>1. "lead" \in DOMAIN FsInfoLayout /\ FsInfoLayout["lead"] = <<0, 4>>
    BY FsInfoLayoutIs, Zenon
  <2>2. "struct" \in DOMAIN FsInfoLayout /\ FsInfoLayout["struct"] = <<484, 4>>
    BY FsInfoLayoutIs, Zenon
  <2>3. "free_clusters" \in DOMAIN FsInfoLayout /\ FsInfoLayout["free_clusters"] = <<488, 4>>
    BY FsInfoLayoutIs, Zenon
  <2>4. le32(FsInfoLayout, 0) = bpb["lead"]
    BY <1>5, <2>1, Zenon
  <2>5. le32(FsInfoLayout, 484) = bpb["struct"]
    BY <1>5, <2>2
  <2>6. le32(FsInfoLayout, 488) = bpb["free_clusters"]
    BY <1>5, <2>3
  <2> QED BY <2>4, <2>5, <2>6, ZenonT(40)
<1> QED BY <1>6, <1>7, <1>8, <1>9, ZenonT(40)

-----------------------------------------------------------------------------
(* The label.                                                              *)

(* Trimming takes off the padding and nothing else. *)
LEMMA TrimmedLabel ==
  ASSUME NEW label \in Seq(Int)
  PROVE  /\ Trimmed(label) \in Seq(Int)
         /\ \A n \in 1 .. Len(label) :
              IF n \in DOMAIN Trimmed(label) THEN Trimmed(label)[n] = label[n] ELSE label[n] = Space
         /\ Trimmed(label) # <<>> => Trimmed(label)[Len(Trimmed(label))] # Space
<1> DEFINE Ends(n) == /\ n > 0 => label[n] # Space
                      /\ \A m \in n + 1 .. Len(label) : label[m] = Space
           T == {n \in 0 .. Len(label) : \A m \in n + 1 .. Len(label) : label[m] = Space}
           k == CHOOSE n \in 0 .. Len(label) : Ends(n)
<1>0. Len(label) \in Nat
  OBVIOUS
<1>1. \E n \in 0 .. Len(label) : Ends(n)
  <2>1. Len(label) \in T /\ T \subseteq Nat
    BY <1>0
  <2>2. PICK n \in T : \A m \in T : n <= m
    BY <2>1, Least, Zenon
  <2>3. n > 0 => label[n] # Space
    <3> SUFFICES ASSUME n > 0, label[n] = Space PROVE FALSE
      OBVIOUS
    <3>1. n - 1 \in T
      <4>1. n \in Nat /\ n - 1 \in 0 .. Len(label)
        BY <1>0
      <4>2. ASSUME NEW m \in (n - 1) + 1 .. Len(label) PROVE label[m] = Space
        <5>1. m = n \/ m \in n + 1 .. Len(label)
          BY <1>0, <4>1
        <5> QED BY <5>1, Zenon
      <4> QED BY <4>1, <4>2, Zenon
    <3>2. n <= n - 1
      BY <2>2, <3>1, Zenon
    <3> QED BY <3>2, <1>0
  <2> QED BY <2>3, Zenon
<1>2. k \in 0 .. Len(label) /\ Ends(k)
  BY <1>1, Zenon
<1>3. Trimmed(label) = SubSeq(label, 1, k)
  BY Zenon DEF Trimmed
<1> HIDE DEF k
<1>4. /\ SubSeq(label, 1, k) \in Seq(Int) /\ Len(SubSeq(label, 1, k)) = k
      /\ \A n \in 1 .. k : SubSeq(label, 1, k)[n] = label[n]
      /\ DOMAIN SubSeq(label, 1, k) = 1 .. k
  BY <1>2
<1> DEFINE t == SubSeq(label, 1, k)
<1> HIDE DEF t
<1>5. t \in Seq(Int) /\ Len(t) = k /\ DOMAIN t = 1 .. k /\ \A n \in 1 .. k : t[n] = label[n]
  BY <1>4, Zenon DEF t
<1>6. ASSUME NEW n \in 1 .. Len(label) PROVE IF n \in DOMAIN t THEN t[n] = label[n] ELSE label[n] = Space
  <2>1. n \in 1 .. k \/ n \in k + 1 .. Len(label)
    BY <1>0, <1>2
  <2> QED BY <1>2, <1>5, <2>1, Zenon
<1>7. t # <<>> => t[Len(t)] # Space
  <2>1. t # <<>> => k > 0
    BY <1>5
  <2>2. k > 0 => k \in 1 .. k
    BY <1>2
  <2> QED BY <1>2, <1>5, <2>1, <2>2, Zenon
<1>8. Trimmed(label) = t
  BY <1>3, Zenon DEF t
<1> QED BY <1>5, <1>6, <1>7, <1>8, Zenon

-----------------------------------------------------------------------------
(* The invariant: what has been read, derived and checked so far.          *)

Metadata ==
  [sectors_per_cluster : Nat, reserved_sectors : Nat, num_fats : Nat, sectors_per_fat : Nat,
   root_cluster : Nat, total_sectors : Nat, volume_id : Nat, label : Seq(Int), data_start_sector : Nat,
   cluster_count : Nat, free_clusters_hint : Nat]

(* Nothing is filled in at first. *)
LEMMA BlankMetadata ==
  [sectors_per_cluster |-> 0, reserved_sectors |-> 0, num_fats |-> 0, sectors_per_fat |-> 0,
   root_cluster |-> 0, total_sectors |-> 0, volume_id |-> 0, label |-> <<>>, data_start_sector |-> 0, cluster_count |-> 0,
   free_clusters_hint |-> 0] \in Metadata
<1>1. 0 \in Nat /\ <<>> \in Seq(Int)
  OBVIOUS
<1> QED BY <1>1, Zenon DEF Metadata

Copied == {"sectors_per_cluster", "reserved_sectors", "num_fats", "sectors_per_fat", "root_cluster", "volume_id"}

Decoded ==
  /\ \A f \in Copied : meta_[f] = bpb[f]
  /\ meta_.sectors_per_fat # 0
  /\ meta_.total_sectors = IF bpb.total16 # 0 THEN bpb.total16 ELSE bpb.total32
  /\ meta_.label = Trimmed(bpb.label)

Derived ==
  /\ SaneGeometry
  /\ meta_.data_start_sector = data_start
  /\ meta_.cluster_count = (meta_.total_sectors - data_start) \div meta_.sectors_per_cluster

Hint(failed_) ==
  IF /\ bpb.fsinfo_sector \in 1 .. bpb.reserved_sectors - 1 /\ ~failed_
     /\ bpb.lead = FsInfoMagic[1] /\ bpb.struct = FsInfoMagic[2]
  THEN bpb.free_clusters ELSE Unknown

Hinted == meta_.free_clusters_hint = Hint(disk_.failed)

(* The disk is one of those there are. *)
SameDisk ==
  /\ \E d \in Disks : bpb = d.boot /\ disk_.sector_count = d.sector_count /\ disk_.image = d.image
  /\ DOMAIN disk_ = {"valid", "sector_count", "image", "failed"}

MountInv ==
  /\ SameDisk /\ (stage # "done" => ~disk_.failed)
  /\ bpb \in BootSectors /\ meta_ \in Metadata /\ valid_ \in BOOLEAN
  /\ valid_ => stage = "done"
  /\ stage \in {"geometry", "root"} \/ valid_ => Decoded
  /\ stage = "root" \/ valid_ => Derived
  /\ valid_ => meta_valid_cluster(meta_.root_cluster) /\ Hinted

(* The fields of a boot sector are unsigned ints. *)
LEMMA BootNumbers ==
  ASSUME bpb \in BootSectors
  PROVE  /\ \A f \in BootFields : bpb[f] \in 0 .. Top - 1
         /\ bpb.free_clusters \in 0 .. Top - 1
         /\ bpb.label \in Seq(Int) /\ Len(bpb.label) = 11 /\ Text(71, 11) = bpb.label
<1>1. Fits(bpb, BootLayout) /\ Fits(bpb, FsInfoLayout) /\ bpb.label \in [1 .. 11 -> Int]
  BY MountAssumption, Zenon DEF BootSectors
<1>a. bpb.label \in Seq(Int) /\ Len(bpb.label) = 11
  <2>1. \A n \in Nat : \A f \in [1 .. n -> Int] : f \in Seq(Int) /\ Len(f) = n
    OBVIOUS
  <2>2. 11 \in Nat
    OBVIOUS
  <2> QED BY <1>1, <2>1, <2>2, Zenon
<1>b. Text(71, 11) = bpb.label
  <2>1. ASSUME NEW i \in 1 .. 11 PROVE byte(71 + i - 1) = bpb.label[i]
    <3>1. 71 + i - 1 \in 71 .. 81 /\ (71 + i - 1) - 70 = i
      OBVIOUS
    <3> QED BY <3>1, SMT DEF byte
  <2>2. Text(71, 11) = [i \in 1 .. 11 |-> bpb.label[i]]
    BY <2>1, SMT DEF Text
  <2> QED BY <1>1, <2>2
<1>2. Numbers(1) \subseteq 0 .. Top - 1 /\ Numbers(2) \subseteq 0 .. Top - 1 /\ Numbers(4) = 0 .. Top - 1
  <2>1. Radix * Radix \in Nat /\ Radix \in Nat
    BY Weights
  <2> QED BY <2>1, TopIs
<1>3. \A f \in BootFields : bpb[f] \in 0 .. Top - 1
  <2> TAKE f \in BootFields
  <2>1. bpb[f] \in Numbers(Width(BootLayout, f))
    BY <1>1, BootLayoutIs, Zenon DEF Fits, Width
  <2>2. Width(BootLayout, f) \in {1, 2, 4}
    BY BootDisjoint, BootLayoutIs, Zenon DEF Placed
  <2> QED BY <1>2, <2>1, <2>2, Zenon
<1>4. bpb.free_clusters \in 0 .. Top - 1
  <2>1. "free_clusters" \in DOMAIN FsInfoLayout /\ FsInfoLayout["free_clusters"][2] = 4
    BY FsInfoLayoutIs
  <2>2. bpb["free_clusters"] \in Numbers(4)
    BY <1>1, <2>1, Zenon DEF Fits
  <2> QED BY <1>2, <2>2, Zenon
<1> QED BY <1>a, <1>b, <1>3, <1>4, Zenon

(* The unsigned ints. *)
LEMMA UIntIs ==
  /\ \A n \in 0 .. Top - 1 : UInt(n) = n
  /\ \A n \in Int : UInt(n) \in Nat
<1>1. Top \in Nat \ {0}
  BY TopIs, Zenon
<1>2. \A n \in 0 .. Top - 1 : n % Top = n
  BY <1>1, SmallMod, Zenon
<1>3. \A n \in Int : n % Top \in Nat
  BY <1>1
<1> QED BY <1>2, <1>3, Zenon DEF UInt, Top

(* What has been decoded, as numbers. *)
LEMMA DecodedNumbers ==
  ASSUME bpb \in BootSectors, meta_ \in Metadata, Decoded
  PROVE  /\ meta_.reserved_sectors \in Nat /\ meta_.num_fats \in Nat
         /\ meta_.sectors_per_fat \in Nat \ {0} /\ meta_.sectors_per_cluster \in Nat
         /\ meta_.total_sectors \in 0 .. Top - 1
         /\ meta_.num_fats * meta_.sectors_per_fat \in Nat /\ data_start \in Nat
<1>1. /\ meta_.reserved_sectors \in Nat /\ meta_.num_fats \in Nat
      /\ meta_.sectors_per_fat \in Nat /\ meta_.sectors_per_cluster \in Nat
  BY Zenon DEF Metadata
<1>2. bpb.total16 \in 0 .. Top - 1 /\ bpb.total32 \in 0 .. Top - 1
  BY BootNumbers, Zenon DEF BootFields
<1>3. meta_.sectors_per_fat # 0 /\ meta_.total_sectors \in 0 .. Top - 1
  BY <1>2, Zenon DEF Decoded
<1>4. \A a, b \in Nat : a * b \in Nat
  OBVIOUS
<1>5. meta_.num_fats * meta_.sectors_per_fat \in Nat
  BY <1>1, <1>4, Zenon
<1> QED BY <1>1, <1>3, <1>5 DEF data_start

(* A sane geometry is computed without wrapping: there is a FAT before the *)
(* data region, which leaves room for the two clusters that do not exist.  *)
LEMMA NothingWraps ==
  ASSUME bpb \in BootSectors, meta_ \in Metadata, Decoded, SaneGeometry
  PROVE  LET clusters == (meta_.total_sectors - data_start) \div meta_.sectors_per_cluster
         IN  /\ meta_.sectors_per_cluster \in Nat \ {0}
             /\ UInt(data_start) = data_start
             /\ clusters \in Nat /\ ClusterCount = clusters
             /\ clusters + 2 \in 0 .. Top - 1
             /\ data_start + clusters * meta_.sectors_per_cluster <= meta_.total_sectors
             /\ data_start + (clusters + 1) * meta_.sectors_per_cluster > meta_.total_sectors
<1> DEFINE w == meta_.sectors_per_cluster
           d == data_start
           t == meta_.total_sectors
           n == (t - d) \div w
           r == (t - d) % w
<1>1. Top \in Nat
  BY TopIs, Zenon
<1>2. d \in Nat /\ t \in 0 .. Top - 1 /\ d < t /\ w \in Nat
  BY DecodedNumbers, Zenon DEF SaneGeometry
<1>3. w >= 1
  BY DEF SaneGeometry, IsPowerOfTwo
<1>4. d >= 2
  <2> DEFINE a == meta_.num_fats
             b == meta_.sectors_per_fat
             c == meta_.reserved_sectors
  <2>1. a \in Nat /\ b \in Nat /\ c \in Nat /\ a # 0 /\ b # 0 /\ c # 0 /\ d = c + a * b
    BY DecodedNumbers, Zenon DEF SaneGeometry, data_start
  <2> HIDE DEF a, b, c, d
  <2>2. a * b >= 1 /\ a * b \in Int
    BY <2>1
  <2> QED BY <2>1, <2>2
<1> HIDE DEF w, d, t
<1>5. t - d \in Nat /\ w \in Nat \ {0}
  BY <1>1, <1>2, <1>3
<1>6. n \in Nat /\ r \in 0 .. w - 1 /\ t - d = w * n + r
  BY <1>5, DivMod
<1> HIDE DEF n, r
<1>7. n <= t - d
  <2>1. w * n >= n
    BY <1>5, <1>6
  <2>2. w * n \in Int
    BY <1>5, <1>6
  <2> QED BY <1>5, <1>6, <2>1, <2>2
<1>8. n + 2 \in 0 .. Top - 1 /\ n \in 0 .. Top - 1 /\ d \in 0 .. Top - 1
  BY <1>1, <1>2, <1>4, <1>6, <1>7
<1>9. d + n * w <= t /\ d + (n + 1) * w > t
  <2>1. n * w = w * n /\ (n + 1) * w = w * n + w /\ w * n \in Int
    BY <1>5, <1>6
  <2> QED BY <1>1, <1>2, <1>5, <1>6, <2>1
<1>10. UInt(d) = d /\ UInt(n) = n
  BY <1>8, UIntIs, Zenon
<1>11. ClusterCount = n
  BY <1>10, Zenon DEF ClusterCount, n, t, d, w
<1> QED BY <1>5, <1>6, <1>8, <1>9, <1>10, <1>11, Zenon DEF n, t, d, w

(* Reading the boot sector. *)
LEMMA ReadBootStep ==
  ASSUME MountInv, ReadBoot
  PROVE  MountInv'
<1>1. bpb \in BootSectors /\ meta_ \in Metadata /\ valid_ \in BOOLEAN /\ bpb' = bpb /\ valid_' = valid_ /\ ~valid_
  BY Zenon DEF MountInv, ReadBoot
<1> DEFINE t == IF bpb.total16 # 0 THEN bpb.total16 ELSE bpb.total32
<1>2. meta_' = [meta_ EXCEPT
       !.sectors_per_cluster = bpb.sectors_per_cluster,
       !.reserved_sectors = bpb.reserved_sectors,
       !.num_fats = bpb.num_fats,
       !.sectors_per_fat = bpb.sectors_per_fat,
       !.root_cluster = bpb.root_cluster,
       !.total_sectors = t,
       !.volume_id = bpb.volume_id,
       !.label = Trimmed(bpb.label)]
  <2> DEFINE Filled(w, r, f, z, c, n, v) == [meta_ EXCEPT
       !.sectors_per_cluster = w,
       !.reserved_sectors = r,
       !.num_fats = f,
       !.sectors_per_fat = z,
       !.root_cluster = c,
       !.total_sectors = n,
       !.volume_id = v,
       !.label = Trimmed(bpb.label)]
  <2>a. Text(71, 11) = bpb.label
    BY <1>1, BootNumbers, Zenon
  <2>1. meta_' = Filled(byte(13), le16(14), byte(16), le32(BootLayout, 36), le32(BootLayout, 44),
                        IF le16(19) # 0 THEN le16(19) ELSE le32(BootLayout, 32), le32(BootLayout, 67))
    BY <2>a, Zenon DEF ReadBoot
  <2> HIDE DEF Filled
  <2>2. meta_' = Filled(bpb.sectors_per_cluster, bpb.reserved_sectors, bpb.num_fats, bpb.sectors_per_fat,
                        bpb.root_cluster, t, bpb.volume_id)
    <3>1. t = IF le16(19) # 0 THEN le16(19) ELSE le32(BootLayout, 32)
      BY <1>1, Decoding, ZenonT(40)
    <3> HIDE DEF t
    <3> QED BY <1>1, <2>1, <3>1, Decoding, ZenonT(40)
  <2> QED BY <2>2, Zenon DEF Filled
<1>3. bpb.sectors_per_fat # 0
  <2>1. le32(BootLayout, 36) # 0
    BY Zenon DEF ReadBoot, IsFat32
  <2> QED BY <1>1, <2>1, Decoding, Zenon
<1>4. \A f \in BootFields : bpb[f] \in Nat
  BY <1>1, BootNumbers, TopIs
<1>5. Trimmed(bpb.label) \in Seq(Int)
  BY <1>1, BootNumbers, TrimmedLabel, Zenon
<1>6. /\ bpb.sectors_per_cluster \in Nat /\ bpb.reserved_sectors \in Nat /\ bpb.num_fats \in Nat
      /\ bpb.sectors_per_fat \in Nat /\ bpb.root_cluster \in Nat /\ bpb.volume_id \in Nat /\ t \in Nat
  BY <1>4, Zenon DEF BootFields
<1> HIDE DEF t
<1>7. meta_' \in Metadata
  BY <1>1, <1>2, <1>5, <1>6, Zenon DEF Metadata
<1>8. /\ meta_'.sectors_per_cluster = bpb.sectors_per_cluster /\ meta_'.reserved_sectors = bpb.reserved_sectors
      /\ meta_'.num_fats = bpb.num_fats /\ meta_'.sectors_per_fat = bpb.sectors_per_fat
      /\ meta_'.root_cluster = bpb.root_cluster /\ meta_'.volume_id = bpb.volume_id
      /\ meta_'.total_sectors = t /\ meta_'.label = Trimmed(bpb.label)
  BY <1>1, <1>2, Zenon DEF Metadata
<1>9. Decoded'
  <2>1. \A f \in Copied : meta_'[f] = bpb'[f]
    BY <1>1, <1>8, Zenon DEF Copied
  <2>2. meta_'.label = Trimmed(bpb'.label)
    BY <1>1, <1>8, Zenon
  <2>3. meta_'.total_sectors = IF bpb'.total16 # 0 THEN bpb'.total16 ELSE bpb'.total32
    BY <1>1, <1>8, Zenon DEF t
  <2> QED BY <1>3, <1>8, <2>1, <2>2, <2>3, Zenon DEF Decoded, Trimmed
<1>10. stage' = "geometry" /\ stage = "start" /\ disk_' = disk_
  BY Zenon DEF ReadBoot
<1>11. SameDisk' /\ ~disk_'.failed
  BY <1>1, <1>10 DEF MountInv, SameDisk
<1> QED BY <1>1, <1>7, <1>9, <1>10, <1>11, Zenon DEF MountInv

(* Deriving the geometry. *)
LEMMA GeometryStep ==
  ASSUME MountInv, Geometry
  PROVE  MountInv'
<1>1. /\ bpb \in BootSectors /\ meta_ \in Metadata /\ valid_ \in BOOLEAN /\ bpb' = bpb /\ valid_' = valid_ /\ ~valid_
      /\ Decoded /\ SaneGeometry /\ disk_' = disk_ /\ stage' = "root"
  BY Zenon DEF MountInv, Geometry
<1> DEFINE n == (meta_.total_sectors - data_start) \div meta_.sectors_per_cluster
<1>2. UInt(data_start) = data_start /\ n \in Nat /\ ClusterCount = n
  BY <1>1, NothingWraps, Zenon
<1>3. data_start \in Nat
  BY <1>1, DecodedNumbers, Zenon
<1>4. meta_' = [meta_ EXCEPT !.data_start_sector = data_start, !.cluster_count = n]
  BY <1>2, Zenon DEF Geometry
<1> DEFINE d == data_start
<1>5. /\ \A f \in Copied \cup {"total_sectors", "label"} : meta_'[f] = meta_[f]
      /\ meta_'.data_start_sector = d /\ meta_'.cluster_count = n
      /\ meta_' \in Metadata
  <2> HIDE DEF n, d
  <2> QED BY <1>1, <1>2, <1>3, <1>4, Zenon DEF Metadata, Copied, d
<1>6. /\ meta_'.total_sectors = meta_.total_sectors /\ meta_'.label = meta_.label
      /\ meta_'.sectors_per_cluster = meta_.sectors_per_cluster /\ meta_'.num_fats = meta_.num_fats
      /\ meta_'.reserved_sectors = meta_.reserved_sectors /\ meta_'.sectors_per_fat = meta_.sectors_per_fat
  BY <1>5, Zenon DEF Copied
<1>7. Decoded'
  <2>1. \A f \in Copied : meta_'[f] = bpb'[f]
    BY <1>1, <1>5, Zenon DEF Decoded
  <2> QED BY <1>1, <1>6, <2>1, Zenon DEF Decoded, Trimmed
<1>8. data_start' = data_start
  BY <1>6, Zenon DEF data_start
<1>9. Derived'
  BY <1>1, <1>5, <1>6, <1>8, Zenon DEF Derived, SaneGeometry
<1>10. SameDisk' /\ ~disk_'.failed
  <2>1. stage = "geometry"
    BY Zenon DEF Geometry
  <2> QED BY <1>1, <2>1 DEF MountInv, SameDisk
<1> QED BY <1>1, <1>5, <1>7, <1>9, <1>10, Zenon DEF MountInv

(* A read that fails changes nothing else about the disk. *)
LEMMA DiskSame ==
  ASSUME SameDisk, disk_' = disk_ \/ disk_' = [disk_ EXCEPT !.failed = TRUE], bpb' = bpb
  PROVE  SameDisk' /\ disk_'.sector_count = disk_.sector_count /\ disk_'.image = disk_.image
<1>1. DOMAIN disk_ = {"valid", "sector_count", "image", "failed"}
  BY Zenon DEF SameDisk
<1>2. /\ disk_'.sector_count = disk_.sector_count /\ disk_'.image = disk_.image
      /\ DOMAIN disk_' = {"valid", "sector_count", "image", "failed"}
  BY <1>1
<1> QED BY <1>2, Zenon DEF SameDisk

(* Mounting, with the hint that is right. *)
LEMMA MountedStep ==
  ASSUME MountInv, NEW hint \in Nat, Mounted(hint), hint = Hint(disk_'.failed),
         disk_' = disk_ \/ disk_' = [disk_ EXCEPT !.failed = TRUE]
  PROVE  MountInv'
<1>1. /\ bpb \in BootSectors /\ meta_ \in Metadata /\ bpb' = bpb /\ valid_' = TRUE /\ stage' = "done"
      /\ Decoded /\ Derived /\ meta_valid_cluster(meta_.root_cluster)
      /\ meta_' = [meta_ EXCEPT !.free_clusters_hint = hint]
  BY Zenon DEF MountInv, Mounted
<1>a. SameDisk' /\ disk_'.sector_count = disk_.sector_count
  BY <1>1, DiskSame, Zenon DEF MountInv
<1>2. /\ \A f \in Copied \cup {"total_sectors", "label", "data_start_sector", "cluster_count"} : meta_'[f] = meta_[f]
      /\ meta_'.free_clusters_hint = hint
      /\ meta_' \in Metadata
  BY <1>1, Zenon DEF Metadata, Copied
<1>3. /\ meta_'.total_sectors = meta_.total_sectors /\ meta_'.label = meta_.label
      /\ meta_'.sectors_per_cluster = meta_.sectors_per_cluster /\ meta_'.num_fats = meta_.num_fats
      /\ meta_'.reserved_sectors = meta_.reserved_sectors /\ meta_'.sectors_per_fat = meta_.sectors_per_fat
      /\ meta_'.data_start_sector = meta_.data_start_sector /\ meta_'.cluster_count = meta_.cluster_count
      /\ meta_'.root_cluster = meta_.root_cluster
  BY <1>2, Zenon DEF Copied
<1>4. Decoded'
  <2>1. \A f \in Copied : meta_'[f] = bpb'[f]
    BY <1>1, <1>2, Zenon DEF Decoded
  <2> QED BY <1>1, <1>3, <2>1, ZenonT(40) DEF Decoded, Trimmed
<1>5. Derived'
  <2>1. data_start' = data_start
    BY <1>3, Zenon DEF data_start
  <2> QED BY <1>1, <1>a, <1>3, <2>1, Zenon DEF Derived, SaneGeometry
<1>6. meta_valid_cluster(meta_.root_cluster)'
  BY <1>1, <1>3, Zenon DEF meta_valid_cluster
<1>7. Hinted'
  BY <1>1, <1>2, Zenon DEF Hinted, Hint, Unknown
<1> QED BY <1>1, <1>a, <1>2, <1>4, <1>5, <1>6, <1>7, Zenon DEF MountInv

(* The invariant holds. *)
LEMMA MountInvariance == MountSpec => []MountInv
<1>1. MountInit => MountInv
  <2> SUFFICES ASSUME MountInit PROVE MountInv
    OBVIOUS
  <2>1. meta_ \in Metadata
    BY BlankMetadata, Zenon DEF MountInit
  <2>2. PICK d \in Disks, valid \in BOOLEAN :
          /\ bpb = d.boot
          /\ disk_ = [valid |-> valid, sector_count |-> d.sector_count, image |-> d.image, failed |-> FALSE]
    BY Zenon DEF MountInit
  <2>3. disk_.sector_count = d.sector_count /\ disk_.image = d.image /\ ~disk_.failed
        /\ DOMAIN disk_ = {"valid", "sector_count", "image", "failed"}
    BY <2>2
  <2>4. SameDisk /\ bpb \in BootSectors
    BY <2>2, <2>3, Zenon DEF SameDisk, BootSectors
  <2> QED BY <2>1, <2>3, <2>4, Zenon DEF MountInit, MountInv
<1>2. MountInv /\ [MountNext]_volume => MountInv'
  <2> SUFFICES ASSUME MountInv, [MountNext]_volume PROVE MountInv'
    OBVIOUS
  <2>1. ASSUME UNCHANGED <<bpb, disk_, valid_, meta_>>, stage' = "done" \/ stage' = stage PROVE MountInv'
    <3>1. bpb' = bpb /\ disk_' = disk_ /\ valid_' = valid_ /\ meta_' = meta_
      BY <2>1, Zenon
    <3>2. Decoded' = Decoded
      BY <3>1, Zenon DEF Decoded, Trimmed
    <3>3. Derived' = Derived
      BY <3>1, Zenon DEF Derived, SaneGeometry, data_start
    <3>4. Hinted' = Hinted /\ meta_valid_cluster(meta_.root_cluster)' = meta_valid_cluster(meta_.root_cluster)
      BY <3>1, Zenon DEF Hinted, Hint, Unknown, meta_valid_cluster
    <3>5. SameDisk' = SameDisk
      BY <3>1, Zenon DEF SameDisk
    <3> HIDE DEF MountInv
    <3> QED BY <2>1, <3>1, <3>2, <3>3, <3>4, <3>5 DEF MountInv
  <2>2. CASE NoDisk \/ NotFat32 \/ Insane \/ BadRoot
    <3>1. GiveUp
      BY <2>2, Zenon DEF NoDisk, NotFat32, Insane, BadRoot
    <3> QED BY <2>1, <3>1, Zenon DEF GiveUp
  <2>b. CASE BootFails
    <3>1. /\ bpb' = bpb /\ valid_' = valid_ /\ meta_' = meta_ /\ stage' = "done" /\ stage = "start"
          /\ disk_' = [disk_ EXCEPT !.failed = TRUE]
      BY <2>b, Zenon DEF BootFails
    <3>2. ~valid_ /\ SameDisk'
      BY <3>1, DiskSame, Zenon DEF MountInv
    <3> QED BY <3>1, <3>2, Zenon DEF MountInv
  <2>3. CASE UNCHANGED volume
    BY <2>1, <2>3, Zenon DEF volume
  <2>4. CASE FsInfo
    <3> DEFINE hint == bpb.free_clusters
    <3>1. bpb \in BootSectors /\ Decoded /\ stage = "root" /\ disk_' = disk_ /\ ~disk_.failed
      BY <2>4, ZenonT(40) DEF MountInv, FsInfo, Mounted
    <3>a. /\ le16(48) = bpb.fsinfo_sector /\ le32(FsInfoLayout, 0) = bpb.lead
          /\ le32(FsInfoLayout, 484) = bpb.struct /\ le32(FsInfoLayout, 488) = hint
      BY <3>1, Decoding, Zenon
    <3>b. NamesFsInfo /\ IsFsInfo /\ Mounted(le32(FsInfoLayout, 488))
      BY <2>4, Zenon DEF FsInfo
    <3>2. Mounted(hint) /\ bpb.lead = FsInfoMagic[1] /\ bpb.struct = FsInfoMagic[2]
      BY <3>a, <3>b, ZenonT(40) DEF IsFsInfo
    <3>3. bpb.fsinfo_sector # 0 /\ bpb.fsinfo_sector < bpb.reserved_sectors
      <4>1. meta_.reserved_sectors = bpb.reserved_sectors
        BY <3>1, Zenon DEF Decoded, Copied
      <4> QED BY <3>a, <3>b, <4>1, ZenonT(40) DEF NamesFsInfo
    <3>4. bpb.fsinfo_sector \in 1 .. bpb.reserved_sectors - 1
      <4>1. bpb.fsinfo_sector \in Nat /\ bpb.reserved_sectors \in Nat
        BY <3>1, BootNumbers, TopIs DEF BootFields
      <4> QED BY <3>3, <4>1, Between, Zenon
    <3>5. hint \in Nat
      BY <3>1, BootNumbers, TopIs
    <3>6. hint = Hint(disk_'.failed)
      BY <3>1, <3>2, <3>4, Zenon DEF Hint
    <3> QED BY <3>1, <3>2, <3>5, <3>6, MountedStep, Zenon
  <2>u. Unknown \in Nat
    BY UIntIs DEF Unknown
  <2>5. CASE NoFsInfo
    <3>1. bpb \in BootSectors /\ Decoded /\ Mounted(Unknown) /\ disk_' = disk_ /\ ~(NamesFsInfo /\ IsFsInfo)
      BY <2>5, ZenonT(40) DEF MountInv, NoFsInfo, Mounted
    <3>2. /\ le16(48) = bpb.fsinfo_sector /\ le32(FsInfoLayout, 0) = bpb.lead
          /\ le32(FsInfoLayout, 484) = bpb.struct
      BY <3>1, Decoding, Zenon
    <3>3. meta_.reserved_sectors = bpb.reserved_sectors
      BY <3>1, Zenon DEF Decoded, Copied
    <3>4. \A r \in Nat : \A n \in 1 .. r - 1 : n # 0 /\ n < r
      OBVIOUS
    <3>5. bpb.reserved_sectors \in Nat
      BY <3>1, BootNumbers, TopIs DEF BootFields
    <3>6. ~(/\ bpb.fsinfo_sector \in 1 .. bpb.reserved_sectors - 1
            /\ bpb.lead = FsInfoMagic[1] /\ bpb.struct = FsInfoMagic[2])
      BY <3>1, <3>2, <3>3, <3>4, <3>5, ZenonT(40) DEF NamesFsInfo, IsFsInfo
    <3>7. Unknown = Hint(disk_'.failed)
      BY <3>6, Zenon DEF Hint
    <3> QED BY <2>u, <3>1, <3>7, MountedStep, Zenon
  <2>6. CASE FsInfoFails
    <3>1. Mounted(Unknown) /\ disk_' = [disk_ EXCEPT !.failed = TRUE] /\ SameDisk
      BY <2>6, Zenon DEF FsInfoFails, MountInv
    <3>2. disk_'.failed
      BY <3>1 DEF SameDisk
    <3>3. Unknown = Hint(disk_'.failed)
      BY <3>2, Zenon DEF Hint
    <3> QED BY <2>u, <3>1, <3>3, MountedStep, Zenon
  <2> QED BY <2>2, <2>b, <2>3, <2>4, <2>5, <2>6, ReadBootStep, GeometryStep, Zenon DEF MountNext
<1> QED BY <1>1, <1>2, PTL DEF MountSpec

-----------------------------------------------------------------------------
(* ClustersOnDisk: whatever the boot sector says, the clusters of a volume *)
(* that is mounted lie behind its FATs and on its disk, and no integer of  *)
(* the constructor wraps in computing where.                               *)
THEOREM VolumeOnDisk == MountSpec => []ClustersOnDisk
<1>1. MountInv => ClustersOnDisk
  <2> SUFFICES ASSUME MountInv, valid_ PROVE ClustersOnDisk
    BY Zenon DEF ClustersOnDisk
  <2> DEFINE w == meta_.sectors_per_cluster
             d == data_start
             t == meta_.total_sectors
             n == (t - d) \div w
  <2>1. bpb \in BootSectors /\ meta_ \in Metadata /\ Decoded /\ Derived /\ SaneGeometry /\ meta_valid_cluster(meta_.root_cluster)
    BY Zenon DEF MountInv, Derived
  <2>2. /\ w \in Nat \ {0} /\ n \in Nat /\ n + 2 \in 0 .. Top - 1
        /\ d + n * w <= t /\ d + (n + 1) * w > t
    BY <2>1, NothingWraps, Zenon
  <2>3. d \in Nat /\ t \in 0 .. Top - 1
    BY <2>1, DecodedNumbers, Zenon
  <2>4. meta_.cluster_count = n /\ meta_.data_start_sector = d
    BY <2>1, Zenon DEF Derived
  <2>5. t <= disk_.sector_count
    BY <2>1, Zenon DEF SaneGeometry
  <2>6. bpb.sectors_per_cluster = w /\ bpb.reserved_sectors + bpb.num_fats * bpb.sectors_per_fat = d
    <3>1. /\ meta_.sectors_per_cluster = bpb.sectors_per_cluster /\ meta_.reserved_sectors = bpb.reserved_sectors
          /\ meta_.num_fats = bpb.num_fats /\ meta_.sectors_per_fat = bpb.sectors_per_fat
      BY <2>1, Zenon DEF Decoded, Copied
    <3> QED BY <3>1, Zenon DEF data_start
  <2>7. meta_.root_cluster \in Nat /\ Top \in Nat
    BY <2>1, TopIs, Zenon DEF Metadata
  <2> HIDE DEF n, d, t, w
  <2>8. UInt(n + 2) = n + 2
    BY <2>2, UIntIs, Zenon
  <2>9. meta_.root_cluster \in 2 .. n + 1
    BY <2>1, <2>2, <2>4, <2>7, <2>8, ClusterNumber, Zenon DEF meta_valid_cluster
  <2>10. \A c : meta_cluster_lba(c) = d + (c - 2) * w
    BY <2>4, Zenon DEF meta_cluster_lba, w
  <2>a. w \in Nat /\ t \in Nat
    BY <2>2, <2>3
  <2>11. meta_cluster_lba(n + 2) + w > t
    BY <2>2, <2>3, <2>10, <2>a, ClustersFit, Zenon
  <2>12. ASSUME NEW c \in 2 .. n + 1
         PROVE  meta_valid_cluster(c) /\ meta_cluster_lba(c) >= d /\ meta_cluster_lba(c) + w <= t
    <3>1. c >= 2 /\ c < n + 2 /\ d + (c - 2) * w >= d /\ (d + (c - 2) * w) + w <= t
      BY <2>2, <2>3, <2>a, ClustersFit, Zenon
    <3>2. meta_valid_cluster(c)
      BY <2>4, <2>8, <3>1, Zenon DEF meta_valid_cluster
    <3> QED BY <2>10, <3>1, <3>2, Zenon
  <2>13. meta_.sectors_per_cluster = w /\ meta_.total_sectors = t
    BY Zenon DEF w, t
  <2> QED BY <2>4, <2>5, <2>6, <2>9, <2>11, <2>12, <2>13, Zenon DEF ClustersOnDisk
<1> QED BY <1>1, MountInvariance, PTL

(* MetadataIsDisks: a mounted volume's metadata is what its boot sector    *)
(* and FSInfo sector say, from the bytes the constructor reads it from.    *)
THEOREM MetadataIsRight == MountSpec => []MetadataIsDisks
<1>1. MountInv => MetadataIsDisks
  <2> SUFFICES ASSUME MountInv, valid_ PROVE MetadataIsDisks
    BY Zenon DEF MetadataIsDisks
  <2>1. bpb \in BootSectors /\ meta_ \in Metadata /\ Decoded /\ SaneGeometry /\ Hinted
    BY Zenon DEF MountInv, Derived
  <2>2. data_start \in Nat /\ meta_.total_sectors \in 0 .. Top - 1 /\ data_start < meta_.total_sectors /\ Top \in Nat
    BY <2>1, DecodedNumbers, TopIs, Zenon DEF SaneGeometry
  <2>3. meta_.total_sectors # 0
    BY <2>2
  <2>4. meta_.label = Trimmed(bpb.label) /\ bpb.label \in Seq(Int) /\ Len(bpb.label) = 11
    BY <2>1, BootNumbers, Zenon DEF Decoded
  <2>5. /\ \A n \in 1 .. Len(bpb.label) :
             IF n \in DOMAIN meta_.label THEN meta_.label[n] = bpb.label[n] ELSE bpb.label[n] = Space
        /\ meta_.label # <<>> => meta_.label[Len(meta_.label)] # Space
    BY <2>4, TrimmedLabel, Zenon
  <2>6. /\ meta_.total_sectors \in {bpb.total16, bpb.total32} \ {0}
        /\ bpb.total16 # 0 => meta_.total_sectors = bpb.total16
    BY <2>1, <2>3, Zenon DEF Decoded
  <2>7. \A f \in Copied : meta_[f] = bpb[f]
    BY <2>1, Zenon DEF Decoded
  <2> QED BY <2>1, <2>4, <2>5, <2>6, <2>7, Zenon DEF MetadataIsDisks, Copied, Hinted, Hint
<1> QED BY <1>1, MountInvariance, PTL

-----------------------------------------------------------------------------
(* Division, for any numbers. *)
LEMMA Divides ==
  \A m \in Nat \ {0}, q \in Nat, x \in Nat : \A r \in 0 .. m - 1 : x = m * q + r => x \div m = q /\ x % m = r
BY Division, Zenon

(* From place t of sector lba on there are the bytes of word w. *)
WordAt(lba, t, w, S) ==
  \A k \in 0 .. 3 : (lba * S + (t + k)) \div 4 = w /\ (lba * S + (t + k)) % 4 = k

(* The place p, t of word u, if a sector is S bytes, q words. *)
Placing(S, q, u, p, t) ==
  /\ q \in Nat /\ q >= 2 /\ S \in Nat /\ S = 4 * q /\ u \in Nat
  /\ p = (4 * u) \div S /\ t = (4 * u) % S

(* Words of four bytes, q to a sector, from sector r on: where word u is. *)
LEMMA BytesOfWord ==
  ASSUME NEW S, NEW q, NEW u, NEW p, NEW t, Placing(S, q, u, p, t), NEW r \in Nat
  PROVE  /\ p \in Nat /\ t \in Nat /\ t + 3 < S /\ 2 * p <= u /\ u < q * (p + 1)
         /\ WordAt(r + p, t, r * q + u, S)
<1> DEFINE y == u \div q
           z == u % q
<1>a. /\ q \in Nat /\ q >= 2 /\ S \in Nat /\ S = 4 * q /\ u \in Nat
      /\ p = (4 * u) \div S /\ t = (4 * u) % S
  BY Zenon DEF Placing
<1>1. q \in Nat \ {0} /\ S \in Nat \ {0}
  BY <1>a
<1>2. y \in Nat /\ z \in 0 .. q - 1 /\ u = q * y + z
  BY <1>a, <1>1, DivMod
<1> HIDE DEF y, z
<1>3. q * y \in Nat
  BY <1>a, <1>2
<1>4. 4 * u \in Nat /\ 4 * z \in 0 .. S - 1 /\ 4 * u = S * y + 4 * z
  BY <1>a, <1>2, <1>3
<1>5. (4 * u) \div S = y /\ (4 * u) % S = 4 * z
  <2>1. \A x \in Nat : \A s \in 0 .. S - 1 : x = S * y + s => x \div S = y /\ x % S = s
    BY <1>1, <1>2, Divides, ZenonT(40)
  <2> DEFINE b == 4 * u
             s == 4 * z
  <2>2. b \in Nat /\ s \in 0 .. S - 1 /\ b = S * y + s
    BY <1>4
  <2> HIDE DEF b, s
  <2>3. b \div S = y /\ b % S = s
    BY <2>1, <2>2, Zenon
  <2> QED BY <2>3 DEF b, s
<1>6. 4 * z \in Nat /\ 4 * z + 3 < S
  BY <1>a, <1>2
<1>7. 2 * y <= q * y
  BY <1>a, <1>2
<1>8. 2 * y <= u /\ u < q * (y + 1)
  BY <1>a, <1>2, <1>3, <1>7
<1>9. ASSUME NEW k \in 0 .. 3
      PROVE  /\ ((r + y) * S + (4 * z + k)) \div 4 = r * q + u
             /\ ((r + y) * S + (4 * z + k)) % 4 = k
  <2> DEFINE n == (r + y) * S + (4 * z + k)
  <2>1. r * q \in Nat /\ k \in 0 .. 4 - 1 /\ 4 \in Nat \ {0}
    BY <1>1
  <2>2. (r + y) * S = 4 * (r * q) + 4 * (q * y)
    BY <1>a, <1>2, <2>1
  <2>3. n \in Nat /\ r * q + u \in Nat /\ n = 4 * (r * q + u) + k
    BY <1>a, <1>2, <1>3, <2>1, <2>2
  <2> HIDE DEF n
  <2>4. n \div 4 = r * q + u /\ n % 4 = k
    BY <2>1, <2>3, Division, Zenon
  <2> QED BY <2>3, <2>4, Zenon DEF n
<1> DEFINE s == 4 * z
<1>10. WordAt(r + y, s, r * q + u, S)
  BY <1>9, Zenon DEF WordAt
<1>11. p = y /\ t = s /\ s \in Nat /\ s + 3 < S
  BY <1>a, <1>5, <1>6
<1> HIDE DEF s
<1>12. WordAt(r + p, t, r * q + u, S)
  BY <1>10, <1>11, Zenon
<1> QED BY <1>2, <1>8, <1>11, <1>12

(* The offset of an entry, even if it wraps, is that of an entry. *)
LEMMA Offset ==
  ASSUME NEW c \in Nat
  PROVE  \E u \in Nat : byte_off(c) = 4 * u /\ u <= c /\ (c * 4 \in 0 .. Top - 1 => u = c)
<1> DEFINE e == Radix \div 2
           h == (e * e) * (Radix * Radix)
           y == c \div h
           z == c % h
<1>1. Radix \in Nat \ {0} /\ e \in Nat \ {0} /\ Radix = 2 * e
  BY MountAssumption
<1> HIDE DEF e
<1>2. h \in Nat \ {0} /\ Top = 4 * h
  <2>1. e * e \in Nat \ {0} /\ Radix * Radix \in Nat \ {0} /\ Radix * Radix = 4 * (e * e)
    BY <1>1
  <2>2. Top = (Radix * Radix) * (Radix * Radix)
    BY <1>1, TopIs
  <2> DEFINE a == e * e
             b == Radix * Radix
  <2> HIDE DEF a, b
  <2>3. a \in Nat \ {0} /\ b \in Nat \ {0} /\ b = 4 * a /\ Top = b * b
    BY <2>1, <2>2, Zenon DEF a, b
  <2>4. a * b \in Nat \ {0} /\ b * b = 4 * (a * b)
    BY <2>3
  <2>5. h = a * b
    BY Zenon DEF a, b
  <2> QED BY <2>3, <2>4, <2>5
<1> HIDE DEF h
<1>3. y \in Nat /\ z \in 0 .. h - 1 /\ c = h * y + z
  BY <1>2, DivMod
<1> HIDE DEF y, z
<1>4. h * y \in Nat
  BY <1>2, <1>3
<1>5. /\ c * 4 \in Nat /\ Top \in Nat \ {0} /\ 4 * z \in 0 .. Top - 1 /\ c * 4 = Top * y + 4 * z
      /\ z \in Nat /\ z <= c
  BY <1>2, <1>3, <1>4
<1>6. (c * 4) % Top = 4 * z
  <2>1. \A x \in Nat : \A s \in 0 .. Top - 1 : x = Top * y + s => x % Top = s
    BY <1>3, <1>5, Divides, ZenonT(40)
  <2> QED BY <1>5, <2>1
<1>7. byte_off(c) = 4 * z
  BY <1>6, Zenon DEF byte_off, UInt, Top
<1>8. ASSUME c * 4 \in 0 .. Top - 1 PROVE z = c
  <2>1. UInt(c * 4) = c * 4
    BY <1>8, UIntIs, Zenon
  <2>2. 4 * z = c * 4
    BY <1>7, <2>1, Zenon DEF byte_off
  <2> QED BY <1>5, <2>2
<1> QED BY <1>5, <1>7, <1>8, Zenon

(* Word u behind r sectors, from the four bytes fat_next() puts together. *)
LEMMA FourOfWord ==
  ASSUME NEW lba, NEW t, NEW w, w \in Nat, word(w) \in 0 .. Top - 1, t + 0 = t,
         WordAt(lba, t, w, kSectorSize)
  PROVE  SectorByte(lba, t + 0) + SectorByte(lba, t + 1) * Weight[2] + SectorByte(lba, t + 2) * Weight[3]
           + SectorByte(lba, t + 3) * Weight[4] = word(w)
<1>1. \A k \in 0 .. 3 : SectorByte(lba, t + k) = (word(w) \div Weight[k + 1]) % Radix
  BY Zenon DEF SectorByte, WordAt
<1>2. 0 \in 0 .. 3 /\ 1 \in 0 .. 3 /\ 2 \in 0 .. 3 /\ 3 \in 0 .. 3 /\ 0 + 1 = 1 /\ 1 + 1 = 2 /\ 2 + 1 = 3 /\ 3 + 1 = 4
  OBVIOUS
<1> DEFINE x == word(w)
<1>3. /\ SectorByte(lba, t + 0) = (x \div Weight[1]) % Radix /\ SectorByte(lba, t + 1) = (x \div Weight[2]) % Radix
      /\ SectorByte(lba, t + 2) = (x \div Weight[3]) % Radix /\ SectorByte(lba, t + 3) = (x \div Weight[4]) % Radix
  BY <1>1, <1>2, Zenon
<1>4. x \in Nat /\ x < Radix * Radix * Radix * Radix
  BY TopIs
<1>5. x \div 1 = x
  BY <1>4
<1> HIDE DEF x
<1>6. (x % Radix) + ((x \div Radix) % Radix) * Radix + ((x \div (Radix * Radix)) % Radix) * (Radix * Radix)
         + ((x \div (Radix * Radix * Radix)) % Radix) * (Radix * Radix * Radix) = x
  BY <1>4, Weights, FourBytes, Zenon
<1>7. x = word(w)
  BY Zenon DEF x
<1> QED BY <1>3, <1>5, <1>6, <1>7, Weights, Zenon

(* FatNextReadsEntry: whatever the boot sector and the FAT hold, on a      *)
(* volume that is mounted fat_next() reads one sector of the disk, never   *)
(* past its end, and gets the entry of its cluster unless byte_off wraps.  *)
THEOREM FatNextIsEntry == MountSpec => []FatNextReadsEntry
<1>1. MountInv => FatNextReadsEntry
  <2> SUFFICES ASSUME MountInv, valid_, NEW c \in 2 .. meta_.cluster_count + 1
               PROVE  /\ FatSector(c) \in bpb.reserved_sectors .. disk_.sector_count - 1
                      /\ FatPlace(c) + 3 < kSectorSize
                      /\ c * 4 \in Numbers(4) =>
                           fat_next(c) = word(bpb.reserved_sectors * (kSectorSize \div 4) + c) % (FatMask + 1)
    BY Zenon DEF FatNextReadsEntry
  <2> DEFINE S == kSectorSize
             q == S \div 4
             r == meta_.reserved_sectors
             n == meta_.cluster_count
             N == disk_.sector_count
  <2>1. /\ bpb \in BootSectors /\ meta_ \in Metadata /\ Decoded /\ Derived /\ SaneGeometry /\ SameDisk
        /\ bpb.reserved_sectors = r
    BY Zenon DEF MountInv, Derived, Decoded, Copied
  <2>2. S \in Nat /\ q \in Nat /\ q >= 2 /\ S = 4 * q
    BY MountAssumption
  <2>3. PICK d \in Disks : N = d.sector_count /\ disk_.image = d.image
    BY <2>1, Zenon DEF SameDisk
  <2>4. N \in Nat /\ \A i \in 0 .. N * q - 1 : word(i) \in 0 .. Top - 1
    BY <2>3, MountAssumption, TopIs, Zenon DEF word
  <2>5. n \in Nat /\ r \in Nat /\ r + 1 + n <= N
    <3> DEFINE w == meta_.sectors_per_cluster
               m == meta_.num_fats * meta_.sectors_per_fat
               t == meta_.total_sectors
    <3>1. n \in Nat /\ w \in Nat \ {0} /\ (r + m) + n * w <= t
      BY <2>1, NothingWraps, Zenon DEF Derived, data_start
    <3>2. /\ r \in Nat /\ meta_.num_fats \in Nat \ {0} /\ meta_.sectors_per_fat \in Nat \ {0} /\ t \in 0 .. Top - 1
          /\ t <= N
      BY <2>1, DecodedNumbers, Zenon DEF SaneGeometry
    <3>3. m \in Nat \ {0}
      BY <3>2
    <3>4. Top \in Nat
      BY TopIs, Zenon
    <3> HIDE DEF w, m, t, r, n, N
    <3>5. n * w \in Nat /\ n <= n * w
      BY <3>1
    <3> QED BY <2>4, <3>1, <3>2, <3>3, <3>4, <3>5
  <2>6. c \in Nat /\ c <= n + 1 /\ 2 <= c
    BY <2>5
  <2>7. PICK u \in Nat : byte_off(c) = 4 * u /\ u <= c /\ (c * 4 \in 0 .. Top - 1 => u = c)
    BY <2>6, Offset, Zenon
  <2> DEFINE p == (4 * u) \div S
             t == (4 * u) % S
  <2>8. FatSector(c) = r + p /\ FatPlace(c) = t
    BY <2>7, Zenon DEF FatSector, FatPlace
  <2> HIDE DEF q
  <2>9. /\ p \in Nat /\ t \in Nat /\ t + 3 < S /\ 2 * p <= u /\ u < q * (p + 1)
        /\ WordAt(r + p, t, r * q + u, S)
    <3>1. Placing(S, q, u, p, t)
      BY <2>2, <2>7, Zenon DEF Placing
    <3> HIDE DEF S, p, t, r
    <3> QED BY <2>5, <3>1, BytesOfWord, Zenon
  <2> HIDE DEF S, r, n, N, p, t
  <2>10. r + p \in r .. N - 1
    BY <2>4, <2>5, <2>6, <2>7, <2>9
  <2>11. ASSUME c * 4 \in Numbers(4) PROVE fat_next(c) = word(r * q + c) % (FatMask + 1)
    <3>1. u = c
      BY <2>7, <2>11, TopIs, Zenon
    <3>2. r * q + u \in 0 .. N * q - 1
      <4>1. r * q \in Nat /\ q * (p + 1) = q * p + q /\ (r + p + 1) * q = r * q + (q * p + q)
        BY <2>2, <2>5, <2>9
      <4>2. (r + p + 1) * q <= N * q
        BY <2>2, <2>4, <2>5, <2>9, <2>10
      <4>3. N * q \in Nat /\ q * p \in Nat
        BY <2>2, <2>4, <2>9
      <4> QED BY <2>2, <2>7, <2>9, <4>1, <4>2, <4>3
    <3>3. r * q + u \in Nat /\ word(r * q + u) \in 0 .. Top - 1
      BY <2>2, <2>4, <2>5, <2>7, <3>2
    <3>4. t + 0 = t
      BY <2>9
    <3>5. SectorByte(r + p, t + 0) + SectorByte(r + p, t + 1) * Weight[2] + SectorByte(r + p, t + 2) * Weight[3]
            + SectorByte(r + p, t + 3) * Weight[4] = word(r * q + u)
      BY <2>9, <3>3, <3>4, FourOfWord, Zenon DEF S
    <3> QED BY <2>8, <3>1, <3>5, Zenon DEF fat_next
  <2> QED BY <2>1, <2>8, <2>9, <2>10, <2>11, Zenon DEF S, N, q
<1> QED BY <1>1, MountInvariance, PTL

-----------------------------------------------------------------------------
(* The steps of the volume are those of its two parts. *)
LEMMA VolumeParts == VolumeSpec => Spec /\ MountSpec
<1>1. VolumeInit => Init /\ MountInit
  BY Zenon DEF VolumeInit
<1>2. [VolumeNext]_<<volume, vars>> => [Next]_vars /\ [MountNext]_volume
  BY Zenon DEF VolumeNext, Mount, ReadFile
<1> QED BY <1>1, <1>2, PTL DEF VolumeSpec, Spec, MountSpec

(* The links by which a File is read are those that fat_next() finds on the*)
(* disk: the FAT of FileRead is the disk's, at any size of the volume.     *)
FatIsTheDisks == Usable => \A c \in Clusters : c * 4 \in Numbers(4) => fat_next(c) = fat[c]

(* FatIsTheDisks: File::read() follows the chain that is on the disk.      *)
THEOREM LinksAreTheDisks == VolumeSpec => []FatIsTheDisks
<1> DEFINE Kept == fat = FatOnDisk
<1>1. VolumeInit => Kept
  BY Zenon DEF VolumeInit
<1>2. Kept /\ MountInv /\ [VolumeNext]_<<volume, vars>> => Kept'
  <2> SUFFICES ASSUME Kept, MountInv, [VolumeNext]_<<volume, vars>> PROVE Kept'
    OBVIOUS
  <2>1. [Next]_vars /\ [MountNext]_volume
    BY Zenon DEF VolumeNext, Mount, ReadFile
  <2>2. fat' = fat
    <3>1. CASE UNCHANGED vars
      BY <3>1, Zenon DEF vars, disk
    <3>2. CASE \E o \in Offsets, n \in Lens : Read(o, n)
      BY <3>2, Zenon DEF Read, disk
    <3>3. CASE Running
      BY <3>3, ZenonT(40) DEF Running, Locate, Walk, Arrive, Copy, Finish, Back, disk
    <3> QED BY <2>1, <3>1, <3>2, <3>3, Zenon DEF Next
  <2>3. bpb' = bpb /\ (disk_' = disk_ \/ disk_' = [disk_ EXCEPT !.failed = TRUE])
    <3>1. CASE UNCHANGED volume
      BY <3>1, Zenon DEF volume
    <3>2. CASE NoDisk \/ NotFat32 \/ Insane \/ BadRoot
      BY <3>2, Zenon DEF NoDisk, NotFat32, Insane, BadRoot, GiveUp
    <3>3. CASE BootFails \/ ReadBoot \/ Geometry
      BY <3>3, Zenon DEF BootFails, ReadBoot, Geometry
    <3>4. CASE FsInfoFails \/ FsInfo \/ NoFsInfo
      BY <3>4, Zenon DEF FsInfoFails, FsInfo, NoFsInfo, Mounted
    <3> QED BY <2>1, <3>1, <3>2, <3>3, <3>4, Zenon DEF MountNext
  <2>4. disk_'.image = disk_.image
    BY <2>3, DiskSame, Zenon DEF MountInv
  <2> QED BY <2>2, <2>3, <2>4, Zenon DEF FatOnDisk, word
<1>3. Kept /\ FatNextReadsEntry => FatIsTheDisks
  <2> SUFFICES ASSUME Kept, FatNextReadsEntry, Usable, NEW c \in Clusters, c * 4 \in Numbers(4)
               PROVE  fat_next(c) = fat[c]
    BY Zenon DEF FatIsTheDisks
  <2>1. valid_ /\ c \in 2 .. meta_.cluster_count + 1
    BY Zenon DEF Usable, Clusters
  <2>2. fat_next(c) = word(bpb.reserved_sectors * (kSectorSize \div 4) + c) % (FatMask + 1)
    BY <2>1, Zenon DEF FatNextReadsEntry
  <2> QED BY <2>2, Zenon DEF FatOnDisk
<1> QED BY <1>1, <1>2, <1>3, VolumeParts, MountInvariance, FatNextIsEntry, PTL DEF VolumeSpec
=============================================================================
