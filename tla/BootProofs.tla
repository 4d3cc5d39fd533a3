---------------------------- MODULE BootProofs -----------------------------
(***************************************************************************)
(* NoFault and OwnSlot for any number of cores that g_table has room for,  *)
(* listed in any order, and for an image loaded anywhere; and that print() *)
(* is atomic.                                                              *)
(***************************************************************************)
EXTENDS Boot, FiniteSetTheorems, SequenceTheorems, WellFoundedInduction, TLAPS

-----------------------------------------------------------------------------
(* Arithmetic: addresses wrap.                                             *)

(* A multiple of m that is smaller than m, in absolute value, is 0. *)
LEMMA SmallMultiple ==
  ASSUME NEW m \in Nat \ {0}, NEW k \in Int, m * k < m, m * k > -m
  PROVE  k = 0
<1>1. k >= 1 => m * k >= m
  OBVIOUS
<1>2. k <= -1 => m * k <= -m
  OBVIOUS
<1> QED BY <1>1, <1>2

(* A remainder is the only number below m that differs by a multiple of m. *)
LEMMA RemainderUnique ==
  ASSUME NEW m \in Nat \ {0}, NEW q \in Int, NEW r \in Int, 0 <= r, r < m,
         NEW p \in Int, NEW s \in Int, 0 <= s, s < m, m * q + r = m * p + s
  PROVE  r = s
<1>1. m * (q - p) = s - r
  OBVIOUS
<1>2. q - p = 0
  BY <1>1, SmallMultiple
<1> QED BY <1>1, <1>2

(* The page table is as far behind the physical base as behind the virtual *)
(* one: virt_to_phys(), with wrapping on the way.                          *)
LEMMA VirtToPhys ==
  ASSUME NEW m \in Nat \ {0}, NEW v \in Nat, NEW t \in Nat, NEW b \in Nat
  PROVE  (((v + t) % m) - v + b) % m = (b + t) % m
<1> DEFINE x == (v + t) % m
           q == (v + t) \div m
           y == x - v + b
<1>1. /\ x \in Int /\ q \in Int /\ v + t = m * q + x
  OBVIOUS
<1>2. /\ y \in Int /\ y \div m \in Int /\ y % m \in Int
      /\ y = m * (y \div m) + (y % m) /\ 0 <= y % m /\ y % m < m
  BY <1>1
<1>3. /\ (b + t) \div m \in Int /\ (b + t) % m \in Int
      /\ b + t = m * ((b + t) \div m) + ((b + t) % m) /\ 0 <= (b + t) % m /\ (b + t) % m < m
  OBVIOUS
<1>4. b + t = m * q + y
  BY <1>1
<1>5. m * (q + (y \div m)) + (y % m) = m * ((b + t) \div m) + ((b + t) % m)
  <2>1. m * (q + (y \div m)) = m * q + m * (y \div m)
    BY <1>1, <1>2
  <2> HIDE DEF y, x, q
  <2> QED BY <1>1, <1>2, <1>3, <1>4, <2>1
<1>6. q + (y \div m) \in Int
  BY <1>1, <1>2
<1> HIDE DEF y, x, q
<1>7. y % m = (b + t) % m
  BY <1>2, <1>3, <1>5, <1>6, RemainderUnique, Zenon
<1> QED BY <1>7, Zenon DEF y, x

-----------------------------------------------------------------------------
(* The invariant: what each place in the boot sequence can rely on.        *)

BspPlaces ==
  {"kmain", "hang", "mmu_init", "activate", "marker", "heap_init", "percore_init", "smp_init",
   "release", "publish", "go_main", "stop", "idle_loop", "halted"}

ApPlaces == {"parked", "ap_activate", "greet", "stop", "idle_loop", "halted"}

(* Where the bootstrap processor is once smp::init() may release others.   *)
Releasing == {"release", "publish", "go_main", "stop", "idle_loop", "halted"}

Physical == (limine.image.physical_base + TableOffset) % AddressSpace

Ids == 0 .. cpu_count - 1

BootTypes ==
  /\ limine.image \in Images
  /\ cpus \in [Ids -> Cores] /\ \A c \in Cores : \E n \in Ids : cpus[n] = c
  /\ extra_argument \in [Cores -> Nat] /\ goto_address \subseteq Cores
  /\ DOMAIN pc = Cores /\ DOMAIN tpidr = Cores /\ DOMAIN ttbr0 = Cores
  /\ \A c \in Cores : pc[c] \in IF c = Bsp THEN BspPlaces ELSE ApPlaces
  /\ i \in Nat

(* The bootstrap processor has set up what is behind it.                   *)
SetUp ==
  /\ pc[Bsp] \notin {"kmain", "hang", "mmu_init"} => g_l1_table /\ g_l1_table_phys = Physical
  /\ pc[Bsp] \notin {"kmain", "hang", "mmu_init", "activate"} => ttbr0[Bsp] = Physical
  /\ pc[Bsp] \in Releasing \cup {"percore_init", "smp_init"} => heap_ready
  /\ pc[Bsp] \in BspPlaces \ (Releasing \cup {"percore_init", "smp_init"}) => i = 0 /\ idle = {}
  /\ pc[Bsp] = "percore_init" => i < kMaxCores /\ idle = 0 .. i - 1
  /\ pc[Bsp] \in Releasing \cup {"smp_init"} => idle = 0 .. kMaxCores - 1
  /\ pc[Bsp] \in Releasing => tpidr[Bsp] \in Ids

(* Every id is the place of the core in cpus[].                            *)
IdsListed ==
  /\ \A c \in Cores : tpidr[c] # Unknown => tpidr[c] \in Ids /\ cpus[tpidr[c]] = c
  /\ \A c \in goto_address : extra_argument[c] \in Ids /\ cpus[extra_argument[c]] = c
  /\ pc[Bsp] = "publish" => i \in Ids /\ extra_argument[cpus[i]] = i

(* A core leaves its parking place with an id, once all is set up.         *)
Released ==
  /\ goto_address # {} => pc[Bsp] \in Releasing
  /\ \A c \in Cores \ {Bsp} :
       /\ pc[c] # "parked" => c \in goto_address /\ tpidr[c] \in Ids
       /\ pc[c] \notin {"parked", "ap_activate"} => ttbr0[c] = Physical

BootInv == BootTypes /\ SetUp /\ IdsListed /\ Released

(* There is a core, and so a place in g_table.                             *)
LEMMA CoreCount == cpu_count \in Nat /\ cpu_count <= kMaxCores /\ kMaxCores \in Nat /\ kMaxCores > 0
<1>1. cpu_count \in Nat
  BY BootAssumption, FS_CardinalityType, Zenon DEF cpu_count
<1>2. cpu_count # 0
  BY BootAssumption, FS_EmptySet, Zenon DEF cpu_count
<1> QED BY <1>1, <1>2, BootAssumption DEF cpu_count

(* bsp_index names the bootstrap processor. *)
LEMMA BspListed ==
  ASSUME BootTypes
  PROVE  bsp_index \in Ids /\ cpus[bsp_index] = Bsp
<1> DEFINE matches == {n \in 0 .. cpu_count - 1 : cpus[n] = Bsp}
           R == OpToRel(<, Nat)
<1>1. matches \subseteq Nat /\ matches # {}
  <2>1. 0 .. cpu_count - 1 \subseteq Nat
    BY CoreCount
  <2>2. \E n \in 0 .. cpu_count - 1 : cpus[n] = Bsp
    BY BootAssumption, Zenon DEF BootTypes, Ids
  <2> QED BY <2>1, <2>2, Zenon
<1>2. IsWellFoundedOn(R, Nat)
  BY NatLessThanWellFounded, Zenon
<1>3. \A a, b \in Nat : a < b => <<a, b>> \in R
  BY Zenon DEF OpToRel
<1> HIDE DEF R
<1>4. \E n \in matches : \A m \in matches : n <= m
  <2> HIDE DEF matches
  <2>1. PICK n \in matches : \A m \in matches : ~ (<<m, n>> \in R)
    BY <1>1, <1>2, WFMin, Zenon
  <2>2. ASSUME NEW m \in matches PROVE n <= m
    <3>1. n \in Nat /\ m \in Nat /\ ~ (m < n)
      BY <1>1, <1>3, <2>1, Zenon
    <3> QED BY <3>1
  <2> QED BY <2>2, Zenon
<1>5. bsp_index \in matches
  BY <1>1, <1>4, Zenon DEF bsp_index
<1> QED BY <1>5, Zenon DEF Ids

(* A step of the bootstrap processor keeps the invariant.                  *)
LEMMA KmainKeeps ==
  ASSUME BootInv, KmainStep
  PROVE  BootInv'
<1> USE DEF BootInv, Goto, bootloader, mmu
<1>0. Bsp \in Cores
  BY BootAssumption, Zenon
<1>1. CASE Kmain
  <2>1. BootTypes'
    BY <1>1, CoreCount, BspListed, BootAssumption, Zenon DEF Kmain, Given, BootTypes, BspPlaces, ApPlaces, Ids, SetUp, Releasing
  <2>2. SetUp'
    BY <1>1, CoreCount, BspListed, BootAssumption, Zenon DEF Kmain, Given, BootTypes, SetUp, BspPlaces, Releasing, Physical, Ids
  <2>3. IdsListed'
    BY <1>1, CoreCount, BspListed, BootAssumption, Zenon DEF Kmain, Given, BootTypes, IdsListed, BspPlaces, Releasing, Ids, SetUp
  <2>4. Released'
    BY <1>1, CoreCount, BootAssumption, Zenon DEF Kmain, Given, BootTypes, SetUp, Released, BspPlaces, Releasing, Physical, Ids
  <2> QED BY <2>1, <2>2, <2>3, <2>4, Zenon
<1>2. CASE mmu_init
  <2>1. BootTypes'
    BY <1>2, CoreCount, BspListed, BootAssumption, Zenon DEF mmu_init, Given, BootTypes, BspPlaces, ApPlaces, Ids, SetUp, Releasing
  <2>2. SetUp'
    <3>1. g_l1_table_phys' = Physical
      <4>1. /\ AddressSpace \in Nat \ {0} /\ TableOffset \in Nat
            /\ limine.image.physical_base \in Nat /\ limine.image.virtual_base \in Nat
        BY BootAssumption DEF BootTypes
      <4>2. g_l1_table_phys' =
              (((limine.image.virtual_base + TableOffset) % AddressSpace)
                - limine.image.virtual_base + limine.image.physical_base) % AddressSpace
        BY <1>2, Zenon DEF mmu_init
      <4>3. \A v, t, b \in Nat : (((v + t) % AddressSpace) - v + b) % AddressSpace = (b + t) % AddressSpace
        BY <4>1, VirtToPhys, ZenonT(40)
      <4> QED BY <4>1, <4>2, <4>3, Zenon DEF Physical
    <3>2. Physical' = Physical
      BY <1>2, Zenon DEF mmu_init, Physical
    <3> QED BY <1>0, <1>2, <3>1, <3>2, Zenon DEF mmu_init, BootTypes, SetUp, BspPlaces, Releasing
  <2>3. IdsListed'
    BY <1>2, CoreCount, BspListed, BootAssumption, Zenon DEF mmu_init, Given, BootTypes, IdsListed, BspPlaces, Releasing, Ids, SetUp
  <2>4. Released'
    BY <1>2, CoreCount, BootAssumption, Zenon DEF mmu_init, Given, BootTypes, SetUp, Released, BspPlaces, Releasing, Physical, Ids
  <2> QED BY <2>1, <2>2, <2>3, <2>4, Zenon
<1>3. CASE activate_this_core(Bsp, "activate", "marker")
  <2>1. BootTypes'
    BY <1>3, CoreCount, BspListed, BootAssumption, Zenon DEF activate_this_core, Given, BootTypes, BspPlaces, ApPlaces, Ids, SetUp, Releasing
  <2>2. SetUp'
    BY <1>3, CoreCount, BspListed, BootAssumption, Zenon DEF activate_this_core, Given, BootTypes, SetUp, BspPlaces, Releasing, Physical, Ids
  <2>3. IdsListed'
    BY <1>3, CoreCount, BspListed, BootAssumption, Zenon DEF activate_this_core, Given, BootTypes, IdsListed, BspPlaces, Releasing, Ids, SetUp
  <2>4. Released'
    BY <1>3, CoreCount, BootAssumption, Zenon DEF activate_this_core, Given, BootTypes, SetUp, Released, BspPlaces, Releasing, Physical, Ids
  <2> QED BY <2>1, <2>2, <2>3, <2>4, Zenon
<1>4. CASE PrintMarker
  <2>1. BootTypes'
    BY <1>4, CoreCount, BspListed, BootAssumption, Zenon DEF PrintMarker, Say, Given, BootTypes, BspPlaces, ApPlaces, Ids, SetUp, Releasing, UartMapped, Physical
  <2>2. SetUp'
    BY <1>4, CoreCount, BspListed, BootAssumption, Zenon DEF PrintMarker, Say, Given, BootTypes, SetUp, BspPlaces, Releasing, Physical, Ids, UartMapped
  <2>3. IdsListed'
    BY <1>4, CoreCount, BspListed, BootAssumption, Zenon DEF PrintMarker, Say, Given, BootTypes, IdsListed, BspPlaces, Releasing, Ids, SetUp, UartMapped, Physical
  <2>4. Released'
    BY <1>4, CoreCount, BootAssumption, Zenon DEF PrintMarker, Say, Given, BootTypes, SetUp, Released, BspPlaces, Releasing, Physical, Ids, UartMapped
  <2> QED BY <2>1, <2>2, <2>3, <2>4, Zenon
<1>5. CASE heap_init
  <2>1. BootTypes'
    BY <1>5, CoreCount, BspListed, BootAssumption, ZenonT(40) DEF heap_init, Given, BootTypes, BspPlaces, ApPlaces, Ids, SetUp, Releasing
  <2>2. SetUp'
    BY <1>5, CoreCount, BspListed, BootAssumption DEF heap_init, Given, BootTypes, SetUp, BspPlaces, Releasing, Physical, Ids
  <2>3. IdsListed'
    BY <1>5, CoreCount, BspListed, BootAssumption, Zenon DEF heap_init, Given, BootTypes, IdsListed, BspPlaces, Releasing, Ids, SetUp
  <2>4. Released'
    BY <1>5, CoreCount, BootAssumption, Zenon DEF heap_init, Given, BootTypes, SetUp, Released, BspPlaces, Releasing, Physical, Ids
  <2> QED BY <2>1, <2>2, <2>3, <2>4, Zenon
<1>6. CASE percore_init
  <2>1. BootTypes'
    BY <1>0, <1>6 DEF percore_init, Given, BootTypes, BspPlaces, SetUp
  <2>2. SetUp'
    <3>1. /\ pc[Bsp] = "percore_init" /\ heap_ready /\ i \in Nat /\ i < kMaxCores /\ idle = 0 .. i - 1
          /\ pc'[Bsp] = (IF i + 1 < kMaxCores THEN "percore_init" ELSE "smp_init")
          /\ i' = i + 1 /\ idle' = idle \cup {i}
          /\ UNCHANGED <<ttbr0, g_l1_table, g_l1_table_phys, heap_ready, limine, tpidr>>
      BY <1>0, <1>6, Zenon DEF percore_init, Given, BootTypes, SetUp, Releasing
    <3>2. idle' = 0 .. i' - 1
      BY <3>1
    <3>3. i' >= kMaxCores => i' = kMaxCores
      BY <3>1, CoreCount
    <3>4. Physical' = Physical
      BY <3>1, Zenon DEF Physical
    <3> QED BY <3>1, <3>2, <3>3, <3>4, CoreCount DEF SetUp, Releasing, BspPlaces
  <2>3. IdsListed'
    BY <1>6, CoreCount, BspListed, BootAssumption, Zenon DEF percore_init, Given, BootTypes, IdsListed, BspPlaces, Releasing, Ids, SetUp
  <2>4. Released'
    BY <1>6, CoreCount, BootAssumption, Zenon DEF percore_init, Given, BootTypes, SetUp, Released, BspPlaces, Releasing, Physical, Ids
  <2> QED BY <2>1, <2>2, <2>3, <2>4, Zenon
<1>7. CASE SmpInit
  <2>1. BootTypes'
    BY <1>7, CoreCount, BspListed, BootAssumption, Zenon DEF SmpInit, Given, BootTypes, BspPlaces, ApPlaces, Ids, SetUp, Releasing
  <2>2. SetUp'
    BY <1>7, CoreCount, BspListed, BootAssumption, Zenon DEF SmpInit, Given, BootTypes, SetUp, BspPlaces, Releasing, Physical, Ids
  <2>3. IdsListed'
    BY <1>7, CoreCount, BspListed, BootAssumption, Zenon DEF SmpInit, Given, BootTypes, IdsListed, BspPlaces, Releasing, Ids, SetUp
  <2>4. Released'
    BY <1>7, CoreCount, BootAssumption, Zenon DEF SmpInit, Given, BootTypes, SetUp, Released, BspPlaces, Releasing, Physical, Ids
  <2> QED BY <2>1, <2>2, <2>3, <2>4, Zenon
<1>8. CASE Release
  <2>1. BootTypes'
    BY <1>8, CoreCount, BspListed, BootAssumption, Zenon DEF Release, Given, BootTypes, BspPlaces, ApPlaces, Ids, SetUp, Releasing
  <2>2. SetUp'
    BY <1>8, CoreCount, BspListed, BootAssumption, Zenon DEF Release, Given, BootTypes, SetUp, BspPlaces, Releasing, Physical, Ids
  <2>3. IdsListed'
    <3>1. /\ i \in Ids /\ cpus[i] \in Cores
          /\ extra_argument' = [extra_argument EXCEPT ![cpus[i]] = i]
          /\ pc'[Bsp] = "publish"
          /\ UNCHANGED <<cpus, tpidr, goto_address, i>>
      BY <1>0, <1>8, CoreCount DEF Release, BootTypes, Ids
    <3>2. extra_argument'[cpus[i]] = i /\ \A c \in Cores : c # cpus[i] => extra_argument'[c] = extra_argument[c]
      BY <3>1, Zenon DEF BootTypes
    <3> QED BY <3>1, <3>2, Zenon DEF BootTypes, IdsListed, Ids
  <2>4. Released'
    BY <1>8, CoreCount, BootAssumption, Zenon DEF Release, Given, BootTypes, SetUp, Released, BspPlaces, Releasing, Physical, Ids
  <2> QED BY <2>1, <2>2, <2>3, <2>4, Zenon
<1>9. CASE Publish
  <2>1. BootTypes'
    BY <1>0, <1>9 DEF Publish, BootTypes, BspPlaces, IdsListed
  <2>2. SetUp'
    BY <1>9, CoreCount, BspListed, BootAssumption, Zenon DEF Publish, Given, BootTypes, SetUp, BspPlaces, Releasing, Physical, Ids
  <2>3. IdsListed'
    BY <1>9, CoreCount, BspListed, BootAssumption, ZenonT(40) DEF Publish, Given, BootTypes, IdsListed, BspPlaces, Releasing, Ids, SetUp
  <2>4. Released'
    BY <1>9, CoreCount, BootAssumption DEF Publish, Given, BootTypes, SetUp, Released, BspPlaces, Releasing, Physical, Ids
  <2> QED BY <2>1, <2>2, <2>3, <2>4, Zenon
<1>10. CASE ReleaseSkip
  <2>1. BootTypes'
    BY <1>0, <1>10 DEF ReleaseSkip, BootTypes, BspPlaces
  <2>2. SetUp'
    BY <1>10, CoreCount, BspListed, BootAssumption, Zenon DEF ReleaseSkip, Given, BootTypes, SetUp, BspPlaces, Releasing, Physical, Ids
  <2>3. IdsListed'
    BY <1>10, CoreCount, BspListed, BootAssumption, Zenon DEF ReleaseSkip, Given, BootTypes, IdsListed, BspPlaces, Releasing, Ids, SetUp
  <2>4. Released'
    BY <1>10, CoreCount, BootAssumption, Zenon DEF ReleaseSkip, Given, BootTypes, SetUp, Released, BspPlaces, Releasing, Physical, Ids
  <2> QED BY <2>1, <2>2, <2>3, <2>4, Zenon
<1>11. CASE PrintBanner
  <2>1. BootTypes'
    BY <1>11, CoreCount, BspListed, BootAssumption, Zenon DEF PrintBanner, Say, Given, BootTypes, BspPlaces, ApPlaces, Ids, SetUp, Releasing, UartMapped, Physical
  <2>2. SetUp'
    BY <1>11, CoreCount, BspListed, BootAssumption, ZenonT(40) DEF PrintBanner, Say, Given, BootTypes, SetUp, BspPlaces, Releasing, Physical, Ids, UartMapped
  <2>3. IdsListed'
    BY <1>11, CoreCount, BspListed, BootAssumption, ZenonT(40) DEF PrintBanner, Say, Given, BootTypes, IdsListed, BspPlaces, Releasing, Ids, SetUp, UartMapped, Physical
  <2>4. Released'
    BY <1>11, CoreCount, BootAssumption, Zenon DEF PrintBanner, Say, Given, BootTypes, SetUp, Released, BspPlaces, Releasing, Physical, Ids, UartMapped
  <2> QED BY <2>1, <2>2, <2>3, <2>4, Zenon
<1>12. CASE GoMain
  <2>1. BootTypes'
    BY <1>12, CoreCount, BspListed, BootAssumption, Zenon DEF GoMain, Given, BootTypes, BspPlaces, ApPlaces, Ids, SetUp, Releasing
  <2>2. SetUp'
    BY <1>12, CoreCount, BspListed, BootAssumption, Zenon DEF GoMain, Given, BootTypes, SetUp, BspPlaces, Releasing, Physical, Ids
  <2>3. IdsListed'
    BY <1>12, CoreCount, BspListed, BootAssumption, Zenon DEF GoMain, Given, BootTypes, IdsListed, BspPlaces, Releasing, Ids, SetUp
  <2>4. Released'
    BY <1>12, CoreCount, BootAssumption, Zenon DEF GoMain, Given, BootTypes, SetUp, Released, BspPlaces, Releasing, Physical, Ids
  <2> QED BY <2>1, <2>2, <2>3, <2>4, Zenon
<1> QED BY <1>1, <1>2, <1>3, <1>4, <1>5, <1>6, <1>7, <1>8, <1>9, <1>10, <1>11, <1>12, Zenon DEF KmainStep

(* A step of any core, the bootstrap processor's printing and stopping     *)
(* included, keeps it.                                                     *)
LEMMA CoreKeeps ==
  ASSUME BootInv, NEW c \in Cores, Core(c)
  PROVE  BootInv'
<1> USE DEF BootInv, Goto, bootloader, mmu
<1>0. Bsp \in Cores
  BY BootAssumption, Zenon
<1>1. CASE ApEntry(c)
  <2>1. /\ c # Bsp /\ c \in goto_address /\ extra_argument[c] \in Ids /\ cpus[extra_argument[c]] = c
        /\ pc' = [pc EXCEPT ![c] = "ap_activate"] /\ tpidr' = [tpidr EXCEPT ![c] = extra_argument[c]]
        /\ UNCHANGED <<bootloader, i, ttbr0, mmu, heap_ready, idle>>
    BY <1>0, <1>1, Zenon DEF ApEntry, BootTypes, BspPlaces, IdsListed
  <2>2. BootTypes'
    BY <1>0, <2>1, Zenon DEF BootTypes, ApPlaces
  <2>3. SetUp'
    BY <1>0, <2>1, Zenon DEF BootTypes, SetUp, Physical
  <2>4. IdsListed'
    BY <1>0, <2>1, Zenon DEF BootTypes, IdsListed
  <2>5. Released'
    BY <1>0, <2>1, Zenon DEF BootTypes, Released, Physical
  <2> QED BY <2>2, <2>3, <2>4, <2>5, Zenon
<1>2. CASE activate_this_core(c, "ap_activate", "greet")
  <2>1. /\ c # Bsp /\ pc[c] = "ap_activate" /\ g_l1_table_phys = Physical
        /\ pc' = [pc EXCEPT ![c] = "greet"] /\ ttbr0' = [ttbr0 EXCEPT ![c] = Physical]
        /\ UNCHANGED <<bootloader, i, tpidr, mmu, heap_ready, idle>>
    BY <1>0, <1>2, Zenon DEF activate_this_core, BootTypes, BspPlaces, SetUp, Released, Releasing
  <2>2. BootTypes'
    BY <1>0, <2>1, Zenon DEF BootTypes, ApPlaces
  <2>3. SetUp'
    BY <1>0, <2>1, Zenon DEF BootTypes, SetUp, Physical
  <2>4. IdsListed'
    BY <1>0, <2>1, Zenon DEF BootTypes, IdsListed
  <2>5. Released'
    BY <1>0, <2>1, Zenon DEF BootTypes, Released, Physical
  <2> QED BY <2>2, <2>3, <2>4, <2>5, Zenon
<1>3. ASSUME NEW from \in {"greet", "stop", "idle_loop"}, NEW to \in {"stop", "idle_loop", "halted"},
             pc[c] = from, pc' = [pc EXCEPT ![c] = to],
             UNCHANGED <<bootloader, i, tpidr, ttbr0, mmu, heap_ready, idle>>
      PROVE  BootInv'
  <2>1. BootTypes'
    BY <1>0, <1>3, Zenon DEF BootTypes, ApPlaces, BspPlaces
  <2>2. SetUp'
    BY <1>0, <1>3, ZenonT(40) DEF BootTypes, SetUp, Physical, Releasing, BspPlaces
  <2>3. IdsListed'
    BY <1>0, <1>3, Zenon DEF BootTypes, IdsListed
  <2>4. Released'
    BY <1>0, <1>3, Zenon DEF BootTypes, BspPlaces, Released, Releasing, Physical
  <2> QED BY <2>1, <2>2, <2>3, <2>4, Zenon
<1>4. pc[c] \in {"greet", "stop", "idle_loop"} =>
        UartMapped(c) /\ heap_ready /\ tpidr[c] \in idle
  <2> SUFFICES ASSUME pc[c] \in {"greet", "stop", "idle_loop"}
               PROVE  UartMapped(c) /\ heap_ready /\ tpidr[c] \in idle
    BY Zenon
  <2>1. pc[Bsp] \in Releasing /\ ttbr0[c] = Physical /\ tpidr[c] \in Ids
    BY <1>0, Zenon DEF BootTypes, BspPlaces, SetUp, Released, Releasing
  <2>2. g_l1_table /\ heap_ready /\ idle = 0 .. kMaxCores - 1
    BY <2>1, Zenon DEF SetUp, Releasing
  <2>3. tpidr[c] \in idle
    BY <2>1, <2>2, CoreCount DEF Ids
  <2> QED BY <2>1, <2>2, <2>3, Zenon DEF UartMapped, Physical
<1>5. CASE PrintGreeting(c)
  BY <1>3, <1>4, <1>5, Zenon DEF PrintGreeting, Say, Given
<1>6. CASE StopCore(c)
  BY <1>3, <1>4, <1>6, Zenon DEF StopCore, Given
<1>7. CASE Panic(c)
  BY <1>3, <1>4, <1>7, Zenon DEF Panic, Say, Given
<1>8. CASE UNCHANGED <<bootloader, pc, i, tpidr, ttbr0, mmu, heap_ready, idle>>
  BY <1>8, ZenonT(40) DEF BootTypes, SetUp, IdsListed, Released, Physical
<1> QED BY <1>1, <1>2, <1>5, <1>6, <1>7, <1>8, Zenon DEF Core

(* The invariant holds, whatever the cores do. *)
LEMMA BootInvariance == Spec => []BootInv
<1>1. Init => BootInv
  BY BootAssumption, CoreCount DEF Init, BootInv, BootTypes, SetUp, IdsListed, Released, BspPlaces, ApPlaces,
     Releasing, Ids
<1>2. BootInv /\ [Next]_vars => BootInv'
  <2> SUFFICES ASSUME BootInv, [Next]_vars PROVE BootInv'
    BY Zenon
  <2>1. ASSUME UNCHANGED <<bootloader, pc, i, tpidr, ttbr0, mmu, heap_ready, idle>> PROVE BootInv'
    BY <2>1, ZenonT(40) DEF BootInv, BootTypes, SetUp, IdsListed, Released, Physical, bootloader, mmu
  <2>2. CASE Uart
    BY <2>1, <2>2, Zenon DEF Uart
  <2>3. CASE KmainStep
    BY <2>3, KmainKeeps, Zenon
  <2>4. CASE \E c \in Cores : Core(c)
    BY <2>4, CoreKeeps, Zenon
  <2>5. CASE \E c \in Cores : Forever(c)
    BY <2>1, <2>5, Zenon DEF Forever, vars
  <2>6. CASE UNCHANGED vars
    BY <2>1, <2>6, Zenon DEF vars
  <2> QED BY <2>2, <2>3, <2>4, <2>5, <2>6, Zenon DEF Next
<1> QED BY <1>1, <1>2, PTL DEF Spec

(* NoFault: kmain()'s order of mmu::init(), heap::init(), percore::init()  *)
(* and smp::init() means that no core, of any number, ever prints,         *)
(* allocates or goes idle before what it needs is there.                   *)
THEOREM NothingBeforeItsTime == Spec => []NoFault
<1>1. BootInv => NoFault
  BY Zenon DEF BootInv, BootTypes, NoFault, BspPlaces, ApPlaces
<1> QED BY <1>1, BootInvariance, PTL

(* OwnSlot: no two cores ever share an id, nor does one index g_table past *)
(* its end, however the boot loader lists up to kMaxCores cores.           *)
THEOREM EveryCoreItsSlot == Spec => []OwnSlot
<1>1. BootInv => OwnSlot
  <2> SUFFICES ASSUME BootInv, NEW c \in Cores, tpidr[c] # Unknown
               PROVE  /\ tpidr[c] \in 0 .. cpu_count - 1 /\ tpidr[c] < kMaxCores
                      /\ \A d \in Cores \ {c} : tpidr[d] # tpidr[c]
    BY Zenon DEF OwnSlot
  <2>1. tpidr[c] \in Ids /\ cpus[tpidr[c]] = c
    BY Zenon DEF BootInv, IdsListed
  <2>2. \A d \in Cores : tpidr[d] # Unknown => cpus[tpidr[d]] = d
    BY Zenon DEF BootInv, IdsListed
  <2> QED BY <2>1, <2>2, CoreCount DEF Ids
<1> QED BY <1>1, BootInvariance, PTL

-----------------------------------------------------------------------------
(* Recursion.                                                              *)

(* A set with 0 in it and with every successor of its elements holds all   *)
(* naturals.                                                               *)
LEMMA Induction ==
  ASSUME NEW T, 0 \in T, \A n \in Nat : n \in T => n + 1 \in T
  PROVE  \A n \in Nat : n \in T
<1> DEFINE R == OpToRel(<, Nat)
<1>1. IsWellFoundedOn(R, Nat)
  BY NatLessThanWellFounded, Zenon
<1>2. \A a, b \in Nat : a < b => <<a, b>> \in R
  BY Zenon DEF OpToRel
<1> HIDE DEF R
<1> SUFFICES ASSUME Nat \ T # {} PROVE FALSE
  OBVIOUS
<1>3. PICK n \in Nat \ T : \A m \in Nat \ T : ~ (<<m, n>> \in R)
  BY <1>1, WFMin, Zenon
<1>4. n # 0
  BY <1>3, Zenon
<1>5. n - 1 \in Nat /\ n - 1 < n /\ (n - 1) + 1 = n
  BY <1>3, <1>4
<1>6. n - 1 \in T
  BY <1>2, <1>3, <1>5, Zenon
<1>7. n \in T
  BY <1>5, <1>6, Zenon
<1> QED BY <1>3, <1>7, Zenon

(* What the UART gets of a character. *)
Line(char) == IF char = "\n" THEN <<"\r", "\n">> ELSE <<char>>

(* The characters the kernel prints: the model's words among them. *)
Char ==
  {"\r", "\n", "0", "1", "2", "3", "4", "5", "6", "7", "8", "9", "begins", "Hello", "core", "of", "from",
   "KPANIC: ", "!", " at ", "f", ":"}

String == Seq(Char)

(* Strings can be put together in any order. *)
LEMMA Associative == \A a, b, c \in String : (a \o b) \o c = a \o (b \o c)
<1> SUFFICES ASSUME NEW a \in Seq(Char), NEW b \in Seq(Char), NEW c \in Seq(Char)
             PROVE  (a \o b) \o c = a \o (b \o c)
  BY Zenon DEF String
<1> QED BY ConcatAssociative, SMTT(30)

(* A line is a string. *)
LEMMA LineType == \A char \in Char : Line(char) \in String
<1> TAKE char \in Char
<1>1. "\r" \in Char /\ "\n" \in Char
  BY Zenon DEF Char
<1>2. <<char>> \in Seq(Char) /\ <<"\r", "\n">> \in Seq(Char)
  BY <1>1
<1> QED BY <1>2, Zenon DEF Line, String

(* f is Shown() of the first n characters, for every n. *)
IsShown(f, str, n) ==
  /\ f \in [0 .. n -> String]
  /\ f[0] = <<>>
  /\ \A m \in 1 .. n : f[m] = f[m - 1] \o Line(str[m])

(* There is such a function. *)
LEMMA ShownExists ==
  ASSUME NEW str \in String
  PROVE  \E f : IsShown(f, str, Len(str))
<1> DEFINE T == {n \in Nat : n <= Len(str) => \E f : IsShown(f, str, n)}
<1>1. Len(str) \in Nat /\ \A n \in 1 .. Len(str) : str[n] \in Char
  BY DEF String
<1>2. 0 \in T
  <2> DEFINE f == [n \in 0 .. 0 |-> <<>>]
  <2>1. <<>> \in String
    BY DEF String
  <2>2. IsShown(f, str, 0)
    BY <2>1 DEF IsShown
  <2> QED BY <2>2, Zenon
<1>3. ASSUME NEW n \in Nat, n \in T PROVE n + 1 \in T
  <2> SUFFICES ASSUME n + 1 <= Len(str) PROVE \E f : IsShown(f, str, n + 1)
    BY <1>3
  <2>1. PICK f : IsShown(f, str, n)
    BY <1>1, <1>3
  <2> DEFINE g == [m \in 0 .. n + 1 |-> IF m <= n THEN f[m] ELSE f[n] \o Line(str[n + 1])]
  <2>2. f[n] \in String /\ Line(str[n + 1]) \in String
    <3>1. n + 1 \in 1 .. Len(str) /\ n \in 0 .. n
      BY <1>1
    <3> QED BY <1>1, <2>1, <3>1, LineType, Zenon DEF IsShown
  <2>3. f[n] \o Line(str[n + 1]) \in String
    BY <2>2 DEF String
  <2>4. g \in [0 .. n + 1 -> String]
    BY <2>1, <2>3 DEF IsShown
  <2>5. ASSUME NEW m \in 1 .. n + 1 PROVE g[m] = g[m - 1] \o Line(str[m])
    <3>1. CASE m <= n
      <4>1. g[m] = f[m] /\ g[m - 1] = f[m - 1] /\ m \in 1 .. n
        BY <3>1
      <4> QED BY <2>1, <4>1, Zenon DEF IsShown
    <3>2. CASE m = n + 1
      <4>1. g[m] = f[n] \o Line(str[n + 1]) /\ g[m - 1] = f[n]
        <5>1. n + 1 \in 0 .. n + 1 /\ n \in 0 .. n + 1 /\ n <= n /\ ~(n + 1 <= n) /\ (n + 1) - 1 = n
          <6> HIDE DEF T, g
          <6> QED OBVIOUS
        <5> QED BY <3>2, <5>1, Zenon
      <4> QED BY <3>2, <4>1, Zenon
    <3>3. m <= n \/ m = n + 1
      <4> HIDE DEF T, g
      <4> QED OBVIOUS
    <3> QED BY <3>1, <3>2, <3>3, Zenon
  <2>6. g[0] = <<>>
    BY <2>1 DEF IsShown
  <2> HIDE DEF g
  <2> QED BY <2>4, <2>5, <2>6, Zenon DEF IsShown
<1> HIDE DEF T
<1>4. \A n \in Nat : n \in T
  BY <1>2, <1>3, Induction, Zenon
<1> QED BY <1>1, <1>4 DEF T

(* It is what Shown() is defined by. *)
LEMMA ShownIs ==
  ASSUME NEW str \in String
  PROVE  \E f : IsShown(f, str, Len(str)) /\ Shown(str) = f[Len(str)]
<1> DEFINE shown[n \in 0 .. Len(str)] ==
             IF n = 0 THEN <<>>
             ELSE shown[n - 1] \o (IF str[n] = "\n" THEN <<"\r", "\n">> ELSE <<str[n]>>)
<1>0. Len(str) \in Nat
  BY DEF String
<1>1. PICK f : IsShown(f, str, Len(str))
  BY ShownExists, Zenon
<1>2. f = [n \in 0 .. Len(str) |->
             IF n = 0 THEN <<>>
             ELSE f[n - 1] \o (IF str[n] = "\n" THEN <<"\r", "\n">> ELSE <<str[n]>>)]
  <2>1. f = [n \in 0 .. Len(str) |-> f[n]]
    BY <1>1, Zenon DEF IsShown
  <2>2. ASSUME NEW n \in 0 .. Len(str)
        PROVE  f[n] = IF n = 0 THEN <<>>
                      ELSE f[n - 1] \o (IF str[n] = "\n" THEN <<"\r", "\n">> ELSE <<str[n]>>)
    <3>1. CASE n = 0
      BY <1>1, <3>1, Zenon DEF IsShown
    <3>2. CASE n # 0
      <4>1. n \in 1 .. Len(str)
        BY <1>0, <3>2
      <4> QED BY <1>1, <3>2, <4>1, Zenon DEF IsShown, Line
    <3> QED BY <3>1, <3>2, Zenon
  <2> QED BY <2>1, <2>2, Zenon
<1>3. shown = [n \in 0 .. Len(str) |->
                 IF n = 0 THEN <<>>
                 ELSE shown[n - 1] \o (IF str[n] = "\n" THEN <<"\r", "\n">> ELSE <<str[n]>>)]
  BY <1>2, Zenon
<1>4. \A n \in 0 .. Len(str) :
        shown[n] = IF n = 0 THEN <<>>
                   ELSE shown[n - 1] \o (IF str[n] = "\n" THEN <<"\r", "\n">> ELSE <<str[n]>>)
  BY <1>3, Zenon
<1>5. Shown(str) = shown[Len(str)]
  BY Zenon DEF Shown
<1> HIDE DEF shown
<1>6. \A n \in Nat : n \in {k \in Nat : k <= Len(str) => shown[k] = f[k]}
  <2> DEFINE T == {k \in Nat : k <= Len(str) => shown[k] = f[k]}
  <2>1. 0 \in T
    <3>1. 0 \in 0 .. Len(str) /\ 0 \in Nat
      BY <1>0
    <3>2. shown[0] = <<>> /\ f[0] = <<>>
      BY <1>1, <1>4, <3>1, Zenon DEF IsShown
    <3> QED BY <3>1, <3>2
  <2>2. ASSUME NEW n \in Nat, n \in T PROVE n + 1 \in T
    <3> SUFFICES ASSUME n + 1 <= Len(str) PROVE shown[n + 1] = f[n + 1]
      OBVIOUS
    <3>1. n + 1 \in 1 .. Len(str) /\ n + 1 \in 0 .. Len(str) /\ n + 1 # 0 /\ (n + 1) - 1 = n
      BY <1>0
    <3>2. shown[n] = f[n]
      BY <1>0, <2>2
    <3>3. shown[n + 1] = shown[n] \o Line(str[n + 1])
      BY <1>4, <3>1, Zenon DEF Line
    <3>4. f[n + 1] = f[n] \o Line(str[n + 1])
      BY <1>1, <3>1, Zenon DEF IsShown
    <3> QED BY <3>2, <3>3, <3>4, Zenon
  <2> HIDE DEF T
  <2>3. \A n \in Nat : n \in T
    BY <2>1, <2>2, Induction, Zenon
  <2> QED BY <2>3, Zenon DEF T
<1>7. shown[Len(str)] = f[Len(str)]
  BY <1>0, <1>6
<1> QED BY <1>1, <1>5, <1>7, Zenon

(* What is shown of a string is shown of its first character and then of   *)
(* the others.                                                             *)
LEMMA ShownFirst ==
  ASSUME NEW str \in String
  PROVE  /\ Shown(str) \in String
         /\ str = <<>> => Shown(str) = <<>>
         /\ str # <<>> => Shown(str) = Line(Head(str)) \o Shown(Tail(str))
<1>0. Len(str) \in Nat
  BY DEF String
<1>1. PICK f : IsShown(f, str, Len(str)) /\ Shown(str) = f[Len(str)]
  BY ShownIs, Zenon
<1>2. Shown(str) \in String
  BY <1>0, <1>1 DEF IsShown
<1>3. str = <<>> => Shown(str) = <<>>
  BY <1>0, <1>1, Zenon DEF IsShown
<1>4. ASSUME str # <<>> PROVE Shown(str) = Line(Head(str)) \o Shown(Tail(str))
  <2> DEFINE L == Line(Head(str))
             rest == Tail(str)
  <2>1. /\ rest \in String /\ Len(rest) = Len(str) - 1 /\ Len(rest) \in Nat
        /\ \A n \in 1 .. Len(rest) : rest[n] = str[n + 1]
        /\ Head(str) = str[1] /\ Head(str) \in Char
    BY <1>4, HeadTailProperties DEF String
  <2>2. PICK g : IsShown(g, rest, Len(rest)) /\ Shown(rest) = g[Len(rest)]
    BY <2>1, ShownIs, Zenon
  <2>3. L \in String
    BY <2>1, LineType, Zenon
  <2>x. L = Line(str[1])
    BY <2>1, Zenon
  <2> DEFINE T == {n \in Nat : n <= Len(rest) => f[n + 1] = L \o g[n]}
  <2>4. 0 \in T
    <3>1. 1 \in 1 .. Len(str) /\ 1 - 1 = 0
      BY <1>0, <2>1
    <3>2. f[1] = f[0] \o Line(str[1]) /\ f[0] = <<>>
      BY <1>1, <3>1, Zenon DEF IsShown
    <3>3. g[0] = <<>>
      BY <2>2, Zenon DEF IsShown
    <3>4. <<>> \o L = L /\ L \o <<>> = L
      BY <2>3, ConcatEmptySeq, Zenon DEF String
    <3>5. f[1] = L \o g[0]
      BY <2>x, <3>2, <3>3, <3>4, Zenon
    <3> HIDE DEF L, rest
    <3> QED BY <3>5
  <2>5. ASSUME NEW n \in Nat, n \in T PROVE n + 1 \in T
    <3> HIDE DEF L, rest
    <3> SUFFICES ASSUME n + 1 <= Len(rest) PROVE f[(n + 1) + 1] = L \o g[n + 1]
      OBVIOUS
    <3>1. /\ n + 1 \in 1 .. Len(rest) /\ (n + 1) + 1 \in 1 .. Len(str) /\ (n + 1) - 1 = n
          /\ ((n + 1) + 1) - 1 = n + 1 /\ n \in 0 .. Len(rest) /\ n <= Len(rest)
      BY <1>0, <2>1
    <3>2. f[n + 1] = L \o g[n]
      BY <2>5, <3>1, Zenon
    <3>3. f[(n + 1) + 1] = f[n + 1] \o Line(str[(n + 1) + 1])
      BY <1>1, <3>1, Zenon DEF IsShown
    <3>4. g[n + 1] = g[n] \o Line(rest[n + 1]) /\ g[n] \in String
      BY <2>2, <3>1, Zenon DEF IsShown
    <3>5. rest[n + 1] = str[(n + 1) + 1] /\ rest[n + 1] \in Char
      BY <2>1, <3>1 DEF String
    <3>6. Line(rest[n + 1]) \in String
      BY <3>5, LineType, Zenon
    <3>7. (L \o g[n]) \o Line(rest[n + 1]) = L \o (g[n] \o Line(rest[n + 1]))
      BY <2>3, <3>4, <3>6, Associative, ZenonT(40)
    <3> QED BY <3>2, <3>3, <3>4, <3>5, <3>7, Zenon
  <2> HIDE DEF T, L, rest
  <2>6. \A n \in Nat : n \in T
    BY <2>4, <2>5, Induction, Zenon
  <2>7. f[Len(rest) + 1] = L \o g[Len(rest)]
    BY <2>1, <2>6 DEF T
  <2>8. Len(rest) + 1 = Len(str)
    BY <1>0, <2>1
  <2> QED BY <1>1, <2>2, <2>7, <2>8, Zenon DEF L, rest
<1> QED BY <1>2, <1>3, <1>4, Zenon

-----------------------------------------------------------------------------
(* What is printed.                                                        *)

(* f is a number's decimal digits, for every number up to n. *)
IsDigits(f, n) ==
  LET digit == <<"0", "1", "2", "3", "4", "5", "6", "7", "8", "9">> IN
  /\ f \in [0 .. n -> String]
  /\ \A v \in 0 .. n :
       f[v] = IF v < 10 THEN <<digit[v + 1]>> ELSE Append(f[v \div 10], digit[(v % 10) + 1])

(* A digit is a character. *)
LEMMA DigitChar == \A k \in 1 .. 10 : <<"0", "1", "2", "3", "4", "5", "6", "7", "8", "9">>[k] \in Char
<1> DEFINE d == <<"0", "1", "2", "3", "4", "5", "6", "7", "8", "9">>
<1>1. /\ d[1] = "0" /\ d[2] = "1" /\ d[3] = "2" /\ d[4] = "3" /\ d[5] = "4"
      /\ d[6] = "5" /\ d[7] = "6" /\ d[8] = "7" /\ d[9] = "8" /\ d[10] = "9"
  OBVIOUS
<1> HIDE DEF d
<1>2. \A k \in 1 .. 10 : k \in {1, 2, 3, 4, 5, 6, 7, 8, 9, 10}
  OBVIOUS
<1>3. {"0", "1", "2", "3", "4", "5", "6", "7", "8", "9"} \subseteq Char
  BY Zenon DEF Char
<1>4. \A k \in 1 .. 10 : d[k] \in {"0", "1", "2", "3", "4", "5", "6", "7", "8", "9"}
  BY <1>1, <1>2, Zenon
<1>5. \A k \in 1 .. 10 : d[k] \in Char
  BY <1>3, <1>4, Zenon
<1> QED BY <1>5, Zenon DEF d

(* There is such a function. *)
LEMMA DigitsExist ==
  ASSUME NEW n \in Nat
  PROVE  \E f : IsDigits(f, n)
<1> DEFINE T == {k \in Nat : \E f : IsDigits(f, k)}
           digit == <<"0", "1", "2", "3", "4", "5", "6", "7", "8", "9">>
<1>1. \A k \in 1 .. 10 : digit[k] \in Char
  BY DigitChar, Zenon
<1>2. digit[1] \in Char
  BY <1>1
<1> HIDE DEF digit
<1>3. 0 \in T
  <2> DEFINE f == [v \in 0 .. 0 |-> <<digit[1]>>]
  <2>1. <<digit[1]>> \in String
    BY <1>2 DEF String
  <2>2. f \in [0 .. 0 -> String]
    BY <2>1, Zenon
  <2>3. \A v \in 0 .. 0 : v < 10 /\ v + 1 = 1
    OBVIOUS
  <2>4. \A v \in 0 .. 0 : f[v] = <<digit[1]>>
    BY Zenon
  <2> HIDE DEF f
  <2>5. IsDigits(f, 0)
    BY <2>2, <2>3, <2>4, Zenon DEF IsDigits, digit
  <2>6. 0 \in Nat
    OBVIOUS
  <2> QED BY <2>5, <2>6, Zenon
<1>4. ASSUME NEW k \in Nat, k \in T PROVE k + 1 \in T
  <2>1. PICK f : IsDigits(f, k)
    BY <1>4, Zenon
  <2> HIDE DEF T
  <2> DEFINE w == k + 1
             top == IF w < 10 THEN <<digit[w + 1]>> ELSE Append(f[w \div 10], digit[(w % 10) + 1])
             g == [v \in 0 .. w |-> IF v <= k THEN f[v] ELSE top]
  <2>2. f \in [0 .. k -> String]
    BY <2>1, Zenon DEF IsDigits
  <2>3. \A v \in 0 .. k :
          f[v] = IF v < 10 THEN <<digit[v + 1]>> ELSE Append(f[v \div 10], digit[(v % 10) + 1])
    BY <2>1, Zenon DEF IsDigits, digit
  <2>4. ASSUME NEW v \in 0 .. w, v >= 10 PROVE v \div 10 \in 0 .. k /\ (v % 10) + 1 \in 1 .. 10
    BY <2>4
  <2>5. top \in String
    <3>1. CASE w < 10
      <4>1. w + 1 \in 1 .. 10
        BY <3>1
      <4>2. digit[w + 1] \in Char
        BY <1>1, <4>1, Zenon
      <4>3. <<digit[w + 1]>> \in String
        BY <4>2 DEF String
      <4> QED BY <3>1, <4>3, Zenon
    <3>2. CASE ~(w < 10)
      <4>1. w \in 0 .. w /\ w >= 10
        BY <3>2
      <4>2. f[w \div 10] \in String /\ digit[(w % 10) + 1] \in Char
        BY <1>1, <2>2, <2>4, <4>1, Zenon
      <4>3. \A s \in String : \A e \in Char : Append(s, e) \in String
        BY DEF String
      <4> QED BY <3>2, <4>2, <4>3, Zenon
    <3> QED BY <3>1, <3>2, Zenon
  <2> HIDE DEF top
  <2>6. g \in [0 .. w -> String]
    <3>1. \A v \in 0 .. w : v <= k => v \in 0 .. k
      OBVIOUS
    <3> QED BY <2>2, <2>5, <3>1, Zenon
  <2>7. \A v \in 0 .. k : g[v] = f[v]
    <3>1. \A v \in 0 .. k : v <= k /\ v \in 0 .. w
      OBVIOUS
    <3> QED BY <3>1, Zenon
  <2>8. g[w] = top
    <3>1. ~(w <= k) /\ w \in 0 .. w
      OBVIOUS
    <3> QED BY <3>1, Zenon
  <2>9. ASSUME NEW v \in 0 .. w
        PROVE  g[v] = IF v < 10 THEN <<digit[v + 1]>> ELSE Append(g[v \div 10], digit[(v % 10) + 1])
    <3>1. v >= 10 => g[v \div 10] = f[v \div 10]
      BY <2>4, <2>7, Zenon
    <3>2. v < 10 \/ v >= 10
      OBVIOUS
    <3>3. v \in 0 .. k \/ v = w
      OBVIOUS
    <3>4. CASE v \in 0 .. k
      BY <2>3, <2>7, <3>1, <3>2, <3>4, Zenon
    <3>5. CASE v = w
      BY <2>8, <3>1, <3>2, <3>5, Zenon DEF top
    <3> QED BY <3>3, <3>4, <3>5, Zenon
  <2> HIDE DEF g
  <2>10. IsDigits(g, w)
    BY <2>6, <2>9, Zenon DEF IsDigits, digit
  <2>11. w \in Nat
    OBVIOUS
  <2> QED BY <2>10, <2>11, Zenon DEF T
<1> HIDE DEF T
<1>5. \A k \in Nat : k \in T
  BY <1>3, <1>4, Induction, Zenon
<1> QED BY <1>5, Zenon DEF T

(* append_uint() makes a string. *)
LEMMA AppendUint ==
  ASSUME NEW dst \in String, NEW value \in Nat
  PROVE  append_uint(dst, value) \in String
<1> DEFINE digit == <<"0", "1", "2", "3", "4", "5", "6", "7", "8", "9">>
           digits[v \in 0 .. value] == IF v < 10 THEN <<digit[v + 1]>>
                                       ELSE Append(digits[v \div 10], digit[(v % 10) + 1])
           T == {k \in Nat : \A v \in 0 .. value : v <= k => digits[v] \in String}
<1>1. PICK f : IsDigits(f, value)
  BY DigitsExist
<1>2. f = [v \in 0 .. value |-> IF v < 10 THEN <<digit[v + 1]>> ELSE Append(f[v \div 10], digit[(v % 10) + 1])]
  <2> HIDE DEF digits
  <2> QED BY <1>1, Zenon DEF IsDigits
<1>3. digits = [v \in 0 .. value |-> IF v < 10 THEN <<digit[v + 1]>>
                                     ELSE Append(digits[v \div 10], digit[(v % 10) + 1])]
  <2> HIDE DEF digit
  <2> QED BY <1>2, Zenon
<1>4. append_uint(dst, value) = dst \o digits[value]
  BY Zenon DEF append_uint, append
<1>5. \A k \in 1 .. 10 : digit[k] \in Char
  BY DigitChar, Zenon
<1> HIDE DEF digit, digits
<1>6. \A v \in 0 .. value : digits[v] = IF v < 10 THEN <<digit[v + 1]>>
                                        ELSE Append(digits[v \div 10], digit[(v % 10) + 1])
  BY <1>3, Zenon
<1>a. ASSUME NEW v \in 0 .. value, v >= 10 => digits[v \div 10] \in String
      PROVE  digits[v] \in String
  <2>1. CASE v < 10
    <3>1. v + 1 \in 1 .. 10
      BY <2>1
    <3>2. digit[v + 1] \in Char
      BY <1>5, <3>1, Zenon
    <3>3. <<digit[v + 1]>> \in String
      BY <3>2 DEF String
    <3> QED BY <1>6, <2>1, <3>3, Zenon
  <2>2. CASE ~(v < 10)
    <3>1. (v % 10) + 1 \in 1 .. 10 /\ v >= 10
      BY <2>2
    <3>2. digit[(v % 10) + 1] \in Char
      BY <1>5, <3>1, Zenon
    <3>3. \A s \in String : \A e \in Char : Append(s, e) \in String
      BY DEF String
    <3> QED BY <1>a, <1>6, <2>2, <3>1, <3>2, <3>3, Zenon
  <2> QED BY <2>1, <2>2, Zenon
<1>7. 0 \in T
  <2>1. ASSUME NEW v \in 0 .. value, v <= 0 PROVE digits[v] \in String
    <3>1. ~(v >= 10)
      BY <2>1
    <3> QED BY <1>a, <3>1, Zenon
  <2>2. 0 \in Nat
    OBVIOUS
  <2> QED BY <2>1, <2>2, Zenon
<1>8. ASSUME NEW k \in Nat, k \in T PROVE k + 1 \in T
  <2>1. ASSUME NEW v \in 0 .. value, v <= k + 1 PROVE digits[v] \in String
    <3>1. ASSUME v >= 10 PROVE digits[v \div 10] \in String
      <4>1. v \div 10 \in 0 .. value /\ v \div 10 <= k
        <5> HIDE DEF T
        <5> QED BY <2>1, <3>1
      <4> QED BY <1>8, <4>1, Zenon
    <3> QED BY <1>a, <3>1, Zenon
  <2>2. k + 1 \in Nat
    OBVIOUS
  <2> QED BY <2>1, <2>2, Zenon
<1>9. \A k \in Nat : k \in T
  <2> HIDE DEF T
  <2> QED BY <1>7, <1>8, Induction, Zenon
<1>10. value \in 0 .. value /\ value <= value
  OBVIOUS
<1>11. digits[value] \in String
  BY <1>9, <1>10, Zenon
<1>12. \A s, t \in String : s \o t \in String
  BY DEF String
<1> QED BY <1>4, <1>11, <1>12, Zenon

-----------------------------------------------------------------------------
(* print().                                                                *)

(* One core prints at a time, under g_lock, and it has something to print; *)
(* between '\r' and '\n' it is at a new line.                              *)
ConsoleInv ==
  /\ calls \in [Cores -> Seq(String)] /\ uart \in String
  /\ in_print \subseteq Cores /\ (in_print # {} => g_lock)
  /\ \A c, d \in in_print : c = d
  /\ \A c \in in_print : calls[c] # <<>>
  /\ cr \subseteq in_print
  /\ \A c \in cr : Head(calls[c]) # <<>> /\ Head(Head(calls[c])) = "\n"

(* The console as ConsoleSpec sees it. *)
Out == IF in_print = {} THEN uart ELSE uart \o Rest(CHOOSE c \in in_print : TRUE)

Pending == [c \in Cores |-> IF c \in in_print THEN Tail(calls[c]) ELSE calls[c]]

(* A string that is not empty is its head and its tail. *)
LEMMA Strings ==
  /\ \A s \in String : s # <<>> => Head(s) \in Char /\ Tail(s) \in String
  /\ \A t \in Seq(String) : t # <<>> => Head(t) \in String /\ Tail(t) \in Seq(String)
  /\ \A t \in Seq(String), s \in String :
       t # <<>> => LET u == [t EXCEPT ![1] = s]
                   IN  u \in Seq(String) /\ u # <<>> /\ Head(u) = s /\ Tail(u) = Tail(t)
  /\ \A s \in String, e \in Char : Append(s, e) \in String /\ Append(s, e) = s \o <<e>> /\ <<e>> \in String
  /\ \A s \in String : s \o <<>> = s
  /\ \A s, t \in String : s \o t \in String
<1>1. \A s \in String : s # <<>> => Head(s) \in Char /\ Tail(s) \in String
  BY DEF String
<1>2. \A t \in Seq(String) : t # <<>> => Head(t) \in String /\ Tail(t) \in Seq(String)
  OBVIOUS
<1>3. ASSUME NEW t \in Seq(String), NEW s \in String, t # <<>>
      PROVE  LET u == [t EXCEPT ![1] = s]
             IN  u \in Seq(String) /\ u # <<>> /\ Head(u) = s /\ Tail(u) = Tail(t)
  <2> DEFINE u == [t EXCEPT ![1] = s]
  <2>1. Len(t) \in Nat /\ Len(t) > 0 /\ 1 \in 1 .. Len(t)
    BY <1>3
  <2>2. u \in Seq(String) /\ Len(u) = Len(t)
    BY <1>3, <2>1
  <2>3. u # <<>> /\ Head(u) = s
    BY <2>1, <2>2
  <2>4. Tail(u) = Tail(t)
    <3>1. \A n \in 1 .. Len(t) - 1 : u[n + 1] = t[n + 1]
      BY <2>1, <2>2
    <3> HIDE DEF u
    <3>2. /\ Tail(u) \in Seq(String) /\ Len(Tail(u)) = Len(t) - 1
          /\ \A n \in 1 .. Len(t) - 1 : Tail(u)[n] = u[n + 1]
      BY <2>2, <2>3, HeadTailProperties
    <3>3. /\ Tail(t) \in Seq(String) /\ Len(Tail(t)) = Len(t) - 1
          /\ \A n \in 1 .. Len(t) - 1 : Tail(t)[n] = t[n + 1]
      BY <1>3, HeadTailProperties
    <3>4. \A n \in 1 .. Len(t) - 1 : Tail(u)[n] = Tail(t)[n]
      BY <3>1, <3>2, <3>3, Zenon
    <3> QED BY <2>1, <3>2, <3>3, <3>4, SeqEqual
  <2> QED BY <2>2, <2>3, <2>4, Zenon
<1>4. \A s \in String, e \in Char : Append(s, e) \in String /\ Append(s, e) = s \o <<e>> /\ <<e>> \in String
  BY DEF String
<1>5. \A s \in String : s \o <<>> = s
  BY ConcatEmptySeq DEF String
<1>6. \A s, t \in String : s \o t \in String
  BY DEF String
<1> QED BY <1>1, <1>2, <1>3, <1>4, <1>5, <1>6, Zenon

(* Behind '\r' comes '\n'. *)
LEMMA TailOfLine ==
  ASSUME NEW s \in String
  PROVE  /\ Tail(<<"\r", "\n">> \o s) = <<"\n">> \o s
         /\ <<"\r", "\n">> \o s = <<"\r">> \o (<<"\n">> \o s)
         /\ <<"\r">> \in String /\ <<"\n">> \in String /\ <<"\n">> \o s \in String
<1>1. "\r" \in Char /\ "\n" \in Char
  BY Zenon DEF Char
<1>2. PICK x \in Char : x = "\r"
  BY <1>1
<1>3. PICK y \in Char : y = "\n"
  BY <1>1
<1>4. s \in Seq(Char)
  BY Zenon DEF String
<1>5. Tail(<<x, y>> \o s) = <<y>> \o s
  BY <1>4
<1>6. <<x, y>> \o s = <<x>> \o (<<y>> \o s) /\ <<x>> \in Seq(Char) /\ <<y>> \in Seq(Char) /\ <<y>> \o s \in Seq(Char)
  BY <1>4
<1> QED BY <1>2, <1>3, <1>5, <1>6, Zenon DEF String

(* What the core that holds the lock has left to write of its string. *)
LEMMA RestIs ==
  ASSUME ConsoleInv, NEW c \in in_print
  PROVE  /\ in_print = {c} /\ Out = uart \o Rest(c)
         /\ Head(calls[c]) \in String /\ Tail(calls[c]) \in Seq(String)
         /\ Head(calls[c]) = <<>> => Rest(c) = <<>> /\ c \notin cr
         /\ Head(calls[c]) # <<>> =>
              /\ Head(Head(calls[c])) \in Char /\ Tail(Head(calls[c])) \in String
              /\ Shown(Tail(Head(calls[c]))) \in String
              /\ Rest(c) = (IF Head(Head(calls[c])) = "\n" /\ c \notin cr THEN <<"\r", "\n">>
                            ELSE <<Head(Head(calls[c]))>>)
                           \o Shown(Tail(Head(calls[c])))
<1> DEFINE h == Head(calls[c])
<1>1. in_print = {c}
  BY Zenon DEF ConsoleInv
<1>2. Out = uart \o Rest(c)
  <2>1. (CHOOSE d \in in_print : TRUE) = c
    BY <1>1, Zenon
  <2> QED BY <1>1, <2>1, Zenon DEF Out
<1>3. calls[c] \in Seq(String) /\ calls[c] # <<>>
  BY Zenon DEF ConsoleInv
<1>4. h \in String /\ Tail(calls[c]) \in Seq(String)
  BY <1>3, Strings, Zenon
<1>5. c \in cr => h # <<>> /\ Head(h) = "\n"
  BY Zenon DEF ConsoleInv
<1>6. h = <<>> => Rest(c) = <<>> /\ c \notin cr
  BY <1>4, <1>5, ShownFirst, Zenon DEF Rest
<1>7. ASSUME h # <<>>
      PROVE  /\ Head(h) \in Char /\ Tail(h) \in String /\ Shown(Tail(h)) \in String
             /\ Rest(c) = (IF Head(h) = "\n" /\ c \notin cr THEN <<"\r", "\n">> ELSE <<Head(h)>>)
                          \o Shown(Tail(h))
  <2>1. Head(h) \in Char /\ Tail(h) \in String
    BY <1>4, <1>7, Strings, Zenon
  <2>2. Shown(Tail(h)) \in String /\ Shown(h) = Line(Head(h)) \o Shown(Tail(h))
    BY <1>4, <1>7, <2>1, ShownFirst, Zenon
  <2> DEFINE s == Shown(Tail(h))
  <2>3. CASE c \notin cr
    BY <2>1, <2>2, <2>3, Zenon DEF Rest, Line
  <2>4. CASE c \in cr
    <3>1. Head(h) = "\n" /\ Shown(h) = <<"\r", "\n">> \o s
      BY <1>5, <2>2, <2>4, Zenon DEF Line
    <3>2. Rest(c) = Tail(<<"\r", "\n">> \o s)
      BY <2>4, <3>1, Zenon DEF Rest
    <3>3. Tail(<<"\r", "\n">> \o s) = <<"\n">> \o s
      BY <2>2, TailOfLine, Zenon
    <3> QED BY <2>1, <2>2, <2>4, <3>1, <3>2, <3>3, Zenon
  <2> QED BY <2>3, <2>4, Zenon
<1> QED BY <1>1, <1>2, <1>4, <1>6, <1>7, Zenon

(* A step of the console, as ConsoleSpec sees it. *)
AtomicCall(c) == Pending[c] = <<>> /\ Pending' = [Pending EXCEPT ![c] = Pending'[c]] /\ Out' = Out

AtomicWrite(c) ==
  /\ Pending[c] # <<>>
  /\ Out' = Out \o Shown(Head(Pending[c]))
  /\ Pending' = [Pending EXCEPT ![c] = Tail(@)]

Atomic == (Pending' = Pending /\ Out' = Out) \/ \E c \in Cores : AtomicCall(c) \/ AtomicWrite(c)

(* The output depends on the string that is being printed, and no other. *)
LEMMA OutSame ==
  ASSUME in_print' = in_print, cr' = cr, uart' = uart, \A c \in in_print : calls'[c] = calls[c]
  PROVE  Out' = Out
<1>1. CASE in_print = {}
  BY <1>1, Zenon DEF Out
<1>2. CASE in_print # {}
  <2>1. PICK c \in in_print : c = CHOOSE d \in in_print : TRUE
    BY <1>2, Zenon
  <2>2. Rest(c)' = LET r == Shown(Head(calls'[c])) IN IF c \in cr' THEN Tail(r) ELSE r
    BY Zenon DEF Rest, Shown
  <2>3. Rest(c) = LET r == Shown(Head(calls[c])) IN IF c \in cr THEN Tail(r) ELSE r
    BY Zenon DEF Rest
  <2>4. Rest(c)' = Rest(c)
    BY <2>1, <2>2, <2>3, Zenon
  <2>5. Out = uart \o Rest(c)
    BY <1>2, <2>1, Zenon DEF Out
  <2>6. Out' = uart' \o Rest(c)'
    BY <1>2, <2>1, Zenon DEF Out
  <2> QED BY <2>4, <2>5, <2>6, Zenon
<1> QED BY <1>1, <1>2, Zenon

(* A core goes on to code that prints. *)
LEMMA PrintingStep ==
  ASSUME ConsoleInv, NEW c \in Cores, calls[c] = <<>>, NEW strings \in Seq(String), Printing(c, strings)
  PROVE  ConsoleInv' /\ Atomic
<1>1. /\ calls' = [calls EXCEPT ![c] = strings] /\ g_lock' = g_lock /\ in_print' = in_print /\ cr' = cr
      /\ uart' = uart
  BY Zenon DEF Printing
<1>2. c \notin in_print
  BY Zenon DEF ConsoleInv
<1>3. \A d \in Cores : d # c => calls'[d] = calls[d]
  BY <1>1, Zenon DEF ConsoleInv
<1>4. calls' \in [Cores -> Seq(String)]
  BY <1>1, Zenon DEF ConsoleInv
<1>5. \A d \in in_print : d \in Cores /\ d # c
  BY <1>2, Zenon DEF ConsoleInv
<1>6. ConsoleInv'
  BY <1>1, <1>3, <1>4, <1>5, Zenon DEF ConsoleInv
<1>7. Out' = Out
  BY <1>1, <1>3, <1>5, OutSame, Zenon
<1>8. Pending[c] = <<>> /\ Pending' = [Pending EXCEPT ![c] = Pending'[c]]
  <2>1. Pending[c] = <<>>
    BY <1>2, Zenon DEF Pending
  <2>2. DOMAIN Pending = Cores /\ Pending' = [d \in Cores |-> Pending'[d]]
    BY Zenon DEF Pending
  <2>3. ASSUME NEW d \in Cores, d # c PROVE Pending'[d] = Pending[d]
    <3>1. Pending[d] = IF d \in in_print THEN Tail(calls[d]) ELSE calls[d]
      BY Zenon DEF Pending
    <3>2. Pending'[d] = IF d \in in_print' THEN Tail(calls'[d]) ELSE calls'[d]
      BY Zenon DEF Pending
    <3> QED BY <1>1, <1>3, <2>3, <3>1, <3>2, Zenon
  <2> HIDE DEF Pending
  <2> QED BY <2>1, <2>2, <2>3, Zenon
<1> QED BY <1>6, <1>7, <1>8, Zenon DEF Atomic, AtomicCall

(* A call takes effect when it gets the lock. *)
LEMMA PrintLockStep ==
  ASSUME ConsoleInv, NEW c \in Cores, PrintLock(c)
  PROVE  ConsoleInv' /\ Atomic
<1>1. /\ calls[c] # <<>> /\ c \notin in_print /\ ~g_lock /\ g_lock' = TRUE
      /\ in_print' = in_print \cup {c} /\ calls' = calls /\ cr' = cr /\ uart' = uart
  BY Zenon DEF PrintLock
<1>2. in_print = {} /\ in_print' = {c} /\ cr = {} /\ cr' = {}
  BY <1>1, Zenon DEF ConsoleInv
<1>3. ConsoleInv'
  BY <1>1, <1>2, Zenon DEF ConsoleInv
<1>4. (CHOOSE d \in in_print' : TRUE) = c
  BY <1>2, Zenon
<1>5. Rest(c)' = Shown(Head(calls[c]))
  BY <1>1, <1>2, Zenon DEF Rest, Shown
<1>6. Out' = Out \o Shown(Head(calls[c]))
  BY <1>1, <1>2, <1>4, <1>5, Zenon DEF Out
<1>7. Pending[c] = calls[c]
  BY <1>2, Zenon DEF Pending
<1>8. Pending' = [Pending EXCEPT ![c] = Tail(@)]
  <2>1. DOMAIN Pending = Cores /\ Pending' = [d \in Cores |-> Pending'[d]]
    BY Zenon DEF Pending
  <2>2. \A d \in Cores : d # c => Pending'[d] = Pending[d]
    BY <1>1, <1>2, Zenon DEF Pending
  <2>3. Pending'[c] = Tail(calls[c])
    BY <1>1, <1>2, ZenonT(40) DEF Pending
  <2> HIDE DEF Pending
  <2> QED BY <1>7, <2>1, <2>2, <2>3, Zenon
<1> QED BY <1>1, <1>3, <1>6, <1>7, <1>8, Zenon DEF Atomic, AtomicWrite

(* The characters that follow change nothing ConsoleSpec sees. *)
LEMMA PutCrStep ==
  ASSUME ConsoleInv, NEW c \in Cores, PutCr(c)
  PROVE  ConsoleInv' /\ Atomic
<1> DEFINE h == Head(calls[c])
           s == Shown(Tail(h))
<1>1. /\ c \in in_print /\ c \notin cr /\ h # <<>> /\ Head(h) = "\n"
      /\ uart' = Append(uart, "\r") /\ cr' = cr \cup {c}
      /\ g_lock' = g_lock /\ calls' = calls /\ in_print' = in_print
  BY Zenon DEF PutCr, putc_raw
<1>2. /\ in_print = {c} /\ Out = uart \o Rest(c) /\ s \in String
      /\ Rest(c) = <<"\r", "\n">> \o s
  BY <1>1, RestIs, Zenon
<1>3. /\ Rest(c) = <<"\r">> \o (<<"\n">> \o s)
      /\ <<"\r">> \in String /\ <<"\n">> \in String /\ <<"\n">> \o s \in String
  BY <1>2, TailOfLine, Zenon
<1>4. "\r" \in Char /\ uart \in String
  BY Zenon DEF Char, ConsoleInv
<1>5. uart' \in String /\ uart' = uart \o <<"\r">>
  BY <1>1, <1>4, Strings, Zenon
<1>6. ConsoleInv'
  BY <1>1, <1>2, <1>5, Zenon DEF ConsoleInv
<1>7. c \in in_print' /\ c \in cr' /\ Head(calls'[c]) = h
  BY <1>1, Zenon
<1>8. Out' = uart' \o Rest(c)'
  <2>1. (CHOOSE d \in in_print' : TRUE) = c
    BY <1>1, <1>2, Zenon
  <2> QED BY <1>7, <2>1, Zenon DEF Out
<1>9. Rest(c)' = Tail(Shown(h))
  BY <1>7, ZenonT(60) DEF Rest, Shown
<1>10. Rest(c) = Shown(h)
  BY <1>1, Zenon DEF Rest
<1>11. Rest(c)' = <<"\n">> \o s
  BY <1>2, <1>9, <1>10, TailOfLine, Zenon
<1>12. Out' = Out
  <2>1. (uart \o <<"\r">>) \o (<<"\n">> \o s) = uart \o (<<"\r">> \o (<<"\n">> \o s))
    BY <1>3, <1>4, Associative, Zenon
  <2> QED BY <1>2, <1>3, <1>5, <1>8, <1>11, <2>1, Zenon
<1>13. Pending' = Pending
  BY <1>1, Zenon DEF Pending
<1> QED BY <1>6, <1>12, <1>13, Zenon DEF Atomic

(* ... nor does a character that is written. *)
LEMMA PutCharStep ==
  ASSUME ConsoleInv, NEW c \in Cores, PutChar(c)
  PROVE  ConsoleInv' /\ Atomic
<1> DEFINE h == Head(calls[c])
           s == Shown(Tail(h))
           u == [calls[c] EXCEPT ![1] = Tail(h)]
<1>1. /\ c \in in_print /\ h # <<>> /\ (Head(h) = "\n" => c \in cr)
      /\ uart' = Append(uart, Head(h)) /\ cr' = cr \ {c}
      /\ g_lock' = g_lock /\ in_print' = in_print
  BY Zenon DEF PutChar, putc_raw
<1>2. calls \in [Cores -> Seq(String)] /\ calls[c] # <<>> /\ calls[c] \in Seq(String) /\ uart \in String
  BY <1>1, Zenon DEF ConsoleInv
<1>3. calls' = [calls EXCEPT ![c] = u]
  <2>1. calls[c][1] = h
    BY <1>2
  <2> QED BY <2>1, Zenon DEF PutChar
<1>4. /\ in_print = {c} /\ Out = uart \o Rest(c) /\ Head(h) \in Char /\ Tail(h) \in String /\ s \in String
      /\ Rest(c) = <<Head(h)>> \o s
  BY <1>1, RestIs, Zenon
<1>5. u \in Seq(String) /\ u # <<>> /\ Head(u) = Tail(h) /\ Tail(u) = Tail(calls[c])
  BY <1>2, <1>4, Strings, Zenon
<1>6. uart' \in String /\ uart' = uart \o <<Head(h)>> /\ <<Head(h)>> \in String
  BY <1>1, <1>2, <1>4, Strings, Zenon
<1>7. calls' \in [Cores -> Seq(String)] /\ calls'[c] = u /\ \A d \in Cores : d # c => calls'[d] = calls[d]
  <2> HIDE DEF u
  <2> QED BY <1>2, <1>3, <1>5, Zenon
<1>8. cr' = {} /\ in_print' = {c}
  BY <1>1, <1>4, Zenon DEF ConsoleInv
<1> HIDE DEF u
<1>9. ConsoleInv'
  BY <1>1, <1>5, <1>6, <1>7, <1>8, Zenon DEF ConsoleInv
<1>10. Out' = uart' \o Rest(c)'
  <2>1. (CHOOSE d \in in_print' : TRUE) = c
    BY <1>8, Zenon
  <2> QED BY <1>8, <2>1, Zenon DEF Out
<1>11. Rest(c)' = s
  <2>1. Rest(c)' = Shown(Head(calls'[c]))
    BY <1>8, Zenon DEF Rest, Shown
  <2>2. Head(calls'[c]) = Tail(h)
    BY <1>5, <1>7, Zenon
  <2> QED BY <2>1, <2>2, Zenon
<1>12. Out' = Out
  <2>1. (uart \o <<Head(h)>>) \o s = uart \o (<<Head(h)>> \o s)
    BY <1>2, <1>4, <1>6, Associative, ZenonT(40)
  <2> QED BY <1>4, <1>6, <1>10, <1>11, <2>1, Zenon
<1>13. Pending' = Pending
  <2>1. \A d \in Cores : (IF d \in in_print' THEN Tail(calls'[d]) ELSE calls'[d])
                         = IF d \in in_print THEN Tail(calls[d]) ELSE calls[d]
    BY <1>1, <1>4, <1>5, <1>7, Zenon
  <2> QED BY <2>1, Zenon DEF Pending
<1> QED BY <1>9, <1>12, <1>13, Zenon DEF Atomic

(* ... nor the unlocking, once the whole string is written. *)
LEMMA PrintUnlockStep ==
  ASSUME ConsoleInv, NEW c \in Cores, PrintUnlock(c)
  PROVE  ConsoleInv' /\ Atomic
<1>1. /\ c \in in_print /\ Head(calls[c]) = <<>> /\ in_print' = in_print \ {c} /\ g_lock' = FALSE
      /\ calls' = [calls EXCEPT ![c] = Tail(@)] /\ cr' = cr /\ uart' = uart
  BY Zenon DEF PrintUnlock
<1>2. /\ in_print = {c} /\ Out = uart \o Rest(c) /\ Rest(c) = <<>> /\ c \notin cr
      /\ Tail(calls[c]) \in Seq(String)
  BY <1>1, RestIs, Zenon
<1>3. calls \in [Cores -> Seq(String)] /\ uart \in String
  BY Zenon DEF ConsoleInv
<1>4. /\ calls' \in [Cores -> Seq(String)] /\ calls'[c] = Tail(calls[c])
      /\ \A d \in Cores : d # c => calls'[d] = calls[d]
  BY <1>1, <1>2, <1>3, Zenon
<1>5. cr' = {} /\ in_print' = {}
  BY <1>1, <1>2, Zenon DEF ConsoleInv
<1>6. ConsoleInv'
  BY <1>1, <1>3, <1>4, <1>5, Zenon DEF ConsoleInv
<1>7. Out' = Out
  <2>1. Out' = uart
    BY <1>1, <1>5, Zenon DEF Out
  <2> QED BY <1>2, <1>3, <2>1, Strings, Zenon
<1>8. Pending' = Pending
  <2>1. \A d \in Cores : (IF d \in in_print' THEN Tail(calls'[d]) ELSE calls'[d])
                         = IF d \in in_print THEN Tail(calls[d]) ELSE calls[d]
    BY <1>2, <1>4, <1>5, Zenon
  <2> QED BY <2>1, Zenon DEF Pending
<1> QED BY <1>6, <1>7, <1>8, Zenon DEF Atomic

(* What a core says is a sequence of strings. *)
LEMMA Said ==
  /\ <<"\n">> \in String /\ << <<"begins", "\n">> >> \in Seq(String)
  /\ \A n \in Nat : << append(append_uint(<<"from">>, n), <<"\n">>) >> \in Seq(String)
  /\ \A n, m \in Nat :
       << <<"\n">>, <<"Hello", "\n">>, append(append_uint(append(append_uint(<<"core">>, n), <<"of">>), m), <<"\n">>) >>
         \in Seq(String)
  /\ kpanic_at(<<"!">>, <<"f">>, 10) \in Seq(String)
<1>1. /\ "\n" \in Char /\ "begins" \in Char /\ "Hello" \in Char /\ "core" \in Char /\ "of" \in Char /\ "from" \in Char
      /\ "KPANIC: " \in Char /\ "!" \in Char /\ " at " \in Char /\ "f" \in Char /\ ":" \in Char
  BY DEF Char
<1>2. \A a, b \in Char : <<a>> \in String /\ <<a, b>> \in String
  BY DEF String
<1>3. /\ <<"\n">> \in String /\ <<"begins", "\n">> \in String /\ <<"Hello", "\n">> \in String
      /\ <<"core">> \in String /\ <<"of">> \in String /\ <<"from">> \in String
      /\ <<"KPANIC: ">> \in String /\ <<"!">> \in String /\ <<" at ">> \in String /\ <<"f">> \in String /\ <<":">> \in String
  BY <1>1, <1>2, Zenon
<1>4. <<>> \in String /\ \A a, b \in String : append(a, b) \in String
  BY DEF String, append
<1>5. /\ \A a \in String : <<a>> \in Seq(String)
      /\ \A a, b, c \in String : <<a, b, c>> \in Seq(String)
      /\ \A a, b, c, d, e, f, g \in String : <<a, b, c, d, e, f, g>> \in Seq(String)
  <2>1. \A a \in String : <<a>> \in Seq(String)
    OBVIOUS
  <2>2. \A a, b, c \in String : <<a, b, c>> \in Seq(String)
    OBVIOUS
  <2>3. \A a, b, c, d, e, f, g \in String : <<a, b, c, d, e, f, g>> \in Seq(String)
    OBVIOUS
  <2> QED BY <2>1, <2>2, <2>3, Zenon
<1>6. \A n \in Nat : << append(append_uint(<<"from">>, n), <<"\n">>) >> \in Seq(String)
  BY <1>3, <1>4, <1>5, AppendUint, Zenon
<1>7. ASSUME NEW n \in Nat, NEW m \in Nat
      PROVE  << <<"\n">>, <<"Hello", "\n">>,
                append(append_uint(append(append_uint(<<"core">>, n), <<"of">>), m), <<"\n">>) >> \in Seq(String)
  <2>1. append(append_uint(<<"core">>, n), <<"of">>) \in String
    BY <1>3, <1>4, AppendUint, Zenon
  <2>2. append(append_uint(append(append_uint(<<"core">>, n), <<"of">>), m), <<"\n">>) \in String
    BY <1>3, <1>4, <2>1, AppendUint, Zenon
  <2> QED BY <1>3, <1>5, <2>2, Zenon
<1>8. kpanic_at(<<"!">>, <<"f">>, 10) \in Seq(String)
  <2>1. 10 \in Nat
    OBVIOUS
  <2>2. append_uint(<<>>, 10) \in String
    BY <1>4, <2>1, AppendUint, Zenon
  <2> QED BY <1>3, <1>5, <2>2, Zenon DEF kpanic_at
<1> QED BY <1>3, <1>5, <1>6, <1>7, <1>8, Zenon

(* A core that says something. *)
LEMMA SayStep ==
  ASSUME ConsoleInv, NEW c \in Cores, NEW strings \in Seq(String), NEW from, NEW to, Say(c, from, to, strings)
  PROVE  ConsoleInv' /\ Atomic
<1>1. <<>> \in Seq(String) /\ calls[c] = <<>>
  BY DEF Say, Goto
<1>2. PICK said \in Seq(String) : Printing(c, said)
  BY <1>1, Zenon DEF Say
<1> QED BY <1>1, <1>2, PrintingStep, Zenon

(* No step of the console is seen in the middle of a print(). *)
LEMMA ConsoleStep ==
  ASSUME ConsoleInv, BootInv, [Next]_vars
  PROVE  ConsoleInv' /\ Atomic
<1>0. Bsp \in Cores
  BY BootAssumption
<1>1. ASSUME UNCHANGED <<g_lock, calls, in_print, cr, uart>> PROVE ConsoleInv' /\ Atomic
  <2>1. g_lock' = g_lock /\ calls' = calls /\ in_print' = in_print /\ cr' = cr /\ uart' = uart
    BY <1>1, Zenon
  <2>2. ConsoleInv'
    BY <2>1, Zenon DEF ConsoleInv
  <2>3. Pending' = Pending /\ Out' = Out
    BY <2>1, OutSame, Zenon DEF Pending
  <2> QED BY <2>2, <2>3, Zenon DEF Atomic
<1>2. CASE UNCHANGED vars
  BY <1>1, <1>2, Zenon DEF vars, console
<1>3. CASE Uart
  BY <1>1, <1>3, Zenon DEF Uart, Transmit
<1>4. CASE KmainStep
  <2>1. CASE PrintMarker
    BY <1>0, <2>1, Said, SayStep, Zenon DEF PrintMarker
  <2>2. CASE PrintBanner
    <3>1. pc[Bsp] = "release"
      BY <2>2, Zenon DEF PrintBanner, Say, Goto
    <3>2. tpidr[Bsp] \in Ids
      BY <3>1, Zenon DEF BootInv, SetUp, Releasing
    <3>3. tpidr[Bsp] \in Nat /\ cpu_count \in Nat
      BY <3>2, CoreCount DEF Ids
    <3> QED BY <1>0, <2>2, <3>3, Said, SayStep, Zenon DEF PrintBanner
  <2>3. ASSUME ~PrintMarker, ~PrintBanner PROVE UNCHANGED console
    BY <1>4, <2>3, Zenon
    DEF KmainStep, Kmain, mmu_init, activate_this_core, heap_init, percore_init, SmpInit, Release, Publish,
        ReleaseSkip, GoMain
  <2> QED BY <1>1, <2>1, <2>2, <2>3, Zenon DEF console
<1>5. ASSUME NEW c \in Cores, Core(c) \/ Forever(c) PROVE ConsoleInv' /\ Atomic
  <2>1. CASE PrintGreeting(c)
    <3>1. pc[c] = "greet"
      BY <2>1, Zenon DEF PrintGreeting, Say, Goto
    <3>2. c # Bsp
      BY <1>0, <3>1 DEF BootInv, BootTypes, BspPlaces
    <3>3. tpidr[c] \in Ids
      BY <3>1, <3>2, Zenon DEF BootInv, Released
    <3>4. tpidr[c] \in Nat
      BY <3>3, CoreCount DEF Ids
    <3> QED BY <2>1, <3>4, Said, SayStep, Zenon DEF PrintGreeting
  <2>2. CASE Panic(c)
    BY <2>2, Said, SayStep, Zenon DEF Panic
  <2>3. CASE print(c)
    BY <2>3, PrintLockStep, PutCrStep, PutCharStep, PrintUnlockStep, Zenon DEF print
  <2>4. ASSUME ~PrintGreeting(c), ~Panic(c), ~print(c) PROVE UNCHANGED console
    BY <1>5, <2>4, Zenon DEF Core, Forever, ApEntry, activate_this_core, StopCore, vars
  <2> QED BY <1>1, <2>1, <2>2, <2>3, <2>4, Zenon DEF console
<1> QED BY <1>2, <1>3, <1>4, <1>5, Zenon DEF Next

(* print() is atomic: what the cores write a character at a time, under    *)
(* g_lock, is what they would write a call at a time, for any number of    *)
(* cores and any size of the UART's FIFO.                                  *)
THEOREM PrintAtomic == Spec => PrintIsAtomic
<1>1. Init => ConsoleInv /\ Pending = [c \in Cores |-> <<>>] /\ Out = <<>>
  <2> SUFFICES ASSUME ConsoleInit PROVE ConsoleInv /\ Pending = [c \in Cores |-> <<>>] /\ Out = <<>>
    BY Zenon DEF Init
  <2>1. <<>> \in Seq(String) /\ <<>> \in String
    BY DEF String
  <2>2. ConsoleInv
    BY <2>1, Zenon DEF ConsoleInit, ConsoleInv
  <2>3. Pending = [c \in Cores |-> <<>>]
    BY Zenon DEF ConsoleInit, Pending
  <2>4. Out = <<>>
    BY Zenon DEF ConsoleInit, Out
  <2> QED BY <2>2, <2>3, <2>4
<1>2. Init => Abstract!Init
  BY <1>1, Zenon DEF Abstract!Init, Pending, Out
<1>3. ConsoleInv /\ BootInv /\ [Next]_vars => ConsoleInv'
  BY ConsoleStep
<1>4. ConsoleInv /\ BootInv /\ [Next]_vars => [Abstract!Next]_<<Pending, Out>>
  <2> SUFFICES ASSUME ConsoleInv, BootInv, [Next]_vars PROVE [Abstract!Next]_<<Pending, Out>>
    OBVIOUS
  <2>1. Atomic
    BY ConsoleStep
  <2>2. ASSUME NEW c \in Cores, AtomicCall(c) PROVE Abstract!Call(c)
    BY <2>2, Zenon DEF AtomicCall, Abstract!Call, Pending, Out
  <2>3. ASSUME NEW c \in Cores, AtomicWrite(c) PROVE Abstract!Write(c)
    BY <2>3, Zenon DEF AtomicWrite, Abstract!Write, Pending, Out
  <2> QED BY <2>1, <2>2, <2>3, Zenon DEF Atomic, Abstract!Next
<1> QED BY <1>1, <1>2, <1>3, <1>4, BootInvariance, PTL DEF Spec, PrintIsAtomic, Abstract!Spec, Pending, Out
=============================================================================
