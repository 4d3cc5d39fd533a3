-------------------------- MODULE DiskReaderProofs --------------------------
(***************************************************************************)
(* RequestInRange, InStep and ReadsRightUntilLate for any number of cores  *)
(* and reads, any disk, and indices of any width.                          *)
(***************************************************************************)
EXTENDS DiskReader, TLAPS

Probing == {"find_device", "features", "features_ok", "queue", "driver_ok"}

Reading == {"rs_lock", "loop", "copy", "rs_unlock"} \cup InReadOne

(* Where a core holds g_lock.                                              *)
Locked == Probing \cup {"probed", "ctor_unlock", "loop", "copy", "rs_unlock"} \cup InReadOne

Types == TypeOK /\ bus \in Buses /\ i \in [Procs -> Nat] /\ DOMAIN buf = Procs

Locking ==
  /\ \A p \in Procs : pc[p] \in Locked => g_lock
  /\ \A p, q \in Procs : pc[p] \in Locked /\ pc[q] \in Locked => p = q

(* One core probes, once, before anyone reads; and only a device that      *)
(* passes every test makes g_valid true.                                   *)
Probe ==
  /\ \A p \in Procs :
       /\ pc[p] \in Probing => ~g_probed /\ ~g_valid /\ ~Live
       /\ pc[p] = "probed" => ~g_probed
       /\ pc[p] \notin Probing \cup {"new", "probed"} => g_probed
       /\ pc[p] \in Reading => g_valid
       /\ pc[p] \in Probing \ {"find_device"} => IsBlock(bus[g_base])
       /\ pc[p] \in {"queue", "driver_ok"} => "features_ok" \in device.status
       /\ pc[p] = "driver_ok" => device.queue_ready
  /\ ~g_probed =>
       /\ g_dma.avail_idx = 0 /\ g_dma.used_idx = 0 /\ g_last_used = 0 /\ device.seen = 0 /\ device.at = "idle"
       /\ ~g_lock => ~g_valid /\ ~Live
  /\ g_valid =>
       /\ Live /\ "features_ok" \in device.status /\ device.queue_ready
       /\ IsBlock(bus[g_base]) /\ g_capacity = capacity

(* Whatever the device has taken, or may yet take, is on the disk.         *)
InRange ==
  /\ \A p \in Procs :
       /\ pc[p] \in Reading => args[p].lba + args[p].count <= capacity
       /\ pc[p] \in InReadOne \cup {"copy"} => i[p] < args[p].count
       /\ pc[p] \in {"status", "publish"} => g_dma.header < capacity
  /\ device.seen # g_dma.avail_idx => g_dma.header < capacity
  /\ device.at # "idle" => device.sector < capacity

(* Until a read times out: the rings between requests, and during one,     *)
(* which the device has yet to take, is working on, or has done.           *)
Rings ==
  ~late =>
    /\ (\A p \in Procs : pc[p] # "poll") =>
         /\ g_dma.avail_idx = g_last_used /\ g_dma.used_idx = g_last_used
         /\ device.seen = g_last_used /\ device.at = "idle"
    /\ \A p \in Procs : pc[p] = "poll" =>
         /\ g_dma.avail_idx = Idx(g_last_used + 1)
         /\ \/ device.seen = g_last_used /\ device.at = "idle" /\ g_dma.used_idx = g_last_used
            \/ device.seen = g_dma.avail_idx /\ device.at # "idle" /\ g_dma.used_idx = g_last_used
            \/ device.seen = g_dma.avail_idx /\ device.at = "idle" /\ g_dma.used_idx = g_dma.avail_idx

(* ... and the sector that is on its way, and those that are in the        *)
(* buffers, are the ones that were asked for.                              *)
InFlight ==
  /\ device.at # "idle" => device.sector = g_dma.header
  /\ device.at = "data" => g_dma.data = device.sector
  /\ device.at = "status" /\ g_dma.status = "ok" => g_dma.data = device.sector

Wanted(p) ==
  /\ pc[p] \in {"status", "publish", "poll"} => g_dma.header = args[p].lba + i[p]
  /\ pc[p] = "poll" /\ device.at = "idle" /\ Used /\ g_dma.status = "ok" => g_dma.data = args[p].lba + i[p]
  /\ pc[p] = "answer" /\ g_dma.status = "ok" => g_dma.data = args[p].lba + i[p]
  /\ pc[p] = "copy" => g_dma.data = args[p].lba + i[p]
  /\ \A j \in 0 .. i[p] - 1 : buf[p][j] = args[p].lba + j
  /\ pc[p] \in {"rs_unlock", "return"} /\ ok[p] => i[p] = args[p].count

Content == ~late => InFlight /\ \A p \in Procs : Wanted(p)

DiskInv == Types /\ Locking /\ Probe /\ InRange /\ Rings /\ Content

(* The address of a sector below the capacity does not wrap. *)
LEMMA AddressFits ==
  ASSUME NEW a \in Nat, NEW n \in Nat, NEW k \in Nat, a + n <= capacity, k < n,
         capacity \in Nat, capacity <= LbaRange - 1, LbaRange \in Nat
  PROVE  (a + k) % LbaRange = a + k
<1>1. a + k \in Nat /\ a + k < LbaRange
  OBVIOUS
<1> QED BY <1>1

(* Indices stay in range, and so does the capacity: two registers make an  *)
(* lba.                                                                    *)
LEMMA Numbers ==
  /\ IdxRange \in Nat \ {0} /\ LbaRange \in Nat \ {0} /\ 0 \in Lbas
  /\ \A n \in 0 .. IdxRange - 1 : Idx(n + 1) \in 0 .. IdxRange - 1
  /\ Types => capacity \in Lbas
  /\ Lbas \subseteq Nat
  /\ Types => \A p \in Procs :
       args[p].lba \in Nat /\ args[p].count \in Nat /\ i[p] \in Nat /\ i[p] <= args[p].count
<1>1. IdxRange \in Nat \ {0} /\ RegRange \in Nat \ {0}
  BY DiskAssumption, Zenon
<1>2. LbaRange \in Nat \ {0}
  BY <1>1 DEF LbaRange
<1>3. 0 \in Lbas
  BY <1>2 DEF Lbas
<1>4. \A n \in 0 .. IdxRange - 1 : Idx(n + 1) \in 0 .. IdxRange - 1
  BY <1>1 DEF Idx
<1>5. ASSUME Types PROVE capacity \in Lbas
  <2>1. bus[g_base] \in Slot
    BY <1>5, DiskAssumption DEF Types, TypeOK
  <2>2. bus[g_base].config[1] \in Register /\ bus[g_base].config[2] \in Register
    BY <2>1 DEF Slot
  <2>3. ASSUME NEW low \in Register, NEW high \in Register PROVE low + high * RegRange \in Lbas
    <3>1. low \in Nat /\ high \in Nat /\ low <= RegRange - 1 /\ high <= RegRange - 1
      BY <1>1 DEF Register
    <3>2. high * RegRange <= (RegRange - 1) * RegRange /\ high * RegRange \in Nat
      BY <1>1, <3>1
    <3>3. (RegRange - 1) * RegRange = LbaRange - RegRange
      BY <1>1 DEF LbaRange
    <3> QED BY <1>1, <1>2, <3>1, <3>2, <3>3 DEF Lbas
  <2> QED BY <2>2, <2>3, Zenon DEF capacity
<1>6. Lbas \subseteq Nat
  BY <1>2 DEF Lbas
<1>7. ASSUME Types, NEW p \in Procs
      PROVE  args[p].lba \in Nat /\ args[p].count \in Nat /\ i[p] \in Nat /\ i[p] <= args[p].count
  <2>1. args[p].lba \in Lbas /\ args[p].count \in Counts \cup {0}
    BY <1>7, Zenon DEF Types, TypeOK
  <2>2. args[p].lba \in Nat /\ args[p].count \in Nat
    <3>1. Counts \subseteq Nat /\ 0 \in Nat
      BY <1>6, DiskAssumption, Zenon
    <3> QED BY <1>6, <2>1, <3>1, ZenonT(60)
  <2> QED BY <1>7, <2>2 DEF Types, TypeOK
<1> QED BY <1>1, <1>2, <1>3, <1>4, <1>5, <1>6, <1>7, Zenon

(* Intervals, as the loop of read_sectors() goes round.                    *)
LEMMA Intervals ==
  ASSUME NEW n \in Nat
  PROVE  /\ 0 \in 0 .. n /\ n + 1 \in Nat /\ 0 .. n = 0 .. (n + 1) - 1
         /\ \A m \in Nat : n < m => n + 1 \in 0 .. m
         /\ \A m \in Nat : n <= m /\ ~(n < m) => n = m
         /\ \A j \in 0 .. (n + 1) - 1 : j = n \/ j \in 0 .. n - 1
OBVIOUS

(* A core that moves to where the lock is held only from where it is held. *)
LEMMA StaysLocked ==
  ASSUME Locking, pc \in [Procs -> Labels], NEW p \in Procs, NEW to,
         pc' = [pc EXCEPT ![p] = to], g_lock' = g_lock, to \in Locked => pc[p] \in Locked
  PROVE  Locking'
BY Zenon DEF Locking

(* A step that leaves the device and the shared memory alone.              *)
LEMMA TypesKept ==
  ASSUME Types, UNCHANGED <<g_valid, g_base, g_capacity, bus, g_dma, device>>,
         g_lock' \in BOOLEAN, g_probed' \in BOOLEAN, late' \in BOOLEAN, g_last_used' \in 0 .. IdxRange - 1,
         pc' \in [Procs -> Labels], ok' \in [Procs -> BOOLEAN], reads' \in 0 .. MaxReads,
         args' \in [Procs -> [lba : Lbas, count : Counts \cup {0}]], i' \in [Procs -> Nat], DOMAIN buf' = Procs,
         \A q \in Procs : i'[q] \in 0 .. args'[q].count /\ DOMAIN buf'[q] = 0 .. i'[q] - 1
  PROVE  Types'
BY ZenonT(60) DEF Types, TypeOK

(* ... and whose core only moves, takes or gives back the lock.            *)
LEMMA TypesMove ==
  ASSUME Types, NEW p \in Procs, NEW to \in Labels, pc' = [pc EXCEPT ![p] = to],
         UNCHANGED <<g_valid, g_base, g_capacity, g_last_used, bus, g_dma, device, args, i, buf, reads>>,
         g_lock' \in BOOLEAN, g_probed' \in BOOLEAN, late' \in BOOLEAN, ok' \in [Procs -> BOOLEAN]
  PROVE  Types'
<1>1. /\ pc \in [Procs -> Labels] /\ args \in [Procs -> [lba : Lbas, count : Counts \cup {0}]]
      /\ i \in [Procs -> Nat] /\ DOMAIN buf = Procs /\ g_last_used \in 0 .. IdxRange - 1 /\ reads \in 0 .. MaxReads
      /\ \A q \in Procs : i[q] \in 0 .. args[q].count /\ DOMAIN buf[q] = 0 .. i[q] - 1
  BY ZenonT(60) DEF Types, TypeOK
<1>2. pc' \in [Procs -> Labels]
  BY <1>1, Zenon
<1> QED BY <1>1, <1>2, TypesKept, ZenonT(60)

(* A core that only moves, and not to where something is asked of it.      *)
LEMMA OnlyMoves ==
  ASSUME Content, pc \in [Procs -> Labels], NEW p \in Procs, NEW to,
         pc' = [pc EXCEPT ![p] = to], UNCHANGED <<g_dma, device, g_last_used, late, args, i, ok, buf>>,
         to \notin {"status", "publish", "poll", "answer", "copy", "rs_unlock", "return"}
  PROVE  Content'
<1> SUFFICES ASSUME ~late PROVE InFlight' /\ \A q \in Procs : Wanted(q)'
  BY Zenon DEF Content
<1>1. InFlight'
  BY Zenon DEF Content, InFlight
<1>2. ASSUME NEW q \in Procs PROVE Wanted(q)'
  <2>1. Wanted(q) /\ pc'[q] = IF q = p THEN to ELSE pc[q]
    BY Zenon DEF Content
  <2> QED BY <2>1, Zenon DEF Wanted, Used
<1> QED BY <1>1, <1>2, Zenon

(* What the core that has the lock does is nothing to another.             *)
LEMMA OthersWanted ==
  ASSUME Locking, NEW p \in Procs, NEW q \in Procs, q # p, pc[p] \in Locked, Wanted(q),
         pc'[q] = pc[q], args'[q] = args[q], i'[q] = i[q], ok'[q] = ok[q], buf'[q] = buf[q]
  PROVE  Wanted(q)'
<1>1. pc[q] \notin Locked
  BY Zenon DEF Locking
<1>2. pc[q] \notin {"status", "publish", "poll", "answer", "copy", "rs_unlock"}
  BY <1>1, Zenon DEF Locked, InReadOne
<1> QED BY <1>2, Zenon DEF Wanted

DeviceStates ==
  [status : SUBSET {"acknowledge", "driver", "features_ok", "driver_ok"}, queue_ready : BOOLEAN,
   seen : 0 .. IdxRange - 1, at : {"idle", "took", "data", "status"}, sector : Lbas]

(* What the steps of init_device() that may fail have in common.           *)
LEMMA InitDevice ==
  ASSUME DiskInv, NEW p \in Procs, NEW to \in Probing \cup {"probed"},
         pc[p] \in Probing, pc' = [pc EXCEPT ![p] = to], ~g_valid',
         UNCHANGED <<g_lock, g_probed, g_capacity, g_last_used, bus, g_dma, args, i, ok, buf, reads, late>>,
         g_valid' \in BOOLEAN, g_base' \in DOMAIN bus,
         device' \in DeviceStates, device'.seen = 0, device'.at = "idle", "driver_ok" \notin device'.status,
         to \in Probing \ {"find_device"} => IsBlock(bus[g_base']),
         to \in {"queue", "driver_ok"} => "features_ok" \in device'.status,
         to = "driver_ok" => device'.queue_ready
  PROVE  DiskInv'
<1> USE DEF DiskInv
<1>0. pc \in [Procs -> Labels] /\ to \in Labels /\ to \in Locked /\ pc[p] \in Locked /\ to \notin Reading
  BY Zenon DEF Types, TypeOK, Labels, Locked, Probing, Reading, InReadOne
<1>1. Types'
  BY <1>0, Zenon DEF Types, TypeOK, DeviceStates
<1>2. Locking'
  BY <1>0, StaysLocked, ZenonT(60)
<1>3. ~g_probed /\ ~g_valid /\ \A q \in Procs : pc[q] \notin Reading
  BY Zenon DEF Probe
<1>4. \A q \in Procs : pc'[q] \notin Reading
  BY <1>0, <1>3, Zenon
<1>5. g_dma.avail_idx = 0 /\ g_dma.used_idx = 0 /\ g_last_used = 0
  BY <1>3, Zenon DEF Probe
<1>6. Probe'
  <2>1. ASSUME NEW q \in Procs, q # p PROVE pc'[q] = pc[q] /\ pc[q] \notin Locked
    BY <1>0, <2>1, Zenon DEF Locking
  <2>2. ASSUME NEW q \in Procs, q # p PROVE pc[q] \notin Probing \cup {"new", "probed"} => g_probed
    BY Zenon DEF Probe
  <2>3. g_lock
    BY <1>0, Zenon DEF Locking
  <2>4. pc'[p] = to
    BY <1>0, Zenon
  <2> QED BY <1>0, <1>3, <1>4, <1>5, <2>1, <2>2, <2>3, <2>4 DEF Probe, Live, Locked
<1>7. InRange'
  BY <1>4, <1>5, Zenon DEF InRange, Reading, InReadOne
<1>8. Rings'
  BY <1>4, <1>5, Zenon DEF Rings, Reading, InReadOne
<1>9. Content'
  <2> SUFFICES ASSUME ~late PROVE InFlight' /\ \A q \in Procs : Wanted(q)'
    BY Zenon DEF Content
  <2>1. InFlight'
    BY Zenon DEF InFlight
  <2>2. \A q \in Procs : q # p => Wanted(q)'
    BY <1>0, OthersWanted, Zenon DEF Content
  <2>3. Wanted(p)'
    <3>1. Wanted(p) /\ pc'[p] = to /\ to \notin {"status", "publish", "poll", "answer", "copy", "rs_unlock", "return"}
      BY <1>0, Zenon DEF Content, Probing
    <3> QED BY <3>1, Zenon DEF Wanted
  <2> QED BY <2>1, <2>2, <2>3, Zenon
<1> QED BY <1>1, <1>2, <1>6, <1>7, <1>8, <1>9, Zenon

(* DiskReader() keeps the invariant.                                       *)
LEMMA ProbeKeeps ==
  ASSUME DiskInv, NEW p \in Procs,
         \/ CtorLock(p) \/ find_device(p) \/ Features(p) \/ FeaturesOk(p) \/ Queue(p) \/ DriverOk(p)
         \/ SetProbed(p) \/ CtorUnlock(p)
  PROVE  DiskInv'
<1> USE DEF DiskInv, Goto, driver, local
<1>0. /\ pc \in [Procs -> Labels] /\ ok \in [Procs -> BOOLEAN]
      /\ g_lock \in BOOLEAN /\ g_probed \in BOOLEAN /\ late \in BOOLEAN
  BY Zenon DEF Types, TypeOK
<1>1. CASE CtorLock(p)
  <2>1. Types'
    BY <1>0, <1>1, TypesMove, ZenonT(60) DEF CtorLock, Lock, Labels, InReadOne
  <2>2. Locking'
    BY <1>0, <1>1, ZenonT(40) DEF CtorLock, Lock, Locking, Locked, Probing, InReadOne
  <2>3. Probe'
    BY <1>0, <1>1, ZenonT(40) DEF CtorLock, Lock, Probe, Live, capacity, Probing, Reading, InReadOne
  <2>4. InRange'
    BY <1>0, <1>1, Zenon DEF CtorLock, Lock, InRange, capacity, Reading, InReadOne
  <2>5. Rings'
    BY <1>0, <1>1, Zenon DEF CtorLock, Lock, Rings
  <2>6. Content'
    BY <1>0, <1>1, OnlyMoves, ZenonT(60) DEF CtorLock, Lock
  <2> QED BY <2>1, <2>2, <2>3, <2>4, <2>5, <2>6, Zenon
<1>a. ASSUME pc[p] \in Probing
      PROVE  /\ ~g_valid /\ g_valid \in BOOLEAN /\ "driver_ok" \notin device.status /\ ~g_probed
             /\ device.seen = 0 /\ device.at = "idle" /\ g_base \in DOMAIN bus
  BY <1>a, Zenon DEF Probe, Types, TypeOK, Live
<1>2. CASE find_device(p)
  <2>1. pc[p] \in Probing
    BY <1>2, Zenon DEF find_device, InitReturns, Probing
  <2>2. CASE \E n \in DOMAIN bus : IsBlock(bus[n]) /\ pc' = [pc EXCEPT ![p] = "features"] /\ g_base' = n
                 /\ device' = [status |-> {"acknowledge", "driver"}, queue_ready |-> FALSE,
                               seen |-> 0, at |-> "idle", sector |-> 0] /\ g_valid' = g_valid
    <3>1. "features" \in Probing /\ "features" \notin {"queue", "driver_ok", "find_device"}
      BY Zenon DEF Probing
    <3>2. device' \in DeviceStates
      BY <2>2, Numbers DEF DeviceStates
    <3>3. UNCHANGED <<g_lock, g_probed, g_capacity, g_last_used, bus, g_dma, args, i, ok, buf, reads, late>>
      BY <1>2, Zenon DEF find_device
    <3>4. IsBlock(bus[g_base']) /\ g_base' \in DOMAIN bus /\ pc' = [pc EXCEPT ![p] = "features"] /\ ~g_valid' /\ g_valid' \in BOOLEAN
      <4>1. IsBlock(bus[g_base']) /\ g_base' \in DOMAIN bus /\ pc' = [pc EXCEPT ![p] = "features"] /\ g_valid' = g_valid
        BY <2>2, Zenon
      <4> QED BY <1>a, <2>1, <4>1, Zenon
    <3>5. device'.seen = 0 /\ device'.at = "idle" /\ "driver_ok" \notin device'.status
      BY <2>2
    <3> QED BY <2>1, <3>1, <3>2, <3>3, <3>4, <3>5, InitDevice, ZenonT(60)
  <2>3. CASE pc' = [pc EXCEPT ![p] = "probed"] /\ g_valid' = FALSE /\ g_base' = Len(bus) /\ device' = device
    <3>1. Len(bus) \in DOMAIN bus /\ "probed" \notin Probing
      BY DiskAssumption DEF Types, Probing
    <3> QED BY <1>2, <1>a, <2>1, <2>3, <3>1, InitDevice, ZenonT(60) DEF find_device, Types, TypeOK, DeviceStates, Probing
  <2> QED BY <1>2, <2>2, <2>3, ZenonT(60) DEF find_device, InitReturns
<1>3. CASE Features(p)
  <2>1. pc[p] = "features" /\ pc[p] \in Probing
    BY <1>3, Zenon DEF Features, Require, InitReturns, Probing
  <2>2. device' \in DeviceStates /\ device'.seen = 0 /\ device'.at = "idle" /\ "driver_ok" \notin device'.status
    <3> DEFINE agreed == IF bus[g_base].agrees THEN {"features_ok"} ELSE {}
    <3>1. agreed \subseteq {"features_ok"}
      OBVIOUS
    <3>2. device' = device \/ device' = [device EXCEPT !.status = @ \cup agreed]
      BY <1>3, ZenonT(60) DEF Features, Require
    <3> HIDE DEF agreed
    <3>3. device \in DeviceStates
      BY ZenonT(60) DEF Types, TypeOK, DeviceStates
    <3>4. /\ device.status \cup agreed \in SUBSET {"acknowledge", "driver", "features_ok", "driver_ok"}
          /\ "driver_ok" \notin device.status \cup agreed
      BY <1>a, <2>1, <3>1, <3>3, ZenonT(60) DEF DeviceStates
    <3> QED BY <1>a, <2>1, <3>2, <3>3, <3>4, ZenonT(40) DEF DeviceStates
  <2>3. IsBlock(bus[g_base])
    BY <2>1, Zenon DEF Probe, Probing
  <2>4. UNCHANGED <<g_lock, g_probed, g_base, g_capacity, g_last_used, bus, g_dma, args, i, ok, buf, reads, late>>
    BY <1>3, Zenon DEF Features, Require
  <2>5. CASE pc' = [pc EXCEPT ![p] = "features_ok"] /\ g_valid' = g_valid
    BY <1>a, <2>1, <2>2, <2>3, <2>4, <2>5, InitDevice, ZenonT(60) DEF Probing
  <2>6. CASE pc' = [pc EXCEPT ![p] = "probed"] /\ g_valid' = FALSE
    BY <1>a, <2>1, <2>2, <2>3, <2>4, <2>6, InitDevice, ZenonT(60) DEF Probing
  <2> QED BY <1>3, <1>a, <2>1, <2>2, <2>3, <2>5, <2>6, ZenonT(60) DEF Features, Require, InitReturns
<1>4. CASE FeaturesOk(p)
  <2>1. pc[p] = "features_ok" /\ pc[p] \in Probing
    BY <1>4, Zenon DEF FeaturesOk, Require, InitReturns, Probing
  <2>2. device' \in DeviceStates /\ device'.seen = 0 /\ device'.at = "idle" /\ "driver_ok" \notin device'.status
    BY <1>4, <1>a, <2>1, ZenonT(60) DEF FeaturesOk, Require, Types, TypeOK, DeviceStates
  <2>3. IsBlock(bus[g_base])
    BY <2>1, Zenon DEF Probe, Probing
  <2>4. UNCHANGED <<g_lock, g_probed, g_base, g_capacity, g_last_used, bus, g_dma, args, i, ok, buf, reads, late>>
    BY <1>4, Zenon DEF FeaturesOk, Require
  <2>5. CASE pc' = [pc EXCEPT ![p] = "queue"] /\ g_valid' = g_valid /\ "features_ok" \in device'.status
    BY <1>a, <2>1, <2>2, <2>3, <2>4, <2>5, InitDevice, ZenonT(60) DEF Probing
  <2>6. CASE pc' = [pc EXCEPT ![p] = "probed"] /\ g_valid' = FALSE
    BY <1>a, <2>1, <2>2, <2>3, <2>4, <2>6, InitDevice, ZenonT(60) DEF Probing
  <2> QED BY <1>4, <1>a, <2>1, <2>2, <2>3, <2>5, <2>6, ZenonT(60) DEF FeaturesOk, Require, InitReturns
<1>5. CASE Queue(p)
  <2>1. pc[p] = "queue" /\ pc[p] \in Probing
    BY <1>5, Zenon DEF Queue, Require, InitReturns, Probing
  <2>2. device' \in DeviceStates /\ device'.seen = 0 /\ device'.at = "idle" /\ "driver_ok" \notin device'.status
    BY <1>5, <1>a, <2>1, ZenonT(60) DEF Queue, Require, Types, TypeOK, DeviceStates
  <2>3. IsBlock(bus[g_base]) /\ "features_ok" \in device.status
    BY <2>1, Zenon DEF Probe, Probing
  <2>4. UNCHANGED <<g_lock, g_probed, g_base, g_capacity, g_last_used, bus, g_dma, args, i, ok, buf, reads, late>>
    BY <1>5, Zenon DEF Queue, Require
  <2>5. CASE pc' = [pc EXCEPT ![p] = "driver_ok"] /\ g_valid' = g_valid /\ "features_ok" \in device'.status /\ device'.queue_ready
    BY <1>a, <2>1, <2>2, <2>3, <2>4, <2>5, InitDevice, ZenonT(60) DEF Probing
  <2>6. CASE pc' = [pc EXCEPT ![p] = "probed"] /\ g_valid' = FALSE
    BY <1>a, <2>1, <2>2, <2>3, <2>4, <2>6, InitDevice, ZenonT(60) DEF Probing
  <2> QED BY <1>5, <1>a, <2>1, <2>2, <2>3, <2>5, <2>6, ZenonT(60) DEF Queue, Require, InitReturns, Types, TypeOK
<1>6. CASE DriverOk(p)
  <2>a. /\ pc[p] \in Locked
        /\ \A q \in Procs : q # p =>
             pc'[q] = pc[q] /\ args'[q] = args[q] /\ i'[q] = i[q] /\ ok'[q] = ok[q] /\ buf'[q] = buf[q]
    BY <1>0, <1>6, Zenon DEF DriverOk, InitReturns, Types, TypeOK, Locked, InReadOne, Probing
  <2>1. Types'
    BY <1>6, Numbers, ZenonT(60) DEF DriverOk, InitReturns, Types, TypeOK, Labels, InReadOne
  <2>2. Locking'
    BY <1>0, <1>6, StaysLocked, ZenonT(60) DEF DriverOk, InitReturns, Locked, Probing, InReadOne
  <2>3. Probe'
    BY <1>6, Numbers, ZenonT(40) DEF DriverOk, InitReturns, Types, TypeOK, Locking, Probe, Live, capacity, Locked, Probing, Reading, InReadOne
  <2>4. InRange'
    BY <1>6, Numbers DEF DriverOk, InitReturns, Types, TypeOK, Locking, Probe, InRange, capacity, Locked, Probing, Reading, InReadOne
  <2>5. Rings'
    BY <1>6, Numbers DEF DriverOk, InitReturns, Types, TypeOK, Locking, Probe, Rings, Locked, Probing, Reading, InReadOne
  <2>6. Content'
    <3> SUFFICES ASSUME ~late' PROVE InFlight' /\ \A q \in Procs : Wanted(q)'
      BY Zenon DEF Content
    <3>1. InFlight'
      BY <1>6, Zenon DEF DriverOk, Content, InFlight, Types, TypeOK
    <3>2. \A q \in Procs : q # p => Wanted(q)'
      BY <1>0, <1>6, <2>a, OthersWanted, Zenon DEF DriverOk, InitReturns, Content, Types, TypeOK
    <3>3. Wanted(p)'
      BY <1>0, <1>6, Zenon DEF DriverOk, InitReturns, Content, Wanted
    <3> QED BY <3>1, <3>2, <3>3, Zenon
  <2> QED BY <2>1, <2>2, <2>3, <2>4, <2>5, <2>6, Zenon
<1>7. CASE SetProbed(p)
  <2>a. pc'[p] = "ctor_unlock" /\ \A q \in Procs : q # p => pc'[q] = pc[q] /\ pc[q] \notin Locked
    BY <1>0, <1>7, Zenon DEF SetProbed, Locking, Locked, Probing, InReadOne
  <2>1. Types'
    BY <1>0, <1>7, TypesMove, ZenonT(60) DEF SetProbed, Labels, InReadOne
  <2>2. Locking'
    BY <1>0, <1>7, StaysLocked, ZenonT(60) DEF SetProbed, Locked, Probing, InReadOne
  <2>3. Probe'
    BY <1>7, <2>a, ZenonT(60) DEF SetProbed, Probe, Live, capacity, Locked, Probing, Reading, InReadOne
  <2>4. InRange'
    BY <1>0, <1>7, Zenon DEF SetProbed, InRange, capacity, Reading, InReadOne
  <2>5. Rings'
    BY <1>0, <1>7, Zenon DEF SetProbed, Rings
  <2>6. Content'
    BY <1>0, <1>7, OnlyMoves, ZenonT(60) DEF SetProbed
  <2> QED BY <2>1, <2>2, <2>3, <2>4, <2>5, <2>6, Zenon
<1>8. CASE CtorUnlock(p)
  <2>a. pc'[p] = "ready" /\ \A q \in Procs : q # p => pc'[q] = pc[q] /\ pc[q] \notin Locked
    BY <1>0, <1>8, Zenon DEF CtorUnlock, Locking, Locked, Probing, InReadOne
  <2>1. Types'
    BY <1>0, <1>8, TypesMove, ZenonT(60) DEF CtorUnlock, Labels, InReadOne
  <2>2. Locking'
    BY <1>0, <1>8, Zenon DEF CtorUnlock, Locking, Locked, Probing, InReadOne
  <2>3. Probe'
    BY <1>8, <2>a, ZenonT(60) DEF CtorUnlock, Probe, Live, capacity, Locked, Probing, Reading, InReadOne
  <2>4. InRange'
    BY <1>0, <1>8, Zenon DEF CtorUnlock, InRange, capacity, Reading, InReadOne
  <2>5. Rings'
    BY <1>0, <1>8, Zenon DEF CtorUnlock, Rings
  <2>6. Content'
    BY <1>0, <1>8, OnlyMoves, ZenonT(60) DEF CtorUnlock
  <2> QED BY <2>1, <2>2, <2>3, <2>4, <2>5, <2>6, Zenon
<1> QED BY <1>1, <1>2, <1>3, <1>4, <1>5, <1>6, <1>7, <1>8, Zenon

(* read_sectors() keeps the invariant.                                     *)
LEMMA ReadKeeps ==
  ASSUME DiskInv, NEW p \in Procs,
         \/ \E lba \in Lbas, count \in Counts : ReadCall(p, lba, count)
         \/ ReadLock(p) \/ Loop(p) \/ Copy(p) \/ ReadUnlock(p) \/ ReadReturn(p)
  PROVE  DiskInv'
<1> USE DEF DiskInv, Goto, driver, local
<1>0. /\ pc \in [Procs -> Labels] /\ ok \in [Procs -> BOOLEAN]
      /\ g_lock \in BOOLEAN /\ g_probed \in BOOLEAN /\ late \in BOOLEAN
  BY ZenonT(60) DEF Types, TypeOK
<1>t. /\ g_last_used \in 0 .. IdxRange - 1 /\ reads \in 0 .. MaxReads
      /\ args \in [Procs -> [lba : Lbas, count : Counts \cup {0}]] /\ i \in [Procs -> Nat] /\ DOMAIN buf = Procs
      /\ \A q \in Procs : i[q] \in 0 .. args[q].count /\ DOMAIN buf[q] = 0 .. i[q] - 1
  BY ZenonT(60) DEF Types, TypeOK
<1>1. CASE \E lba \in Lbas, count \in Counts : ReadCall(p, lba, count)
  <2> PICK lba \in Lbas, count \in Counts : ReadCall(p, lba, count)
    BY <1>1, Zenon
  <2> DEFINE to == IF InDisk(lba, count) THEN "rs_lock" ELSE "return"
  <2>a. /\ pc[p] = "ready" /\ pc' = [pc EXCEPT ![p] = to]
        /\ args' = [args EXCEPT ![p] = [lba |-> lba, count |-> count]]
        /\ buf' = [buf EXCEPT ![p] = <<>>] /\ i' = [i EXCEPT ![p] = 0]
        /\ ok' = [ok EXCEPT ![p] = InDisk(lba, count)]
        /\ reads < MaxReads /\ reads' = reads + 1
    BY Zenon DEF ReadCall
  <2>b. UNCHANGED <<g_lock, driver, g_dma, device, late>>
    BY Zenon DEF ReadCall
  <2>c. to \in {"rs_lock", "return"} /\ (to = "rs_lock" <=> InDisk(lba, count)) /\ InDisk(lba, count) \in BOOLEAN
    BY Zenon DEF InDisk, Types, TypeOK
  <2>d. InDisk(lba, count) => g_valid /\ lba + count <= capacity
    <3>1. lba \in Nat /\ count \in Nat /\ g_capacity \in Nat
      BY DiskAssumption, Numbers, ZenonT(60) DEF Types, TypeOK
    <3>2. g_valid => g_capacity = capacity
      BY ZenonT(60) DEF Probe
    <3> QED BY <3>1, <3>2 DEF InDisk
  <2> HIDE DEF to
  <2>e. to \in Labels /\ to \notin Locked /\ to \notin InReadOne /\ to \notin Probing /\ (to \in Reading <=> to = "rs_lock")
    BY <2>c, Zenon DEF Labels, Locked, Probing, Reading, InReadOne
  <2>f. pc'[p] = to /\ \A q \in Procs : q # p => pc'[q] = pc[q]
    BY <1>0, <2>a, Zenon
  <2>g. args'[p].lba = lba /\ args'[p].count = count /\ \A q \in Procs : q # p => args'[q] = args[q]
    BY <2>a, Zenon DEF Types, TypeOK
  <2>h. i'[p] = 0 /\ buf'[p] = <<>> /\ ok'[p] = InDisk(lba, count)
        /\ \A q \in Procs : q # p => i'[q] = i[q] /\ buf'[q] = buf[q] /\ ok'[q] = ok[q]
    BY <2>a, Zenon DEF Types, TypeOK
  <2>1. Types'
    <3>1. DOMAIN <<>> = 0 .. 0 - 1
      OBVIOUS
    <3>2. count \in Nat /\ reads' \in 0 .. MaxReads
      BY <1>t, <2>a, DiskAssumption DEF Lbas
    <3>3. \A q \in Procs : i'[q] \in 0 .. args'[q].count /\ DOMAIN buf'[q] = 0 .. i'[q] - 1
      <4>1. i'[p] \in 0 .. args'[p].count /\ DOMAIN buf'[p] = 0 .. i'[p] - 1
        BY <2>g, <2>h, <3>1, <3>2, Intervals, ZenonT(60)
      <4>2. ASSUME NEW q \in Procs, q # p PROVE i'[q] \in 0 .. args'[q].count /\ DOMAIN buf'[q] = 0 .. i'[q] - 1
        BY <1>t, <2>g, <2>h, <4>2, ZenonT(60)
      <4> QED BY <4>1, <4>2, Zenon
    <3>4. /\ pc' \in [Procs -> Labels] /\ ok' \in [Procs -> BOOLEAN] /\ i' \in [Procs -> Nat] /\ DOMAIN buf' = Procs
          /\ args' \in [Procs -> [lba : Lbas, count : Counts \cup {0}]]
      BY <1>0, <1>t, <2>a, <2>c, <2>e, Zenon
    <3> QED BY <1>0, <1>t, <2>b, <3>2, <3>3, <3>4, TypesKept, ZenonT(60)
  <2>2. Locking'
    BY <1>0, <2>a, <2>b, <2>e, StaysLocked, ZenonT(60)
  <2>3. Probe'
    BY <2>a, <2>b, <2>c, <2>d, <2>e, <2>f, ZenonT(60) DEF Probe, Live, capacity, Probing
  <2>4. InRange'
    BY <2>b, <2>c, <2>d, <2>e, <2>f, <2>g, <2>h, ZenonT(60) DEF InRange, capacity, InReadOne
  <2>5. Rings'
    BY <2>a, <2>b, <2>c, <2>f, Zenon DEF Rings
  <2>6. Content'
    <3> SUFFICES ASSUME ~late PROVE InFlight' /\ \A q \in Procs : Wanted(q)'
      BY <2>b, Zenon DEF Content
    <3>1. InFlight'
      BY <2>b, ZenonT(60) DEF Content, InFlight
    <3>2. ASSUME NEW q \in Procs, q # p PROVE Wanted(q)'
      <4>1. Wanted(q) /\ pc'[q] = pc[q] /\ args'[q] = args[q] /\ i'[q] = i[q] /\ ok'[q] = ok[q] /\ buf'[q] = buf[q]
        BY <2>f, <2>g, <2>h, <3>2, ZenonT(60) DEF Content
      <4>2. g_dma' = g_dma /\ device' = device /\ g_last_used' = g_last_used
        BY <2>b, Zenon
      <4> QED BY <4>1, <4>2, ZenonT(60) DEF Wanted, Used
    <3>3. Wanted(p)'
      <4>1. \A j : j \notin 0 .. 0 - 1
        OBVIOUS
      <4> QED BY <2>c, <2>f, <2>h, <4>1, ZenonT(60) DEF Wanted
    <3> QED BY <3>1, <3>2, <3>3, Zenon
  <2> QED BY <2>1, <2>2, <2>3, <2>4, <2>5, <2>6, Zenon
<1>2. CASE ReadLock(p)
  <2>1. Types'
    BY <1>0, <1>2, TypesMove, ZenonT(60) DEF ReadLock, Lock, Labels, InReadOne
  <2>2. Locking'
    BY <1>0, <1>2, ZenonT(40) DEF ReadLock, Lock, Locking, Locked, Probing, InReadOne
  <2>3. Probe'
    BY <1>0, <1>2, Zenon DEF ReadLock, Lock, Probe, Live, capacity, Probing, Reading, InReadOne
  <2>4. InRange'
    BY <1>0, <1>2, ZenonT(60) DEF ReadLock, Lock, InRange, capacity, Reading, InReadOne
  <2>5. Rings'
    BY <1>0, <1>2, Zenon DEF ReadLock, Lock, Rings
  <2>6. Content'
    BY <1>0, <1>2, OnlyMoves, ZenonT(60) DEF ReadLock, Lock
  <2> QED BY <2>1, <2>2, <2>3, <2>4, <2>5, <2>6, Zenon
<1>3. CASE Loop(p)
  <2>a. /\ pc[p] \in Locked
        /\ \A q \in Procs : q # p =>
             pc'[q] = pc[q] /\ args'[q] = args[q] /\ i'[q] = i[q] /\ ok'[q] = ok[q] /\ buf'[q] = buf[q]
    BY <1>0, <1>3, ZenonT(60) DEF Loop, Types, TypeOK, Locked, InReadOne
  <2>1. Types'
    BY <1>0, <1>3, TypesMove, ZenonT(60) DEF Loop, Labels, InReadOne
  <2>2. Locking'
    BY <1>0, <1>3, StaysLocked, ZenonT(60) DEF Loop, Locked, Probing, InReadOne
  <2>3. Probe'
    BY <1>0, <1>3, ZenonT(60) DEF Loop, Probe, Live, capacity, Probing, Reading, InReadOne
  <2>4. InRange'
    BY <1>0, <1>3, Zenon DEF Loop, InRange, capacity, Reading, InReadOne
  <2>5. Rings'
    BY <1>0, <1>3, ZenonT(60) DEF Loop, Rings
  <2>6. Content'
    <3> SUFFICES ASSUME ~late' PROVE InFlight' /\ \A q \in Procs : Wanted(q)'
      BY Zenon DEF Content
    <3>1. InFlight'
      BY <1>3, Zenon DEF Loop, Content, InFlight
    <3>2. \A q \in Procs : q # p => Wanted(q)'
      BY <1>0, <1>3, <2>a, OthersWanted, ZenonT(60) DEF Loop, Content
    <3>3. Wanted(p)'
      <4>1. /\ Wanted(p) /\ pc'[p] = IF i[p] < args[p].count /\ ok[p] THEN "header" ELSE "rs_unlock"
            /\ args' = args /\ i' = i /\ ok' = ok /\ buf' = buf
        BY <1>0, <1>3, ZenonT(60) DEF Loop, Content
      <4>2. args[p].count \in Nat /\ i[p] \in Nat /\ i[p] <= args[p].count
        BY Numbers, ZenonT(60)
      <4>3. ~(i[p] < args[p].count) => i[p] = args[p].count
        BY <4>2, Intervals, ZenonT(60)
      <4> QED BY <4>1, <4>3, ZenonT(60) DEF Wanted
    <3> QED BY <3>1, <3>2, <3>3, Zenon
  <2> QED BY <2>1, <2>2, <2>3, <2>4, <2>5, <2>6, Zenon
<1>4. CASE Copy(p)
  <2>a. pc[p] = "copy" /\ pc' = [pc EXCEPT ![p] = "loop"]
    BY <1>4, ZenonT(60) DEF Copy
  <2>b. /\ i' = [i EXCEPT ![p] = i[p] + 1]
        /\ buf' = [buf EXCEPT ![p] = [j \in 0 .. i[p] |-> IF j = i[p] THEN g_dma.data ELSE buf[p][j]]]
    BY <1>4, ZenonT(60) DEF Copy
  <2>c. UNCHANGED <<g_lock, g_probed, g_valid, g_base, g_capacity, g_last_used, bus, g_dma, device, args, ok, reads, late>>
    BY <1>4, ZenonT(60) DEF Copy
  <2>d. /\ pc[p] \in Locked
        /\ \A q \in Procs : q # p =>
             pc'[q] = pc[q] /\ args'[q] = args[q] /\ i'[q] = i[q] /\ ok'[q] = ok[q] /\ buf'[q] = buf[q]
    BY <1>0, <2>a, <2>b, <2>c, Zenon DEF Types, TypeOK, Locked, InReadOne
  <2>1. Types'
    <3>1. i[p] < args[p].count /\ args[p].count \in Nat /\ i[p] \in Nat
      BY <2>a, <2>c, Numbers, ZenonT(60) DEF InRange
    <3>2. i' = [i EXCEPT ![p] = i[p] + 1] /\ DOMAIN buf' = Procs /\ DOMAIN buf'[p] = 0 .. i[p]
      BY <2>b, <2>c, Zenon DEF Types
    <3>3. \A q \in Procs : i'[q] \in 0 .. args[q].count /\ DOMAIN buf'[q] = 0 .. i'[q] - 1
      <4>1. i'[p] \in 0 .. args[p].count /\ DOMAIN buf'[p] = 0 .. i'[p] - 1
        BY <1>t, <3>1, <3>2, Intervals, ZenonT(60)
      <4> QED BY <1>t, <2>d, <4>1, ZenonT(60)
    <3>4. "loop" \in Labels
      BY Zenon DEF Labels
    <3>5. pc' \in [Procs -> Labels] /\ i' \in [Procs -> Nat]
      BY <1>0, <1>t, <2>a, <3>1, <3>2, <3>4, Intervals, ZenonT(60)
    <3> QED BY <1>0, <1>t, <2>c, <3>2, <3>3, <3>5, TypesKept, ZenonT(60)
  <2>2. Locking'
    BY <1>0, <2>a, <2>c, StaysLocked, ZenonT(60) DEF Locked, Probing, InReadOne
  <2>3. Probe'
    BY <1>0, <2>a, <2>c, ZenonT(60) DEF Probe, Live, capacity, Probing, Reading, InReadOne
  <2>4. InRange'
    BY <1>0, <2>a, <2>c, <2>d, Zenon DEF InRange, capacity, Reading, InReadOne
  <2>5. Rings'
    BY <1>0, <2>a, <2>c, Zenon DEF Rings
  <2>6. Content'
    <3> SUFFICES ASSUME ~late' PROVE InFlight' /\ \A q \in Procs : Wanted(q)'
      BY Zenon DEF Content
    <3>1. InFlight'
      BY <2>a, <2>c, ZenonT(60) DEF Content, InFlight
    <3>2. \A q \in Procs : q # p => Wanted(q)'
      BY <1>0, <2>a, <2>c, <2>d, OthersWanted, ZenonT(60) DEF Content
    <3>3. Wanted(p)'
      <4>1. Wanted(p) /\ pc[p] = "copy" /\ pc'[p] = "loop" /\ args' = args
        BY <1>0, <2>a, <2>c, Zenon DEF Content
      <4>2. /\ i[p] \in Nat /\ i'[p] = i[p] + 1 /\ buf'[p][i[p]] = g_dma.data
            /\ \A j \in 0 .. i[p] - 1 : buf'[p][j] = buf[p][j]
        BY <2>b, <2>c DEF Types
      <4>3. \A j \in 0 .. i'[p] - 1 : buf'[p][j] = args'[p].lba + j
        <5>1. g_dma.data = args[p].lba + i[p] /\ \A j \in 0 .. i[p] - 1 : buf[p][j] = args[p].lba + j
          BY <4>1, ZenonT(60) DEF Wanted
        <5>2. ASSUME NEW j \in 0 .. i'[p] - 1 PROVE j = i[p] \/ j \in 0 .. i[p] - 1
          BY <4>2, Intervals, ZenonT(60)
        <5> QED BY <4>1, <4>2, <5>1, <5>2, ZenonT(60)
      <4> QED BY <4>1, <4>3, ZenonT(60) DEF Wanted
    <3> QED BY <3>1, <3>2, <3>3, Zenon
  <2> QED BY <2>1, <2>2, <2>3, <2>4, <2>5, <2>6, Zenon
<1>5. CASE ReadUnlock(p)
  <2>a. /\ pc[p] \in Locked
        /\ \A q \in Procs : q # p =>
             pc'[q] = pc[q] /\ args'[q] = args[q] /\ i'[q] = i[q] /\ ok'[q] = ok[q] /\ buf'[q] = buf[q]
    BY <1>0, <1>5, Zenon DEF ReadUnlock, Types, TypeOK, Locked, InReadOne
  <2>1. Types'
    BY <1>0, <1>5, TypesMove, ZenonT(60) DEF ReadUnlock, Labels, InReadOne
  <2>2. Locking'
    BY <1>0, <1>5, Zenon DEF ReadUnlock, Locking, Locked, Probing, InReadOne
  <2>3. Probe'
    BY <1>0, <1>5, ZenonT(60) DEF ReadUnlock, Probe, Live, capacity, Probing, Reading, InReadOne
  <2>4. InRange'
    BY <1>0, <1>5, ZenonT(60) DEF ReadUnlock, InRange, capacity, Reading, InReadOne
  <2>5. Rings'
    BY <1>0, <1>5, Zenon DEF ReadUnlock, Rings
  <2>6. Content'
    <3> SUFFICES ASSUME ~late' PROVE InFlight' /\ \A q \in Procs : Wanted(q)'
      BY Zenon DEF Content
    <3>1. InFlight'
      BY <1>5, ZenonT(60) DEF ReadUnlock, Content, InFlight
    <3>2. \A q \in Procs : q # p => Wanted(q)'
      BY <1>0, <1>5, <2>a, OthersWanted, ZenonT(60) DEF ReadUnlock, Content
    <3>3. Wanted(p)'
      <4>1. Wanted(p) /\ pc[p] = "rs_unlock" /\ pc'[p] = "return"
        BY <1>0, <1>5, Zenon DEF ReadUnlock, Content
      <4>2. UNCHANGED <<args, i, ok, buf>>
        BY <1>5, Zenon DEF ReadUnlock
      <4> QED BY <4>1, <4>2, ZenonT(60) DEF Wanted
    <3> QED BY <3>1, <3>2, <3>3, Zenon
  <2> QED BY <2>1, <2>2, <2>3, <2>4, <2>5, <2>6, Zenon
<1>6. CASE ReadReturn(p)
  <2>1. Types'
    BY <1>0, <1>6, TypesMove, ZenonT(60) DEF ReadReturn, Labels, InReadOne
  <2>2. Locking'
    BY <1>0, <1>6, ZenonT(40) DEF ReadReturn, Locking, Locked, Probing, InReadOne
  <2>3. Probe'
    BY <1>0, <1>6, ZenonT(60) DEF ReadReturn, Probe, Live, capacity, Probing, Reading, InReadOne
  <2>4. InRange'
    BY <1>0, <1>6, Zenon DEF ReadReturn, InRange, capacity, Reading, InReadOne
  <2>5. Rings'
    BY <1>0, <1>6, Zenon DEF ReadReturn, Rings
  <2>6. Content'
    BY <1>0, <1>6, OnlyMoves, ZenonT(60) DEF ReadReturn
  <2> QED BY <2>1, <2>2, <2>3, <2>4, <2>5, <2>6, Zenon
<1> QED BY <1>1, <1>2, <1>3, <1>4, <1>5, <1>6, Zenon

(* read_one() keeps the invariant.                                         *)
LEMMA RequestKeeps ==
  ASSUME DiskInv, NEW p \in Procs,
         SetHeader(p) \/ SetStatus(p) \/ Publish(p) \/ PollDone(p) \/ PollTimeout(p) \/ Answer(p)
  PROVE  DiskInv'
<1> USE DEF DiskInv, Goto, driver, local
<1>0. /\ pc \in [Procs -> Labels] /\ ok \in [Procs -> BOOLEAN]
      /\ g_lock \in BOOLEAN /\ g_probed \in BOOLEAN /\ late \in BOOLEAN
  BY ZenonT(60) DEF Types, TypeOK
<1>t. /\ g_last_used \in 0 .. IdxRange - 1 /\ reads \in 0 .. MaxReads
      /\ args \in [Procs -> [lba : Lbas, count : Counts \cup {0}]] /\ i \in [Procs -> Nat] /\ DOMAIN buf = Procs
      /\ \A q \in Procs : i[q] \in 0 .. args[q].count /\ DOMAIN buf[q] = 0 .. i[q] - 1
  BY ZenonT(60) DEF Types, TypeOK
<1>1. CASE SetHeader(p)
  <2>a. /\ pc[p] \in Locked
        /\ \A q \in Procs : q # p =>
             pc'[q] = pc[q] /\ args'[q] = args[q] /\ i'[q] = i[q] /\ ok'[q] = ok[q] /\ buf'[q] = buf[q]
    BY <1>0, <1>1, Zenon DEF SetHeader, Types, TypeOK, Locked, InReadOne
  <2>1. Types'
    <3>1. (args[p].lba + i[p]) % LbaRange \in Lbas
      BY Numbers DEF Lbas
    <3>2. "status" \in Labels
      BY Zenon DEF Labels, InReadOne
    <3> QED BY <1>0, <1>1, <3>1, <3>2, ZenonT(60) DEF SetHeader, Types, TypeOK
  <2>2. Locking'
    BY <1>0, <1>1, StaysLocked, ZenonT(60) DEF SetHeader, Locked, Probing, InReadOne
  <2>3. Probe'
    BY <1>0, <1>1, Zenon DEF SetHeader, Probe, Live, capacity, Probing, Reading, InReadOne
  <2>4. InRange'
    <3>1. /\ args[p].lba + args[p].count <= capacity /\ i[p] < args[p].count
          /\ args[p].lba \in Nat /\ args[p].count \in Nat /\ i[p] \in Nat
          /\ capacity \in Nat /\ capacity <= LbaRange - 1 /\ LbaRange \in Nat
      BY <1>1, Numbers DEF SetHeader, InRange, Reading, InReadOne, Lbas
    <3>2. (args[p].lba + i[p]) % LbaRange = args[p].lba + i[p]
      <4> DEFINE a == args[p].lba
                 n == args[p].count
                 k == i[p]
      <4>1. a \in Nat /\ n \in Nat /\ k \in Nat /\ a + n <= capacity /\ k < n
        BY <3>1, Zenon
      <4> HIDE DEF a, n, k
      <4>2. (a + k) % LbaRange = a + k
        BY <3>1, <4>1, AddressFits, ZenonT(40)
      <4> QED BY <4>2, Zenon DEF a, k
    <3>3. g_dma'.header < capacity
      <4>1. g_dma' = [g_dma EXCEPT !.header = (args[p].lba + i[p]) % LbaRange]
        BY <1>1, Zenon DEF SetHeader
      <4>2. g_dma'.header = args[p].lba + i[p]
        BY <3>2, <4>1, Zenon DEF Types, TypeOK
      <4> QED BY <3>1, <4>2
    <3> QED BY <1>0, <1>1, <3>3 DEF SetHeader, InRange, capacity, Reading, InReadOne, Types, TypeOK
  <2>5. Rings'
    BY <1>1, Numbers, ZenonT(60) DEF SetHeader, Types, TypeOK, Locking, Probe, Rings, Locked, Probing, Reading, InReadOne
  <2>6. Content'
    <3> SUFFICES ASSUME ~late' PROVE InFlight' /\ \A q \in Procs : Wanted(q)'
      BY Zenon DEF Content
    <3>1. InFlight'
      <4>1. device.at = "idle"
        BY <1>1, <2>a, Zenon DEF SetHeader, Rings, Locking, Locked, InReadOne
      <4> QED BY <1>1, <4>1, Zenon DEF SetHeader, InFlight
    <3>2. \A q \in Procs : q # p => Wanted(q)'
      BY <1>0, <1>1, <2>a, OthersWanted, Zenon DEF SetHeader, Content, Types, TypeOK
    <3>3. Wanted(p)'
      <4>1. /\ args[p].lba + args[p].count <= capacity /\ i[p] < args[p].count
            /\ args[p].lba \in Nat /\ args[p].count \in Nat /\ i[p] \in Nat
            /\ capacity \in Nat /\ capacity <= LbaRange - 1 /\ LbaRange \in Nat
        BY <1>1, Numbers DEF SetHeader, InRange, Reading, InReadOne, Lbas
      <4>2. (args[p].lba + i[p]) % LbaRange = args[p].lba + i[p]
        BY <4>1
      <4>3. g_dma'.header = args[p].lba + i[p]
        BY <1>1, <4>2, Zenon DEF SetHeader, Types, TypeOK
      <4> QED BY <1>0, <1>1, <4>3, Zenon DEF SetHeader, Content, Wanted
    <3> QED BY <3>1, <3>2, <3>3, Zenon
  <2> QED BY <2>1, <2>2, <2>3, <2>4, <2>5, <2>6, Zenon
<1>2. CASE SetStatus(p)
  <2>a. /\ pc[p] \in Locked
        /\ \A q \in Procs : q # p =>
             pc'[q] = pc[q] /\ args'[q] = args[q] /\ i'[q] = i[q] /\ ok'[q] = ok[q] /\ buf'[q] = buf[q]
    BY <1>0, <1>2, Zenon DEF SetStatus, Types, TypeOK, Locked, InReadOne
  <2>1. Types'
    BY <1>2, Numbers, ZenonT(60) DEF SetStatus, Types, TypeOK, Labels, InReadOne
  <2>2. Locking'
    BY <1>0, <1>2, StaysLocked, ZenonT(60) DEF SetStatus, Locked, Probing, InReadOne
  <2>3. Probe'
    BY <1>0, <1>2, Zenon DEF SetStatus, Probe, Live, capacity, Probing, Reading, InReadOne
  <2>4. InRange'
    BY <1>2, Numbers DEF SetStatus, Types, TypeOK, Locking, Probe, InRange, capacity, Locked, Probing, Reading, InReadOne
  <2>5. Rings'
    BY <1>2, Numbers, ZenonT(60) DEF SetStatus, Types, TypeOK, Locking, Probe, Rings, Locked, Probing, Reading, InReadOne
  <2>6. Content'
    <3> SUFFICES ASSUME ~late' PROVE InFlight' /\ \A q \in Procs : Wanted(q)'
      BY Zenon DEF Content
    <3>1. InFlight'
      <4>1. device.at = "idle"
        BY <1>2, <2>a, Zenon DEF SetStatus, Rings, Locking, Locked, InReadOne
      <4> QED BY <1>2, <4>1, Zenon DEF SetStatus, InFlight
    <3>2. \A q \in Procs : q # p => Wanted(q)'
      BY <1>0, <1>2, <2>a, OthersWanted, Zenon DEF SetStatus, Content, Types, TypeOK
    <3>3. Wanted(p)'
      BY <1>0, <1>2 DEF SetStatus, Content, Wanted, Used, Types, TypeOK
    <3> QED BY <3>1, <3>2, <3>3, Zenon
  <2> QED BY <2>1, <2>2, <2>3, <2>4, <2>5, <2>6, Zenon
<1>3. CASE Publish(p)
  <2>a. /\ pc[p] \in Locked
        /\ \A q \in Procs : q # p =>
             pc'[q] = pc[q] /\ args'[q] = args[q] /\ i'[q] = i[q] /\ ok'[q] = ok[q] /\ buf'[q] = buf[q]
    BY <1>0, <1>3, Zenon DEF Publish, Types, TypeOK, Locked, InReadOne
  <2>1. Types'
    <3>1. Idx(g_dma.avail_idx + 1) \in 0 .. IdxRange - 1
      BY Numbers, ZenonT(60) DEF Types, TypeOK
    <3>2. "poll" \in Labels
      BY Zenon DEF Labels, InReadOne
    <3> QED BY <1>0, <1>3, <3>1, <3>2, ZenonT(60) DEF Publish, Types, TypeOK
  <2>2. Locking'
    BY <1>0, <1>3, StaysLocked, ZenonT(60) DEF Publish, Locked, Probing, InReadOne
  <2>3. Probe'
    BY <1>0, <1>3, Zenon DEF Publish, Probe, Live, capacity, Probing, Reading, InReadOne
  <2>4. InRange'
    BY <1>0, <1>3, ZenonT(40) DEF Publish, InRange, capacity, Reading, InReadOne, Types, TypeOK
  <2>5. Rings'
    BY <1>3, Numbers, ZenonT(60) DEF Publish, Types, TypeOK, Locking, Probe, Rings, Locked, Probing, Reading, InReadOne
  <2>6. Content'
    <3> SUFFICES ASSUME ~late' PROVE InFlight' /\ \A q \in Procs : Wanted(q)'
      BY Zenon DEF Content
    <3>1. InFlight'
      BY <1>3, Zenon DEF Publish, Content, InFlight, Types, TypeOK
    <3>2. \A q \in Procs : q # p => Wanted(q)'
      BY <1>0, <1>3, <2>a, OthersWanted, Zenon DEF Publish, Content, Types, TypeOK
    <3>3. Wanted(p)'
      <4>1. g_dma.used_idx = g_last_used
        BY <1>3, <2>a, Zenon DEF Publish, Rings, Locking, Locked, InReadOne
      <4>2. /\ Wanted(p) /\ pc[p] = "publish" /\ pc'[p] = "poll" /\ g_dma'.header = g_dma.header
            /\ g_dma'.used_idx = g_dma.used_idx
        BY <1>0, <1>3, Zenon DEF Publish, Content, Types, TypeOK
      <4> QED BY <1>3, <4>1, <4>2, Zenon DEF Publish, Wanted, Used
    <3> QED BY <3>1, <3>2, <3>3, Zenon
  <2> QED BY <2>1, <2>2, <2>3, <2>4, <2>5, <2>6, Zenon
<1>4. CASE PollDone(p)
  <2>a. /\ pc[p] \in Locked
        /\ \A q \in Procs : q # p =>
             pc'[q] = pc[q] /\ args'[q] = args[q] /\ i'[q] = i[q] /\ ok'[q] = ok[q] /\ buf'[q] = buf[q]
    BY <1>0, <1>4, ZenonT(60) DEF PollDone, Types, TypeOK, Locked, InReadOne
  <2>1. Types'
    <3>1. Idx(g_last_used + 1) \in 0 .. IdxRange - 1
      BY Numbers, ZenonT(60) DEF Types, TypeOK
    <3>2. "answer" \in Labels
      BY Zenon DEF Labels, InReadOne
    <3>3. pc' \in [Procs -> Labels]
      BY <1>0, <1>4, <3>2, Zenon DEF PollDone
    <3> QED BY <1>0, <1>4, <1>t, <3>1, <3>3, TypesKept, ZenonT(60) DEF PollDone
  <2>2. Locking'
    BY <1>0, <1>4, StaysLocked, ZenonT(60) DEF PollDone, Locked, Probing, InReadOne
  <2>3. Probe'
    BY <1>0, <1>4, ZenonT(60) DEF PollDone, Probe, Live, capacity, Probing, Reading, InReadOne
  <2>4. InRange'
    BY <1>0, <1>4, ZenonT(60) DEF PollDone, InRange, capacity, Reading, InReadOne
  <2>5. Rings'
    <3> SUFFICES ASSUME ~late PROVE Rings'
      BY <1>4, Zenon DEF PollDone, Rings
    <3>1. \A q \in Procs : pc'[q] # "poll"
      BY <1>0, <1>4, <2>a, ZenonT(60) DEF PollDone, Locking, Locked, InReadOne
    <3>2. /\ g_dma.avail_idx = Idx(g_last_used + 1) /\ g_dma.used_idx = g_dma.avail_idx
          /\ device.seen = g_dma.avail_idx /\ device.at = "idle"
      BY <1>4, Zenon DEF PollDone, Used, Rings
    <3> QED BY <1>4, <3>1, <3>2, Zenon DEF PollDone, Rings
  <2>6. Content'
    <3> SUFFICES ASSUME ~late' PROVE InFlight' /\ \A q \in Procs : Wanted(q)'
      BY Zenon DEF Content
    <3>1. InFlight'
      BY <1>4, ZenonT(60) DEF PollDone, Content, InFlight
    <3>2. \A q \in Procs : q # p => Wanted(q)'
      BY <1>0, <1>4, <2>a, OthersWanted, ZenonT(60) DEF PollDone, Content
    <3>3. Wanted(p)'
      <4>1. device.at = "idle"
        BY <1>4, Zenon DEF PollDone, Used, Rings
      <4> QED BY <1>0, <1>4, <4>1, ZenonT(60) DEF PollDone, Content, Wanted
    <3> QED BY <3>1, <3>2, <3>3, Zenon
  <2> QED BY <2>1, <2>2, <2>3, <2>4, <2>5, <2>6, Zenon
<1>5. CASE PollTimeout(p)
  <2>a. /\ pc[p] \in Locked
        /\ \A q \in Procs : q # p =>
             pc'[q] = pc[q] /\ args'[q] = args[q] /\ i'[q] = i[q] /\ ok'[q] = ok[q] /\ buf'[q] = buf[q]
    BY <1>0, <1>5, ZenonT(60) DEF PollTimeout, Types, TypeOK, Locked, InReadOne
  <2>1. Types'
    BY <1>0, <1>5, TypesMove, ZenonT(60) DEF PollTimeout, Labels, InReadOne
  <2>2. Locking'
    BY <1>0, <1>5, StaysLocked, ZenonT(60) DEF PollTimeout, Locked, Probing, InReadOne
  <2>3. Probe'
    BY <1>0, <1>5, ZenonT(60) DEF PollTimeout, Probe, Live, capacity, Probing, Reading, InReadOne
  <2>4. InRange'
    BY <1>0, <1>5, ZenonT(60) DEF PollTimeout, InRange, capacity, Reading, InReadOne
  <2>5. Rings'
    BY <1>0, <1>5, Zenon DEF PollTimeout, Rings
  <2>6. Content'
    BY <1>5, Zenon DEF PollTimeout, Content
  <2> QED BY <2>1, <2>2, <2>3, <2>4, <2>5, <2>6, Zenon
<1>6. CASE Answer(p)
  <2>a. /\ pc[p] \in Locked
        /\ \A q \in Procs : q # p =>
             pc'[q] = pc[q] /\ args'[q] = args[q] /\ i'[q] = i[q] /\ ok'[q] = ok[q] /\ buf'[q] = buf[q]
    BY <1>0, <1>6, ZenonT(60) DEF Answer, Types, TypeOK, Locked, InReadOne
  <2>1. Types'
    BY <1>0, <1>6, TypesMove, ZenonT(60) DEF Answer, Labels, InReadOne
  <2>2. Locking'
    BY <1>0, <1>6, StaysLocked, ZenonT(60) DEF Answer, Locked, Probing, InReadOne
  <2>3. Probe'
    BY <1>0, <1>6, ZenonT(60) DEF Answer, Probe, Live, capacity, Probing, Reading, InReadOne
  <2>4. InRange'
    BY <1>0, <1>6, ZenonT(60) DEF Answer, InRange, capacity, Reading, InReadOne
  <2>5. Rings'
    BY <1>0, <1>6, Zenon DEF Answer, Rings
  <2>6. Content'
    <3> SUFFICES ASSUME ~late' PROVE InFlight' /\ \A q \in Procs : Wanted(q)'
      BY Zenon DEF Content
    <3>1. InFlight'
      BY <1>6, ZenonT(60) DEF Answer, Content, InFlight
    <3>2. \A q \in Procs : q # p => Wanted(q)'
      BY <1>0, <1>6, <2>a, OthersWanted, ZenonT(60) DEF Answer, Content
    <3>3. Wanted(p)'
      <4>1. Wanted(p) /\ pc[p] = "answer" /\ pc'[p] = IF g_dma.status = "ok" THEN "copy" ELSE "loop"
        BY <1>0, <1>6, Zenon DEF Answer, Content
      <4>2. UNCHANGED <<g_dma, args, i, buf>>
        BY <1>6, Zenon DEF Answer
      <4> QED BY <4>1, <4>2, Zenon DEF Wanted
    <3> QED BY <3>1, <3>2, <3>3, Zenon
  <2> QED BY <2>1, <2>2, <2>3, <2>4, <2>5, <2>6, Zenon
<1> QED BY <1>1, <1>2, <1>3, <1>4, <1>5, <1>6, Zenon

(* A step of the device keeps the invariant.                               *)
LEMMA DeviceKeeps ==
  ASSUME DiskInv, Device
  PROVE  DiskInv'
<1> USE DEF DiskInv
<1>a. UNCHANGED <<g_lock, driver, pc, local, reads, late>>
  BY Zenon DEF Device
<1>b. UNCHANGED <<g_probed, g_valid, g_base, g_capacity, g_last_used, bus, args, i, ok, buf>>
  BY <1>a, Zenon DEF driver, local
<1>c. Locking'
  BY <1>a, Zenon DEF Locking
<1>d. pc \in [Procs -> Labels]
  BY ZenonT(60) DEF Types, TypeOK
<1>e. ASSUME ~late, device.at # "idle" \/ device.seen # g_dma.avail_idx
      PROVE  \E p \in Procs : pc[p] = "poll"
  BY <1>e, Zenon DEF Rings
<1>f. ASSUME ~late, NEW p \in Procs, pc[p] = "poll", InFlight', Wanted(p)' PROVE Content'
  <2>1. \A q \in Procs : q # p => Wanted(q)'
    BY <1>a, <1>b, <1>f, OthersWanted, Zenon DEF Content, Locked, InReadOne
  <2> QED BY <1>f, <2>1, Zenon DEF Content
<1>1. CASE DevTake
  <2>1. Types'
    BY <1>1, <1>a, <1>b, Numbers, ZenonT(60) DEF DevTake, Types, TypeOK
  <2>2. Probe'
    BY <1>1, <1>a, <1>b, Zenon DEF DevTake, Probe, Live, capacity, Types, TypeOK
  <2>3. InRange'
    BY <1>1, <1>a, <1>b, Zenon DEF DevTake, InRange, capacity, Types, TypeOK
  <2>4. Rings'
    <3> SUFFICES ASSUME ~late PROVE Rings'
      BY <1>a, Zenon DEF Rings
    <3>1. PICK p \in Procs : pc[p] = "poll"
      BY <1>1, <1>e, Zenon DEF DevTake
    <3> QED BY <1>1, <1>a, <1>b, <3>1, Zenon DEF DevTake, Rings, Types, TypeOK
  <2>5. Content'
    <3> SUFFICES ASSUME ~late PROVE Content'
      BY <1>a, Zenon DEF Content
    <3>1. PICK p \in Procs : pc[p] = "poll"
      BY <1>1, <1>e, Zenon DEF DevTake
    <3>2. InFlight'
      BY <1>1, Zenon DEF DevTake, Content, InFlight, Types, TypeOK
    <3>3. Wanted(p)'
      BY <1>1, <1>a, <1>b, <3>1 DEF DevTake, Content, InFlight, Wanted, Rings, Used, Types, TypeOK
    <3> QED BY <1>f, <3>1, <3>2, <3>3, Zenon
  <2> QED BY <1>c, <2>1, <2>2, <2>3, <2>4, <2>5, Zenon
<1>2. CASE DevData
  <2>1. Types'
    BY <1>2, <1>a, <1>b, Numbers, ZenonT(60) DEF DevData, Types, TypeOK
  <2>2. Probe'
    BY <1>2, <1>a, <1>b, Zenon DEF DevData, Probe, Live, capacity, Types, TypeOK
  <2>3. InRange'
    BY <1>2, <1>a, <1>b, Zenon DEF DevData, InRange, capacity, Types, TypeOK
  <2>4. Rings'
    <3> SUFFICES ASSUME ~late PROVE Rings'
      BY <1>a, Zenon DEF Rings
    <3>1. PICK p \in Procs : pc[p] = "poll"
      BY <1>2, <1>e, Zenon DEF DevData
    <3> QED BY <1>2, <1>a, <1>b, <3>1, Zenon DEF DevData, Rings, Types, TypeOK
  <2>5. Content'
    <3> SUFFICES ASSUME ~late PROVE Content'
      BY <1>a, Zenon DEF Content
    <3>1. PICK p \in Procs : pc[p] = "poll"
      BY <1>2, <1>e, Zenon DEF DevData
    <3>2. InFlight'
      BY <1>2, Zenon DEF DevData, Content, InFlight, Types, TypeOK
    <3>3. Wanted(p)'
      BY <1>2, <1>a, <1>b, <3>1 DEF DevData, Content, InFlight, Wanted, Rings, Used, Types, TypeOK
    <3> QED BY <1>f, <3>1, <3>2, <3>3, Zenon
  <2> QED BY <1>c, <2>1, <2>2, <2>3, <2>4, <2>5, Zenon
<1>3. CASE DevStatus
  <2>1. Types'
    BY <1>3, <1>a, <1>b, Numbers, ZenonT(60) DEF DevStatus, Types, TypeOK
  <2>2. Probe'
    BY <1>3, <1>a, <1>b, Zenon DEF DevStatus, Probe, Live, capacity, Types, TypeOK
  <2>3. InRange'
    BY <1>3, <1>a, <1>b, Zenon DEF DevStatus, InRange, capacity, Types, TypeOK
  <2>4. Rings'
    <3> SUFFICES ASSUME ~late PROVE Rings'
      BY <1>a, Zenon DEF Rings
    <3>1. PICK p \in Procs : pc[p] = "poll"
      BY <1>3, <1>e, Zenon DEF DevStatus
    <3> QED BY <1>3, <1>a, <1>b, <3>1, Zenon DEF DevStatus, Rings, Types, TypeOK
  <2>5. Content'
    <3> SUFFICES ASSUME ~late PROVE Content'
      BY <1>a, Zenon DEF Content
    <3>1. PICK p \in Procs : pc[p] = "poll"
      BY <1>3, <1>e, Zenon DEF DevStatus
    <3>2. InFlight'
      BY <1>3, Zenon DEF DevStatus, Content, InFlight, Types, TypeOK
    <3>3. Wanted(p)'
      BY <1>3, <1>a, <1>b, <3>1 DEF DevStatus, Content, InFlight, Wanted, Rings, Used, Types, TypeOK
    <3> QED BY <1>f, <3>1, <3>2, <3>3, Zenon
  <2> QED BY <1>c, <2>1, <2>2, <2>3, <2>4, <2>5, Zenon
<1>4. CASE DevUsed
  <2>1. Types'
    BY <1>4, <1>a, <1>b, Numbers, ZenonT(60) DEF DevUsed, Types, TypeOK
  <2>2. Probe'
    BY <1>4, <1>a, <1>b, Zenon DEF DevUsed, Probe, Live, capacity, Types, TypeOK
  <2>3. InRange'
    BY <1>4, <1>a, <1>b, Zenon DEF DevUsed, InRange, capacity, Types, TypeOK
  <2>4. Rings'
    <3> SUFFICES ASSUME ~late PROVE Rings'
      BY <1>a, Zenon DEF Rings
    <3>1. PICK p \in Procs : pc[p] = "poll"
      BY <1>4, <1>e, Zenon DEF DevUsed
    <3> QED BY <1>4, <1>a, <1>b, <3>1, Zenon DEF DevUsed, Rings, Types, TypeOK
  <2>5. Content'
    <3> SUFFICES ASSUME ~late PROVE Content'
      BY <1>a, Zenon DEF Content
    <3>1. PICK p \in Procs : pc[p] = "poll"
      BY <1>4, <1>e, Zenon DEF DevUsed
    <3>2. InFlight'
      BY <1>4, Zenon DEF DevUsed, Content, InFlight, Types, TypeOK
    <3>3. Wanted(p)'
      BY <1>4, <1>a, <1>b, <3>1 DEF DevUsed, Content, InFlight, Wanted, Rings, Used, Types, TypeOK
    <3> QED BY <1>f, <3>1, <3>2, <3>3, Zenon
  <2> QED BY <1>c, <2>1, <2>2, <2>3, <2>4, <2>5, Zenon
<1> QED BY <1>1, <1>2, <1>3, <1>4, Zenon DEF Device

(* The invariant holds in every state.                                     *)
LEMMA DiskInvariance == Spec => []DiskInv
<1>1. Init => DiskInv
  <2> SUFFICES ASSUME Init PROVE DiskInv
    OBVIOUS
  <2>1. Types
    <3>1. bus \in Seq(Slot) /\ bus # <<>>
      BY DiskAssumption, Zenon DEF Init
    <3>2. 1 \in DOMAIN bus /\ DOMAIN <<>> = 0 .. 0 - 1
      BY <3>1
    <3>3. 0 \in 0 .. IdxRange - 1 /\ 0 \in 0 .. MaxReads /\ 0 \in Lbas
      BY Numbers, DiskAssumption
    <3>4. /\ pc \in [Procs -> Labels] /\ args \in [Procs -> [lba : Lbas, count : Counts \cup {0}]]
          /\ i \in [Procs -> Nat] /\ ok \in [Procs -> BOOLEAN] /\ DOMAIN buf = Procs
      BY <3>3, Zenon DEF Init, Labels
    <3>5. \A p \in Procs : i[p] \in 0 .. args[p].count /\ DOMAIN buf[p] = 0 .. i[p] - 1
      BY <3>2 DEF Init
    <3>6. device.status \in SUBSET {"acknowledge", "driver", "features_ok", "driver_ok"}
      <4>1. device.status = {}
        BY ZenonT(60) DEF Init
      <4> QED BY <4>1, ZenonT(60)
    <3> QED BY <3>2, <3>3, <3>4, <3>5, <3>6, ZenonT(60) DEF Init, Types, TypeOK
  <2>2. Locking /\ Probe /\ InRange /\ Rings /\ Content
    <3>0. /\ \A p \in Procs : pc[p] = "new" /\ i[p] = 0
          /\ g_dma.avail_idx = 0 /\ g_dma.used_idx = 0 /\ g_last_used = 0
          /\ device.seen = 0 /\ device.at = "idle" /\ device.status = {}
          /\ ~g_lock /\ ~g_probed /\ ~g_valid
      BY Zenon DEF Init
    <3>1. Locking
      BY <3>0, Zenon DEF Locking, Locked, Probing, InReadOne
    <3>2. Probe
      BY <3>0, Zenon DEF Probe, Live, Probing, Reading, InReadOne
    <3>3. InRange
      BY <3>0, Zenon DEF InRange, Reading, InReadOne
    <3>4. Rings
      BY <3>0, Zenon DEF Rings
    <3>5. Content
      BY <3>0 DEF Content, InFlight, Wanted
    <3> QED BY <3>1, <3>2, <3>3, <3>4, <3>5, Zenon
  <2> QED BY <2>1, <2>2, Zenon DEF DiskInv
<1>2. DiskInv /\ [Next]_vars => DiskInv'
  <2>1. ASSUME DiskInv, UNCHANGED vars PROVE DiskInv'
    <3>1. Types' /\ Locking'
      BY <2>1, TypesKept, ZenonT(60) DEF vars, driver, local, DiskInv, Types, TypeOK, Locking
    <3>2. Probe' /\ InRange'
      BY <2>1, ZenonT(60) DEF vars, driver, DiskInv, Probe, InRange, Live, capacity, local
    <3>3. Rings'
      BY <2>1, ZenonT(60) DEF vars, driver, DiskInv, Rings
    <3>4. Content'
      BY <2>1, ZenonT(60) DEF vars, driver, local, DiskInv, Content, InFlight, Wanted, Used
    <3> QED BY <3>1, <3>2, <3>3, <3>4, Zenon DEF DiskInv
  <2>2. ASSUME DiskInv, NEW p \in Procs, Step(p) PROVE DiskInv'
    BY <2>2, ProbeKeeps, ReadKeeps, RequestKeeps, Zenon DEF Step
  <2> QED BY <2>1, <2>2, DeviceKeeps, Zenon DEF Next
<1> QED BY <1>1, <1>2, PTL DEF Spec

(* RequestInRange, of read_sectors()'s range test and init_device()'s error*)
(* paths, on any disk and for any callers, timeouts included.              *)
THEOREM RequestsStayOnDisk == Spec => []RequestInRange
<1>1. DiskInv => RequestInRange
  BY Zenon DEF DiskInv, Probe, InRange, RequestInRange, Reading
<1> QED BY <1>1, DiskInvariance, PTL

(* InStep, of the ring indices of read_one(), whatever their width.        *)
THEOREM RingsStayInStep == Spec => []InStep
<1>1. DiskInv => InStep
  BY Zenon DEF DiskInv, Types, Locking, Rings, InStep, Locked, InReadOne
<1> QED BY <1>1, DiskInvariance, PTL

(* ReadsRightUntilLate, of read_sectors(), for any number of cores.        *)
THEOREM ReadsAreRight == Spec => []ReadsRightUntilLate
<1>1. ASSUME DiskInv PROVE ReadsRightUntilLate
  <2> SUFFICES ASSUME ~late, NEW p \in Procs, pc[p] = "return", ok[p], NEW j \in 0 .. args[p].count - 1
               PROVE  j \in DOMAIN buf[p] /\ buf[p][j] = args[p].lba + j
    BY Zenon DEF ReadsRightUntilLate, ReadsRight
  <2>1. Wanted(p) /\ DOMAIN buf[p] = 0 .. i[p] - 1
    BY <1>1, Zenon DEF DiskInv, Content, Types, TypeOK
  <2> QED BY <2>1, Zenon DEF Wanted
<1> QED BY <1>1, DiskInvariance, PTL
=============================================================================
