----------------------------- MODULE DiskReader -----------------------------
(***************************************************************************)
(* disk_reader.cpp: a polled virtio-blk driver with one request in flight, *)
(* shared by every core behind g_lock, together with the device it talks   *)
(* to through memory both can write.  A sector's content is its number.    *)
(*                                                                         *)
(* The device (the actions named Dev...) is not part of the kernel; it is  *)
(* modelled from how the driver uses it: it takes requests in the order of *)
(* avail.idx, reads the request header when it takes one, then writes the  *)
(* data, the status byte and used.idx, in that order, whenever it likes.   *)
(***************************************************************************)
EXTENDS Integers, FiniteSets, Sequences

CONSTANTS
  Procs,       \* cores
  IdxRange,    \* how many values avail.idx, used.idx and g_last_used have
  RegRange,    \* how many values a register has; an lba has twice its width
  kQueueSize,
  Counts,      \* the counts callers ask for
  Buses,       \* what the virtio-mmio slots may hold
  MaxReads,    \* bound on the calls of read_sectors()
  Timeouts     \* whether the device may be slower than kPollLimit polls

Register == 0 .. RegRange - 1

LbaRange == RegRange * RegRange

Lbas == 0 .. LbaRange - 1

(* A slot: DeviceFeatures (whether it offers VERSION_1), whether it lets   *)
(* FEATURES_OK stand, and the capacity in two registers.                   *)
Slot ==
  [magic : BOOLEAN, version : Nat, device_id : Nat, version_1 : BOOLEAN, agrees : BOOLEAN,
   queue_num_max : Nat, config : [1 .. 2 -> Register]]

ASSUME DiskAssumption ==
  /\ IdxRange \in Nat \ {0} /\ RegRange \in Nat \ {0} /\ kQueueSize \in Nat
  /\ Counts \subseteq Lbas
  /\ Buses \subseteq Seq(Slot) \ {<<>>}
  /\ MaxReads \in Nat /\ Timeouts \in BOOLEAN

VARIABLES
  g_lock, g_probed, g_valid, g_base, g_capacity, g_last_used,
  g_dma,    \* the memory shared with the device
  bus,      \* the registers of each slot the driver only reads
  device,   \* the rest of the state of the device at g_base
  pc,       \* where each core is
  args,     \* its lba and count
  i, ok,    \* its locals
  buf,      \* its buffer: what was read, by offset in sectors
  reads,    \* how many calls there were
  late      \* whether a read has timed out

driver == <<g_probed, g_valid, g_base, g_capacity, g_last_used, bus>>
local  == <<args, i, ok, buf>>
vars   == <<g_lock, driver, g_dma, device, pc, local, reads, late>>

Idx(n) == n % IdxRange

Init ==
  /\ g_lock = FALSE /\ g_probed = FALSE /\ g_valid = FALSE
  /\ g_base = 1 /\ g_capacity = 0 /\ g_last_used = 0
  /\ g_dma = [header |-> 0, status |-> "ok", data |-> 0, avail_idx |-> 0, used_idx |-> 0]
  /\ bus \in Buses
  /\ device = [status |-> {}, queue_ready |-> FALSE, seen |-> 0, at |-> "idle", sector |-> 0]
  /\ pc = [p \in Procs |-> "new"]
  /\ args = [p \in Procs |-> [lba |-> 0, count |-> 0]]
  /\ i = [p \in Procs |-> 0]
  /\ ok = [p \in Procs |-> FALSE]
  /\ buf = [p \in Procs |-> <<>>]
  /\ reads = 0 /\ late = FALSE

Goto(p, from, to) == pc[p] = from /\ pc' = [pc EXCEPT ![p] = to]

Lock(p, from, to) ==
  /\ Goto(p, from, to)
  /\ ~g_lock
  /\ g_lock' = TRUE

-----------------------------------------------------------------------------
(* DiskReader(): probe_locked() under the lock.                            *)

(* Faulty: probes again for every DiskReader.                              *)
CtorLockProbes(p) ==
  /\ Lock(p, "new", "find_device")
  /\ UNCHANGED <<driver, g_dma, device, local, reads, late>>

CtorLock(p) ==
  /\ Lock(p, "new", IF g_probed THEN "ctor_unlock" ELSE "find_device")
  /\ UNCHANGED <<driver, g_dma, device, local, reads, late>>

(* init_device(), which returns what becomes of g_valid.                   *)
InitReturns(p, from, valid) ==
  /\ Goto(p, from, "probed")
  /\ g_valid' = valid

IsBlock(slot) == slot.magic /\ slot.version = 2 /\ slot.device_id = 2

(* find_device(): the first modern block device; g_base is left at the last*)
(* slot if there is none.                                                  *)
find_device(p) ==
  /\ \/ \E n \in DOMAIN bus :
          /\ IsBlock(bus[n]) /\ \A m \in 1 .. n - 1 : ~IsBlock(bus[m])
          /\ Goto(p, "find_device", "features")
          /\ g_base' = n
          /\ device' = [status |-> {"acknowledge", "driver"}, queue_ready |-> FALSE,
                        seen |-> 0, at |-> "idle", sector |-> 0]
          /\ UNCHANGED g_valid
     \/ /\ \A n \in DOMAIN bus : ~IsBlock(bus[n])
        /\ InitReturns(p, "find_device", FALSE)
        /\ g_base' = Len(bus)
        /\ UNCHANGED device
  /\ UNCHANGED <<g_lock, g_probed, g_capacity, g_last_used, bus, g_dma, local, reads, late>>

(* A test of the device that must pass before init_device() goes on to do  *)
(* its writes.                                                             *)
Require(p, from, test, to, writes) ==
  /\ \/ test /\ Goto(p, from, to) /\ device' = writes /\ UNCHANGED g_valid
     \/ ~test /\ InitReturns(p, from, FALSE) /\ UNCHANGED device
  /\ UNCHANGED <<g_lock, g_probed, g_base, g_capacity, g_last_used, bus, g_dma, local, reads, late>>

(* The device clears FEATURES_OK if it does not agree.                     *)
Features(p) ==
  Require(p, "features", bus[g_base].version_1, "features_ok",
    [device EXCEPT !.status = @ \cup (IF bus[g_base].agrees THEN {"features_ok"} ELSE {})])

FeaturesOk(p) == Require(p, "features_ok", "features_ok" \in device.status, "queue", device)

Queue(p) ==
  Require(p, "queue", bus[g_base].queue_num_max >= kQueueSize, "driver_ok", [device EXCEPT !.queue_ready = TRUE])

capacity == bus[g_base].config[1] + bus[g_base].config[2] * RegRange

DriverOk(p) ==
  /\ InitReturns(p, "driver_ok", TRUE)
  /\ device' = [device EXCEPT !.status = @ \cup {"driver_ok"}]
  /\ g_capacity' = capacity
  /\ UNCHANGED <<g_lock, g_probed, g_base, g_last_used, bus, g_dma, local, reads, late>>

SetProbed(p) ==
  /\ Goto(p, "probed", "ctor_unlock")
  /\ g_probed' = TRUE
  /\ UNCHANGED <<g_lock, g_valid, g_base, g_capacity, g_last_used, bus, g_dma, device, local, reads, late>>

CtorUnlock(p) ==
  /\ Goto(p, "ctor_unlock", "ready")
  /\ g_lock' = FALSE
  /\ UNCHANGED <<driver, g_dma, device, local, reads, late>>

-----------------------------------------------------------------------------
(* read_sectors()                                                          *)

(* Faulty: tests where the range ends, in 64 bits.                         *)
InDiskWraps(lba, count) == g_valid /\ (lba + count) % LbaRange <= g_capacity

InDisk(lba, count) == g_valid /\ lba <= g_capacity /\ count <= g_capacity - lba

ReadCall(p, lba, count) ==
  /\ reads < MaxReads
  /\ reads' = reads + 1
  /\ args' = [args EXCEPT ![p] = [lba |-> lba, count |-> count]]
  /\ buf' = [buf EXCEPT ![p] = <<>>]
  /\ i' = [i EXCEPT ![p] = 0]
  /\ ok' = [ok EXCEPT ![p] = InDisk(lba, count)]
  /\ Goto(p, "ready", IF InDisk(lba, count) THEN "rs_lock" ELSE "return")
  /\ UNCHANGED <<g_lock, driver, g_dma, device, late>>

ReadLock(p) ==
  /\ Lock(p, "rs_lock", "loop")
  /\ UNCHANGED <<driver, g_dma, device, local, reads, late>>

Loop(p) ==
  /\ Goto(p, "loop", IF i[p] < args[p].count /\ ok[p] THEN "header" ELSE "rs_unlock")
  /\ UNCHANGED <<g_lock, driver, g_dma, device, local, reads, late>>

(* memcpy() of the bounce buffer, and round the loop.                      *)
Copy(p) ==
  /\ Goto(p, "copy", "loop")
  /\ buf' = [buf EXCEPT ![p] = [j \in 0 .. i[p] |-> IF j = i[p] THEN g_dma.data ELSE buf[p][j]]]
  /\ i' = [i EXCEPT ![p] = @ + 1]
  /\ UNCHANGED <<g_lock, driver, g_dma, device, args, ok, reads, late>>

ReadUnlock(p) ==
  /\ Goto(p, "rs_unlock", "return")
  /\ g_lock' = FALSE
  /\ UNCHANGED <<driver, g_dma, device, local, reads, late>>

ReadReturn(p) ==
  /\ Goto(p, "return", "ready")
  /\ UNCHANGED <<g_lock, driver, g_dma, device, local, reads, late>>

-----------------------------------------------------------------------------
(* read_one(lba + i)                                                       *)

(* Faulty: asks for the first sector every time.                           *)
SetHeaderFirst(p) ==
  /\ Goto(p, "header", "status")
  /\ g_dma' = [g_dma EXCEPT !.header = args[p].lba]
  /\ UNCHANGED <<g_lock, driver, device, local, reads, late>>

SetHeader(p) ==
  /\ Goto(p, "header", "status")
  /\ g_dma' = [g_dma EXCEPT !.header = (args[p].lba + i[p]) % LbaRange]
  /\ UNCHANGED <<g_lock, driver, device, local, reads, late>>

SetStatus(p) ==
  /\ Goto(p, "status", "publish")
  /\ g_dma' = [g_dma EXCEPT !.status = "pending"]
  /\ UNCHANGED <<g_lock, driver, device, local, reads, late>>

Publish(p) ==
  /\ Goto(p, "publish", "poll")
  /\ g_dma' = [g_dma EXCEPT !.avail_idx = Idx(@ + 1)]
  /\ UNCHANGED <<g_lock, driver, device, local, reads, late>>

Used == g_dma.used_idx # g_last_used

(* The poll loop ends: used.idx has moved.                                 *)
PollDone(p) ==
  /\ Used
  /\ Goto(p, "poll", "answer")
  /\ g_last_used' = Idx(g_last_used + 1)
  /\ UNCHANGED <<g_lock, g_probed, g_valid, g_base, g_capacity, bus, g_dma, device, local, reads, late>>

(* Faulty: returns to the caller with the lock held.                       *)
PollTimeoutLocked(p) ==
  /\ Timeouts
  /\ ~Used
  /\ Goto(p, "poll", "return")
  /\ ok' = [ok EXCEPT ![p] = FALSE]
  /\ late' = TRUE
  /\ UNCHANGED <<g_lock, driver, g_dma, device, args, i, buf, reads>>

(* The poll loop ends: kPollLimit polls, and used.idx has not moved.       *)
PollTimeout(p) ==
  /\ Timeouts
  /\ ~Used
  /\ Goto(p, "poll", "loop")
  /\ ok' = [ok EXCEPT ![p] = FALSE]
  /\ late' = TRUE
  /\ UNCHANGED <<g_lock, driver, g_dma, device, args, i, buf, reads>>

(* read_one() returns whether the status byte is kBlkSOk.                  *)
Answer(p) ==
  /\ Goto(p, "answer", IF g_dma.status = "ok" THEN "copy" ELSE "loop")
  /\ ok' = [ok EXCEPT ![p] = g_dma.status = "ok"]
  /\ UNCHANGED <<g_lock, driver, g_dma, device, args, i, buf, reads, late>>

-----------------------------------------------------------------------------
(* The device.                                                             *)

Live == "driver_ok" \in device.status

DevTake ==
  /\ Live /\ device.at = "idle"
  /\ device.seen # g_dma.avail_idx
  /\ device' = [device EXCEPT !.at = "took", !.seen = Idx(@ + 1), !.sector = g_dma.header]
  /\ UNCHANGED g_dma

DevData ==
  /\ device.at = "took"
  /\ device' = [device EXCEPT !.at = "data"]
  /\ g_dma' = [g_dma EXCEPT !.data = device.sector]

(* The read succeeds if the data was written.                              *)
DevStatus ==
  /\ device.at \in {"took", "data"}
  /\ device' = [device EXCEPT !.at = "status"]
  /\ g_dma' = [g_dma EXCEPT !.status = IF device.at = "data" THEN "ok" ELSE "error"]

DevUsed ==
  /\ device.at = "status"
  /\ device' = [device EXCEPT !.at = "idle"]
  /\ g_dma' = [g_dma EXCEPT !.used_idx = Idx(@ + 1)]

Device ==
  /\ DevTake \/ DevData \/ DevStatus \/ DevUsed
  /\ UNCHANGED <<g_lock, driver, pc, local, reads, late>>

-----------------------------------------------------------------------------
Step(p) ==
  \/ CtorLock(p) \/ find_device(p) \/ Features(p) \/ FeaturesOk(p) \/ Queue(p) \/ DriverOk(p)
  \/ SetProbed(p) \/ CtorUnlock(p)
  \/ \E lba \in Lbas, count \in Counts : ReadCall(p, lba, count)
  \/ ReadLock(p) \/ Loop(p) \/ Copy(p) \/ ReadUnlock(p) \/ ReadReturn(p)
  \/ SetHeader(p) \/ SetStatus(p) \/ Publish(p)
  \/ PollDone(p) \/ PollTimeout(p) \/ Answer(p)

Next == Device \/ \E p \in Procs : Step(p)

Spec == Init /\ [][Next]_vars

(* A core goes on with what it is doing.  Nothing is assumed of the device.*)
FairSpec == Spec /\ \A p \in Procs : WF_vars(pc[p] # "ready" /\ Step(p))

-----------------------------------------------------------------------------
InReadOne == {"header", "status", "publish", "poll", "answer"}

Labels ==
  {"new", "find_device", "features", "features_ok", "queue", "driver_ok", "probed", "ctor_unlock", "ready", "rs_lock", "loop", "copy", "rs_unlock",
   "return"}
    \cup InReadOne

TypeOK ==
  /\ g_lock \in BOOLEAN /\ g_probed \in BOOLEAN /\ g_valid \in BOOLEAN /\ late \in BOOLEAN
  /\ g_base \in DOMAIN bus /\ g_capacity \in Lbas
  /\ g_last_used \in 0 .. IdxRange - 1
  /\ g_dma \in [header : Lbas, status : {"pending", "ok", "error"}, data : Lbas,
                avail_idx : 0 .. IdxRange - 1, used_idx : 0 .. IdxRange - 1]
  /\ device \in [status : SUBSET {"acknowledge", "driver", "features_ok", "driver_ok"}, queue_ready : BOOLEAN,
                 seen : 0 .. IdxRange - 1,
                 at : {"idle", "took", "data", "status"}, sector : Lbas]
  /\ pc \in [Procs -> Labels]
  /\ args \in [Procs -> [lba : Lbas, count : Counts \cup {0}]]
  /\ \A p \in Procs : i[p] \in 0 .. args[p].count /\ DOMAIN buf[p] = 0 .. i[p] - 1
  /\ ok \in [Procs -> BOOLEAN]
  /\ reads \in 0 .. MaxReads

(* read_sectors() returns true only once every sector it was asked for is  *)
(* in the caller's buffer, in its place (disk_reader.hpp).                 *)
ReadsRight ==
  \A p \in Procs : pc[p] = "return" /\ ok[p] =>
    \A j \in 0 .. args[p].count - 1 : j \in DOMAIN buf[p] /\ buf[p][j] = args[p].lba + j

(* ... which holds as long as no read has timed out.                       *)
ReadsRightUntilLate == late \/ ReadsRight

(* The device is never asked for a sector the disk does not have, nor asked*)
(* anything before it has agreed to the features, has its queue and is     *)
(* live: the range test does not overflow, no error path of init_device()  *)
(* leaves g_valid set, and a timed-out request is not mixed up with the    *)
(* next one's range.                                                       *)
RequestInRange ==
  /\ device.at # "idle" => device.sector < capacity
  /\ \A p \in Procs : pc[p] \in InReadOne =>
       /\ Live /\ "features_ok" \in device.status /\ device.queue_ready
       /\ IsBlock(bus[g_base])

(* Driver and device agree on how many requests were made and completed,   *)
(* also when the counters wrap: until a read has timed out, between calls  *)
(* no request is pending and no completion is unclaimed.  The state is well*)
(* typed: the copies fill the caller's buffer in order and go no further.  *)
InStep ==
  /\ TypeOK
  /\ ~g_lock /\ ~late =>
       /\ g_dma.avail_idx = g_last_used
       /\ g_dma.used_idx = g_last_used
       /\ device.seen = g_last_used /\ device.at = "idle"

(* Every read_sectors() returns, even if the device never answers: polling *)
(* is bounded and every path gives the lock back.                          *)
ReadReturns == \A p \in Procs : pc[p] = "rs_lock" ~> pc[p] = "return"
=============================================================================
