# Verification of the intro-os kernel

TLA+ models of the kernel in `kernel/`: what its threads, locks, heap, disk
driver and file system do when several cores run at once, when the disk fails
and when sizes and counters reach their limits. TLC checks the models on small
instances; TLAPS proves, for every value of the constants, every safety property
that a passing run checks: the invariants of the thread layer, the spin queue, the heap, the
boot sequence, the disk driver and the file system, and that the semaphores, the
queue, the allocator and the console implement their abstract specifications.

    tlc -workers 2 -config MCKernel.cfg MCKernel     # one run
    tlapm --threads 4 KernelSemaphores.tla           # one module's theorems; likewise the others of section 4

`PROJECT.json` lists the components, the runs, the source lines behind every
definition, the hazards, the mutants (a faulty variant of a definition that each
property must catch), the findings and the theorems.

## 1. Inventory

| Part | State | Operations | What is hard about it |
|---|---|---|---|
| threads (`threads.cpp`, `tcb.cpp`, `context_switch.S`) | TCBs, their stacks and saved frames | `go`, `yield`, `stop`, `switch_to` | a stack must not be used by two cores, or freed while in use |
| idle loop (`percore.cpp`) | per core: `prev`, `curr`, `to_delete`, `to_reschedule`, `to_queue`, `to_add_to`, `to_unlock` | `idle_loop` | finishes for a thread what the thread cannot do while it is on its own stack |
| scheduler (`scheduler.cpp`) | the ready queue | `schedule`, `next` | shared by every core |
| semaphore, mutex (`semaphore.cpp`, `mutex.cpp`) | `counter`, `q`, `lock_` | `down`, `up`, destructor; `lock`, `unlock` | `lock_` stays locked across a context switch and another thread's code unlocks it |
| spin queue (`spin_queue.cpp`) | linked list, lock | `push`, `pop`, `empty`, destructor | nodes are allocated before and freed after the critical section |
| heap (`heap.cpp`) | arena with boundary tags, lock | `malloc`, `free`, `new`, `delete` | splits, merges, and arithmetic at its limits |
| disk reader (`disk_reader.cpp`) | shared rings and buffers, `g_last_used`, lock | constructor, `read_sectors` | a handshake that may fail half way; a device that is late, fails or never answers; 16-bit indices that wrap |
| FAT32 mount | metadata | constructor, `fat_next` | fields of any value, decoded at literal offsets; 32-bit arithmetic |
| FAT32 lookup | the pieces of a long name | `find`, `lookup` | positions and clusters taken from the disk; stale pieces, cyclic chains, disk errors |
| FAT32 read | cursor cache | `File::read` | a cache that survives failed reads; edges of sectors and clusters |
| boot (`main.cpp`, `smp.cpp`, `mmu.cpp`, `percore::init`) | core ids, page table, entry points | `kmain`, `smp::init`, `ap_entry`, `mmu::init`, `activate_this_core` | order: page table, heap and idle threads before the other cores, id before entry point |
| console, panic (`console.cpp`, `panic.cpp`) | UART, lock | `print`, `append`, `append_uint`, `kpanic_at` | several cores print at once, through a FIFO that fills |
| string (`string.cpp`) | none | `memcmp`, `memset`, `memcpy`, `memmove` | |

A core leaves a thread in three ways, `yield`, `stop` and a `down` that blocks.
Each writes a per-core slot and switches to the core's idle thread, which only
then publishes the thread (on the ready queue or the semaphore's queue) or frees
it. Everything else meets at shared objects: the ready queue is a spin queue,
a semaphore holds one, their nodes, the TCBs and the stacks come from the heap,
and the file system reads through the disk reader.

What has to be correct:

- threads: a thread is in one place at a time, is never lost, is not resumed
  before it is saved, and its memory is not used after it is freed;
- semaphores: first come, first served, `counter` counts the blocked threads,
  no wakeup is lost; a mutex excludes;
- spin queue: a FIFO queue whose every node has one owner;
- heap: disjoint regions with room for what was asked, nothing lost, merged;
- disk reader: what `read_sectors` returns is what was asked for, and it returns;
- file system: a mounted volume lies on its disk and its metadata is what the disk
  says; `find` finds the entry the directory holds and stays inside its buffer and
  the volume; `read` returns the file's bytes; both return on any disk;
- boot: nothing is used before it is set up, every core has a slot of its own, and
  every core gets to its idle loop;
- console: what one `print` prints stays together.

## 2. Modules

| Module | Models | Checked by |
|---|---|---|
| `Kernel` | threads, idle loop, scheduler, semaphores, mutexes, composed | `MCKernel*.cfg` |
| `SemaphoreSpec` | abstract: the semaphores `Kernel` implements | `MCKernel.cfg` |
| `KernelDestroy` | `Kernel` with the semaphore's destructor | `MCKernelDestroy.cfg` |
| `KernelProofs`, `KernelSemaphores` | the proofs about `Kernel` | `tlapm` |
| `SpinQueue` / `Fifo` | the spin queue / abstract: a FIFO queue | `MCSpinQueue.cfg` |
| `Heap` / `Allocator` | the heap / abstract: an allocator | `MCHeap*.cfg` |
| `DiskReader` | the driver and, external, the device | `MCDiskReader*.cfg` |
| `Fat32Mount`, `FileRead`, `Fat32Volume` | mounting and `fat_next`; reading a file; the two on one disk | `MCFat32Volume.cfg` |
| `Fat32Find` | looking up a path | `MCFat32Find*.cfg` |
| `Console` / `ConsoleSpec` | `print` and `kpanic_at` / abstract: an atomic `print` | `MCBoot.cfg` |
| `Boot` | `kmain` and the other cores up to their idle loops, printing through `Console` | `MCBoot.cfg` |
| `SpinQueueProofs`, `HeapProofs`, `DiskReaderProofs`, `Fat32FindProofs`, `Fat32Proofs` (mount, file read and volume) | the proofs about those modules | `tlapm` |
| `BootProofs` | the proofs about `Boot` and `Console` | `tlapm` |

Names are the source's where TLA+ allows it. Definitions introduced as "Faulty"
are not part of any specification: they are the mutants.

**Kernel.** A core is described by the stack it is on (`on`), where it is in the
code (`pc`), the object whose method it executes (`this`), a local TCB pointer
(`tmp`) and its entry of `percore::g_table`. A TCB that is not running keeps
`pc` and `this` in its saved frame `sp[t]`. The context switch is two steps,
saving and loading. Threads are arbitrary client code: whenever a core is at
label `"user"` it may start a thread, yield, return (stop), or use any
semaphore; of a mutex it unlocks only what it has locked and does not stop while
holding one. A failed `ASSERT` is the label `"panic"`, the `x30` of a freed frame
is `"freed"`, and the code after the switch in `stop()` is `"unreachable"`;
`NoPanic` says no core gets to any of them. The initial state is the one after
`smp::init()`: the bootstrap core is about to call `go(main)`, the others `stop()`;
that every boot comes there is what `Boot` is about.

**SpinQueue** has one step per access to the lock, the list or the heap, and a
heap that hands a freed node out again, to another core too. What `pop` and `empty`
will return is kept (`out`), and `Fifo` says what it may be.

**Heap** keeps the arena as memory: tags are where the code puts them, and callers
write worst-case data into the regions they own, so a tag the allocator relies on
but does not own would be destroyed. `size_t` has `SizeBits` bits. `malloc(0)`
returns null at once; a null result ends a caller of `operator new` in
`out_of_memory()`, and other callers go on.

**DiskReader** interleaves two cores with a device that takes a request, writes
data, status and `used.idx` in that order, each whenever it likes or never. A
sector's content is its number. The timeout of the poll loop may strike at any
moment before the completion is seen. The slots of the bus hold what a constant
says, devices of other kinds or versions included. `init_device()` is one step
per test: each early return leaves the device as far as it had come. Register and
sector widths are constants (`RegRange`, `IdxRange`), so that the capacity is put
together from two registers and a range may wrap.

**Fat32Mount** is the constructor on every boot sector of a set with extreme
fields. The disk holds the format's fields (`BootLayout`, written from the
format); the constructor reads bytes, at the offsets and in the byte order of the
code. How many values a byte has (`Radix`) is a constant, 4 in the run, so that four
bytes overflow at 256. `meta_valid_cluster` and `meta_cluster_lba` are `valid_cluster()`
and `cluster_lba()` on the geometry being derived; `FileRead` has them on a fixed one.
`fat_next` reads the sector, the place in it and the four bytes there, and masks them,
on a disk that holds words of any value.

**Fat32Find** runs `find` and `lookup` on character codes: the path is split at
slashes, pieces of long names go into the buffer `lfn` at the position their
ordinal says, the checksum and the 8.3 rendering are computed as in the code, and
names are compared without case. A store outside the buffer would enlarge it.
`Resolve`, the reference, looks at the directory as one sequence: a long name is
what the run of pieces from a last piece up to the entry spells, all of them
carrying the entry's checksum. In the reference a character past ASCII is none that a
path can contain (`Character`), as the comment in `lookup` says; the code's is `'?'`.

**FileRead** runs any sequence of reads over every FAT of three clusters; a byte's
content is its address on the disk. An invalid `File` (null `fs_`) behaves as a
directory does and is not modelled apart. `asked` remembers the length before it is
cut to the size of the file. **Fat32Volume** mounts a disk and then reads a file on it,
when the volume has the geometry `FileRead` is given; the FAT is the one on the disk.

**Console** has one step per character written to the UART, whose FIFO may be
full. **Boot** extends it: each core runs its code with the boot loader as the
environment, which answers all requests or not, lists the cores in any order and
lets a core go once it has an entry point. What a step needs (a mapping to
print, a heap to allocate, an idle thread to switch to) is tested, and a core
without it goes to `"fault"`. Addresses wrap at `AddressSpace`. A core that has
reached its idle loop may run a thread whose assertion fails, and prints.

## 3. Runs

| Run | Instance | What it shows |
|---|---|---|
| `kernel` | 2 cores, 3 threads, a mutex and a semaphore of 0, 5 calls | every safety property of the thread layer, `IInv`, and `Kernel` implements `SemaphoreSpec` |
| `kernel_live` | same with 2 threads | a thread let through returns from `down`; `Mutex::lock` returns unless the holder waits for ever; at the end everything is idle and only blocked threads remain |
| `spin_queue` | 2 cores, 3 nodes, 2 values | sound list, owned nodes, drained on destruction, implements `Fifo` |
| `heap` | 2 cores, arena of 8 tags, sizes of 0, 1 and 3 bytes (tags of 2) | tiling, coalescing, ownership, room, failure only for want of room or of a size, implements `Allocator`; the lock is given back on every path |
| `disk` | 2 cores, 2 reads of up to 3 sectors, 2-bit indices, 6 buses | right data until a timeout, requests in range and only after a complete handshake, rings in step; `read_sectors` returns whatever the device does |
| `volume` | 4-byte fields of 8 bits at their extremes, sectors wrong in one field, and a volume of 3 clusters of 2 sectors with 64 FATs | clusters lie on the disk; the metadata is the disk's; `fat_next` reads every cluster's entry; bytes, failures and cache of reads are right; `read` returns |
| `find` | 2 clusters of 2 entries: all directories of four entries of 12 kinds, the last a short one, against 4 names without `?`, and nested and cyclic directories against 6 paths | no store outside `lfn`, no sector outside the volume; the entry found is the one the format defines; `find` returns |
| `boot` | 3 cores in every order, a FIFO of 1, wrapping addresses, 1 core that panics | nothing is used before it is set up, each core has its own slot, `print` is atomic, every core gets to its idle loop |

Four more runs, `kernel_destroy`, `heap_huge`, `disk_late` and `find_question`, are
expected to find a violation, each of a statement in the source (section 5).

*Why the bounds are enough.* Two cores and three threads give every pairing of a
core in `up` or `down` with another in the idle loop, a thread blocked, one being
blocked and one running; five calls allow a thread to be created, block, be woken
and stop while another uses the same semaphore. Three nodes allow a queue of one
and a node in each core's hands. Eight tags hold two blocks of three tags
and a free rest of two, so a block has free neighbours on both sides, and a split
leaves a remainder of zero, one, two or more tags. Two-bit indices wrap within the reads made. Three clusters
make chains that end early, on time, and in cycles of each length. Eight-bit
integers overflow in every product and sum the code forms in 32 bits. Four entries
hold a name of two pieces and its short entry with a stale, deleted or foreign
entry before, between or in their place, across the edge of a cluster; an ordinal
of 4 is the first that does not fit in the buffer, and the path's components have
lengths up to one more than the limit. Three cores are two that greet while the
third prints its banner and panics, `g_table` has no entry to spare, and the image
and the table lie so that the address computed for the table wraps.

*Symmetry* is used for the threads in `kernel`, which checks no liveness.
*Deadlock* is checked except in `disk*`, `volume` and `kernel_destroy`, where the
bound on reads, a constructor that gives up and the first destructor stop the
system.

*Fairness.* A core always executes its next instruction: weak fairness of each
core's step, or of each core inside a call. In `Kernel` that includes the threads' own
code: a thread at `"user"` goes on to make a call or to return, so `Quiesces` and
`MutexLockReturns` are about threads that do not compute for ever, and that give back
the mutexes they hold. Elsewhere nothing is assumed of callers outside a call. Nothing
is assumed of the disk device: that the poll loop ends rests on its limit alone. In
`Boot` the UART is fair too: `putc_raw()` polls without a limit, so a UART that
stops transmitting does stop the kernel.
`Spinlock` does not serve cores in order, so a core could lose the race for a lock
for ever; the liveness properties of `Kernel` are stated for finitely many calls (`MaxOps`),
where contention ends, and in `Boot` each core prints a bounded number of strings.
`ReadReturns` of the driver is likewise checked for finitely many reads (`MaxReads`),
which excludes a core that loses every race for `g_lock` to others that go on reading.
`LockReleased` of the heap and the returns of `find` and `File::read` need no such bound.

## 4. Proofs

**Threads.** Two modules prove, for any `Cores`, `Threads`, `Sems`, `Mutexes` and `MaxOps` that satisfy `KernelAssumption` (the bootstrap core is a core, counts are natural
numbers, a mutex starts at 1, the kinds of pointer are distinct):

- `Invariance`: `Spec => []IInv`;
- and from it `TypeCorrect` (`TypeOK`), `ThreadsInOnePlace` (`OnePlace`),
  `StacksExclusive` (`OneStack`), `QueuedThreadsSaved` (`QueuedIsSaved`),
  `LocksExclusive` (`LockExclusive`) and `NoneLost` (`NoThreadLost`);
- `NoAssertionFails` (`NoPanic`), `CounterIsRight` (`CounterCountsBlocked`) and
  `MutualExclusion` (`MutexExclusive`);
- `SemaphoresImplemented`: `Kernel` implements `SemaphoreSpec`.

None of the first six is inductive alone. That a thread goes into a queue once
(`OnePlace`) needs to know that the slot it comes from is the only pointer to it,
which depends on where the core is: `Control` says, label by label, which slots
are set, whose stack the core is on and what `this` is. That a core resumes with
the right `pc` and `this` needs what is in the frames it loads: `FramesOK` extends
`QueuedIsSaved` to the threads a core has in hand and to its idle thread's frame.
`IInv == TypeOK /\ ControlOK /\ OnePlace /\ FramesOK /\ LockExclusive` is
inductive, and the run `kernel` checks it too. Each conjunct has a lemma of the
form *IInv and one step give the conjunct again*, with one step per action:
`TypeStep`, `ControlStep`, `PlaceStep`, `FramesStep` and `LockStep` in
`KernelProofs`. They rest on `RangeAppend` and `RangeTail` (what push
and pop do to the elements of a sequence), on `OthersSame` (a step changes the
registers and slots of one core only), and on lemmas for each way a thread moves
(`CoreToReady` and its kin).

`KernelSemaphores` builds three more invariants on `IInv`. `CountInv` relates each
semaphore's counter to the threads that wait on it, step by step of whoever holds
its lock: a thread that has decided to block is counted before it is on `q`, one
that is being woken is on `q` after it is no longer counted. From it an `up()` that
finds the counter negative finds a thread too, the only assertion that is not a
matter of control flow. `GoneInv` says that a thread that has stopped is not in the
middle of a `down()`, which `SemaphoreSpec` needs of its set of waiting threads. The
refinement then takes one step per action: a `down()` takes effect when it changes
the counter, an `up()` likewise, and all the rest, the switch and what the idle loop
does for the thread included, are stutters. `OwnerInv` says that a mutex's counter is
1 exactly when it has no owner, counting those let through and not yet returned;
`MutualExclusion` follows.

**Boot.** `BootProofs` proves `NothingBeforeItsTime` (`NoFault`) and
`EveryCoreItsSlot` (`OwnSlot`) from `BootAssumption`: finitely many cores, no more
than `g_table` has entries, listed in any order, and an image anywhere in an address
space of any size. That no core faults depends on how far the bootstrap processor
has come when the others start, so `BootInv` says, place by place, what it has
`SetUp`; that a core is out of its parking place only if it has an entry point,
which exists only once everything is set up (`Released`); and that the id a core
has, or will be given, is its place in `cpus` (`IdsListed`). That the table's
physical address is right after wrapping twice is the lemma `VirtToPhys`.

**Console.** `BootProofs` also proves `PrintAtomic` (`PrintIsAtomic`): the console, as
the cores of `Boot` use it, implements `ConsoleSpec`, in which a `print` is one step.
`ConsoleInv` says that one core at a time is in `print`, that it holds `g_lock` and has
a string to write, and that between `'\r'` and `'\n'` it is at a new line. A call takes
effect when it gets the lock: from there on what `ConsoleSpec` has printed is what the
UART has received and what the core has yet to write of its string (`Rest`), and each
character written moves from the one to the other. That `Shown`, defined by recursion
on the string, gives a character and then the rest is `ShownFirst`; the digits of a line
number (`digits`) are characters, by induction on the number.

**Disk driver.** `DiskReaderProofs` proves `RequestsStayOnDisk`
(`RequestInRange`), `RingsStayInStep` (`InStep`) and `ReadsAreRight`
(`ReadsRightUntilLate`) for any number of cores, any bus, any widths of the indices
and of the registers and any number of reads (`DiskAssumption`). `DiskInv` has six
parts: the types; `Locking`, that one core at a time is between lock and unlock;
`Probe`, what each step of the handshake has established, and that it happens once;
`InRange`, that whatever the device may yet take is on the disk, which holds after a
timeout too; `Rings`, the relation of the three indices between requests and during
one; and `Content`, that the sector in flight is the one wanted and that the buffers
hold what was read before. The last two hold until a timeout, as section 5 explains.

**Mount.** `Fat32Proofs` proves `VolumeOnDisk` (`ClustersOnDisk`),
`MetadataIsRight` (`MetadataIsDisks`) and `FatNextIsEntry` (`FatNextReadsEntry`) for any
even number of values of a byte, any disk and any boot sector whose fields fit their
places (`MountAssumption`; a sector is a whole number of words). `Decoding` shows that every offset and width
in the constructor is that of the field meant: the fields of a sector are disjoint, so
each byte belongs to one (`ByteOf`), and a number is the sum of its bytes at their
weights (`TwoBytes`, `FourBytes`, by uniqueness of quotient and remainder).
`TrimmedLabel` is about the loop that cuts the padding. `MountInv` says what has been
read (`Decoded`), derived (`Derived`) and checked at each place of the constructor.
Nothing in it wraps because the tests come in the right order: the 64-bit
`data_start` is below `total_sectors`, which fits in 32 bits, before it is narrowed,
and since the reserved area and a FAT take at least two sectors, `cluster_count + 2` in
`valid_cluster()` does not wrap either. `SameDisk` says that the constructor leaves the
disk as it was, and `Hinted` what the hint is, depending on whether a read failed.

For `fat_next`, `Offset` shows that the byte offset of a cluster is a multiple of 4 below
the end of a sector, after wrapping too, since the integers wrap at a multiple of 4
(this is where `Radix` must be even); so the four bytes lie in one sector. They are those
of one word of the disk (`BytesOfWord`, `FourOfWord`), and unless the offset wraps it is
the cluster's entry. The sector is on the disk because a cluster takes at least as much
room as its entry does.
`LinksAreTheDisks` ties the two halves of `Fat32Volume` together: the link that `Walk`
follows is what `fat_next` reads from the disk that was mounted, again unless the offset
wraps. `VolumeParts` carries the theorems about `FileRead` and `Fat32Mount` over to
`Fat32Volume`.

**Path lookup.** `Fat32FindProofs` proves `LookupStaysInBounds` (`InBounds`) and
`FindIsResolution` (`FindsPath`) for any geometry, FAT, directory and path
(`FindAssumption`); the latter says nothing of a path with a `?`, for which it is false
(`find_question`). For the former `FindInv` adds the types of what is read from the
disk and that a sector is entered only from a valid cluster.

The latter compares code that looks at one character, one entry and one cluster at a
time with `Resolve`, which is defined on whole directories and whole paths. `PathInv`
says how far the code has come in terms of the reference. Between components, `cur` is
what the components taken off so far resolve to; `Split` is the reference's splitting
of the path, prefix by prefix, and `SplitComponent` says that the loop of `find` cuts
off its next component. Inside `lookup`, `Walk` says that the cluster is the one the
chain has at the number of hops made, so that the entry read next is the one after the
`Seen` entries of `Listing`; `Past`, that none of those ends the directory or has the
name; and `Pending`, that `lfn` holds what a run of pieces ending here spells, if
`lfn_ok`, and that there is no such run otherwise. `Pending` is the heart of it: a piece
stored again overwrites the one before it, and so does the reference, in which the last
piece with a place for a character decides it (`StoreSpells`); there is at most one run
that ends at an entry (`RunUnique`); and a short entry takes the pending name exactly
when the reference gives it that name (`PendingName`). The bound on hops ends the walk
of a cyclic chain where `Visit` ends it. The reference depends on the disk and on the path,
which no step changes (`Frozen`); what its recursive functions compute is established
once, step by step (`SplitIs`, `VisitIs`, `ListingIs`, `ResolveIs`).

**File read.** `Fat32Proofs` also proves `ReadsAreTheFile` (`ReadsFile`),
`FailuresHaveReasons` (`FailsForReason`) and `CacheStaysSound` (`CacheSound`) for any
sector and cluster size, any FAT, file, offset and length (`ReadAssumption`; the
sizes a file may have are bounded, by 32 bits in the code). `Chain`, the reference
for all three, is a recursive function: that it solves its recursion, and that a
cluster which can be followed has all before it in the chain, is by induction.
`ReadInv` adds to the three properties the types, `CacheOnChain` (the cached cluster
is the one the chain has at the cached index) and `Places`, which says for each place
of the loop that the range is inside the file, that the walk along the FAT is on the
chain and not past the cluster wanted, and that it is there when bytes are copied.

**Spin queue.** `SpinQueueProofs` proves `ListStaysSound` (`ListSound`),
`NodesAreOwned` (`NodesOwned`) and `QueueIsFifo` (`SpinQueue` implements `Fifo`) for
any number of cores, nodes and values (`QueueAssumption`: finitely many nodes; what
`pop` and `empty` answer is no value, and not the lack of an answer). `IsList(L)` says that the
pointers spell out the sequence `L`: its nodes are distinct, `head_` is the first,
each `next` leads to the following one and the last to null. There is only one such
sequence and it is `List`, by induction along `Walk`; it is no longer than there are
nodes because its nodes are distinct. `QInv` says that `List` is a list in this
sense, that one core at a time is inside the lock (`Locking`), that `tail_` is the last
node except between the two stores of `push` (`Tails`), what each core has in hand and
that nobody else has it (`InHand`), and what `pop` has found (`Found`); `Dying` is
about the destructor, which must find the list empty when `pop` fails. In the
refinement `push` takes effect where it links its node, `pop` where it unlinks one and `empty`
where it reads `head_`;
freeing a node later, or handing it to another core's `push`, is not seen, because a
node in hand is not in the list.

**Heap.** `HeapProofs` proves `ArenaStaysTiled` (`TilesArena`), `FreeBlocksMerge`
(`Coalesced`), `NoLeakNoDouble` (`InUseIsOwned`), `RoomIsGiven` (`RoomForSize`),
`FailsWhenFull` (`FailsOnlyWhenFull`) and `HeapIsAllocator` (`Heap` implements
`Allocator`) for any number of cores, any alignment, arena and width of `size_t`
(`HeapAssumption`, where `2^SizeBits \in Nat` is there because the prover knows nothing
of powers), and for callers that ask for nothing within three tags of the top of
`size_t` (`SizesFit`). That hypothesis is needed: without it the run `heap_huge`
violates `RoomForSize`.

`Tiles(m, B)` says that the headers `B` tile the arena: each block has room for its
tags, ends where another begins or where the arena does, has a footer like its header,
and overlaps no other. Taking a block, splitting one and joining two (`WriteTags`,
`Splits`, `Joined`) keep the arena tiled, by the arithmetic of multiples of
`kAlignment`. `Blocks` is defined by walking from header to header, as the code does;
`Walk` shows by induction that if some set tiles the arena, the walk visits exactly
that set. So `TakeBlocks` and `MergeBlocks` can say what `malloc` and `free` make of
the set, and leave the walk alone. `HInv` says that the blocks tile the arena and no
two free ones are neighbours; that one core at a time is inside the lock (`Locked`);
that every block in use is a caller's region or in the hands of one core, and never two
of those (`Owners`, `Once`), without which a `Write` could destroy a tag or a `free`
give back another's block; that a block taken has room for what was asked (`Sized`);
and that a scan has passed over nothing that fits (`Scanned`). `FailsOnlyWhenFull` is
about the step on which `malloc` decides to return null (`DecidesNull`): a call for 0
bytes, or the end of a scan, when nothing fits (`NothingFits`). In the refinement
`malloc` takes effect when it returns and `free` when it is called: what they write in
between lies in no caller's region.

Of the inductive invariants only `IInv` is also part of a run; the others are
established by their proofs alone, and the runs check what follows from them.

Only model-checked: liveness. Liveness under fairness and `ENABLED` are out of the
prover's reach, so the temporal properties (that calls return, locks are released,
cores get to their idle loops) stay with TLC, as would modules with `RECURSIVE`
operators, of which there are none. Out of reach too is induction with the library's
theorems, which take an operator as a parameter that the provers cannot instantiate.
The proofs use induction over a set of naturals instead (`Least`, `Induction`), which
is enough for the recursive functions of the models (`Walk`, `Header`, `Chain`, `Visit`,
`Split`, `Resolve`, `Shown`). What `short_name_checksum` computes is not proved: the code
and the reference use the same one, and nothing depends on its values. That `Listing` and `Resolve` are what the format means is a matter of reading
them.

## 5. Where the source says something else

- `kernel_destroy`: the destructor's assertion looks at `q`, and a thread on its
  way to blocking is not on it yet.
- `heap_huge`: near `SIZE_MAX` the size of the block wraps around, and `malloc`
  returns a small one.
- `disk_late`: after a timeout the abandoned request's completion is taken for the
  next request's, and `read_sectors` may return true with another sector's data.
- `find_question`: `fat32.cpp:355-356` says a character past ASCII, kept as `'?'`, "never
  matches a name a caller can spell"; a path with a `?` in that place does match it.

More remarks from reading, not runs:

- `percore.hpp` says only `idle_loop()` writes `prev`, and `yield`, `stop` and `down` do
  too, which nothing depends on.
- `heap.hpp` says `malloc` returns null if no free block big enough remains; it also does
  for a size of 0, and `FailsOnlyWhenFull` makes that exception.
- The constructor of `Fat32` does not bound `cluster_count`. From `kEndOfChain - 1`
  (2^28 - 9) clusters on `valid_cluster()` accepts end-of-chain marks, contrary to
  `fat32.cpp:225-229`; `ReadsFile` and `FindsPath` take `valid_cluster()` as the test for
  the end of a chain, as the code does. From cluster 2^30 on `byte_off` wraps in
  `fat_next`, the case in which `FatNextReadsEntry` only says that the read stays on the
  disk and in its sector. Nor does the constructor compare `sectors_per_fat` with
  `cluster_count`: an entry may lie beyond the FAT it accepts.

## 6. Abstractions

- Memory is sequentially consistent. The spinlock's acquire/release and the
  driver's barriers are taken to make it so.
- A failed test-and-set, and a poll of an empty queue, change nothing; in
  `SpinQueue` and `Heap` the former is an explicit step (`Spin`).
- `Kernel` uses sequences for its queues, which `SpinQueue` justifies, and creates
  threads only while the heap has room; the hang of `operator new` is in `Heap`.
- `Boot` says of `go(main)` and `stop()` only what they need; `Kernel` models them.
- A page-table entry and the fields of MAIR and TCR are one fact, whether the UART
  is mapped; `g_image_phys_offset` and the physical addresses in descriptors go with
  them.
- `tid`, stack sizes and register offsets are left out; a string that is printed is
  a few tokens, of which only the new line and the digits matter.

*Not modelled:* `memmove()` (no caller); `print_uint()` apart from what `kpanic_at`
does with it; most of `limine.h`, third-party declarations the kernel does not use;
the boot loader, the UART and the virtio device beyond what the kernel relies on; the
tests, which are client code. Stack overflow, interrupts and exceptions do not
appear because the kernel handles none.

## 7. Plan

Done: every part of the kernel that has state; the thread layer, the spin queue, the
heap, the boot sequence, the console, the driver and the file system proved.
What could come next:

1. **Semaphore lifetime**: constructor and destructor inside `Kernel`, once the
   kernel says when a semaphore may be destroyed; today `up` still holds `lock_` when
   the thread it woke may destroy it.
2. **Composition**: `File::read` and `find` from several threads over one disk reader.
3. **Proofs**: that every call returns, by hand-written ranking functions, since the
   prover does not do fairness.
