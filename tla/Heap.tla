-------------------------------- MODULE Heap --------------------------------
(***************************************************************************)
(* heap.cpp: a first-fit, coalescing allocator over a fixed arena.  Every  *)
(* block is bracketed by two copies of a Tag.  An address is an offset     *)
(* into g_arena, in bytes; memory is a function on the addresses a Tag can *)
(* be at, so a caller that writes to its region overwrites whatever tags   *)
(* the allocator had left in it.  size_t is SizeBits wide.                 *)
(***************************************************************************)
EXTENDS Integers

CONSTANTS
  Procs,       \* cores
  kAlignment,  \* also sizeof(Tag)
  kArenaSize,
  SizeBits,    \* the width of size_t
  Sizes,       \* the sizes callers ask for
  NULL

ASSUME HeapAssumption ==
  /\ kAlignment \in Nat \ {0}
  /\ kArenaSize \in Nat /\ kArenaSize % kAlignment = 0
  /\ SizeBits \in Nat /\ 2^SizeBits \in Nat /\ Sizes \subseteq 0 .. 2^SizeBits - 1
  /\ kArenaSize < 2^SizeBits /\ kArenaSize >= 2 * kAlignment
  /\ NULL \notin Int

VARIABLES
  g_lock,
  mem,       \* what is at each address of the arena, read as a Tag
  pc, size,  \* each core: where it is, the `size` it asked for
  block,     \* `block` of malloc() and free()
  live       \* the regions callers own: [ptr, size]

vars == <<g_lock, mem, pc, size, block, live>>

kTagSize      == kAlignment
kMinBlockSize == 2 * kTagSize
Addr          == {a \in 0 .. kArenaSize - 1 : a % kAlignment = 0}

size_t(n) == n % 2^SizeBits

Tag(n, used) == [block_size |-> n, in_use |-> used]

(* Faulty: rounds down.                                                    *)
AlignDown(n, alignment) == n - (n % alignment)

align_up(n, alignment) == LET m == size_t(n + alignment - 1) IN m - (m % alignment)

needed(n) == size_t(align_up(n, kAlignment) + 2 * kTagSize)

footer_of(m, header) == header + m[header].block_size - kTagSize

payload_of(header) == header + kTagSize

header_of(payload) == payload - kTagSize

(* Faulty: writes the header only.                                         *)
WriteHeader(m, header, n, in_use) == [m EXCEPT ![header] = Tag(n, in_use)]

write_tags(m, header, n, in_use) ==
  LET h == [m EXCEPT ![header] = Tag(n, in_use)] IN
  [h EXCEPT ![footer_of(h, header)] = Tag(n, in_use)]

next_block(m, header) ==
  LET n == header + m[header].block_size IN IF n < kArenaSize THEN n ELSE NULL

prev_block(m, header) ==
  IF header = 0 THEN NULL ELSE header - m[header - kTagSize].block_size

(* heap::init() on an arena that is zero when the kernel is loaded.        *)
init == write_tags([a \in Addr |-> Tag(0, FALSE)], 0, kArenaSize, FALSE)

Init ==
  /\ g_lock = FALSE
  /\ mem = init
  /\ pc = [p \in Procs |-> "idle"]
  /\ size = [p \in Procs |-> 0]
  /\ block = [p \in Procs |-> NULL]
  /\ live = {}

-----------------------------------------------------------------------------
(* malloc(), and operator new on top of it.  malloc(0) returns nullptr     *)
(* without a look at the heap.                                             *)

MallocCall(p, n) ==
  /\ pc[p] = "idle"
  /\ pc' = [pc EXCEPT ![p] = IF n = 0 THEN "null" ELSE "malloc_lock"]
  /\ size' = [size EXCEPT ![p] = n]
  /\ UNCHANGED <<g_lock, mem, block, live>>

MallocLock(p) ==
  /\ pc[p] = "malloc_lock"
  /\ ~g_lock
  /\ g_lock' = TRUE
  /\ pc' = [pc EXCEPT ![p] = "scan"]
  /\ block' = [block EXCEPT ![p] = 0]
  /\ UNCHANGED <<mem, size, live>>

(* Faulty: does not look at in_use.                                        *)
FitsInUse(b, n) == mem[b].block_size >= n

(* Faulty: an exact fit is not one.                                        *)
FitsStrict(b, n) == ~mem[b].in_use /\ mem[b].block_size > n

Fits(b, n) == ~mem[b].in_use /\ mem[b].block_size >= n

(* Round the loop: the block is in use or too small.                       *)
MallocNext(p) ==
  /\ pc[p] = "scan"
  /\ block[p] # NULL
  /\ ~Fits(block[p], needed(size[p]))
  /\ block' = [block EXCEPT ![p] = next_block(mem, block[p])]
  /\ UNCHANGED <<g_lock, mem, pc, size, live>>

(* Faulty: marks the remainder of the split as in use.                     *)
TakeLosesRest(b, n) ==
  LET m == write_tags(mem, b, n, TRUE) IN
  IF mem[b].block_size - n >= kMinBlockSize
  THEN write_tags(m, next_block(m, b), mem[b].block_size - n, TRUE)
  ELSE write_tags(mem, b, mem[b].block_size, TRUE)

(* Memory once the block is taken, and what is left of it split off if it  *)
(* can stand alone.                                                        *)
Take(b, n) ==
  LET m == write_tags(mem, b, n, TRUE) IN
  IF mem[b].block_size - n >= kMinBlockSize
  THEN write_tags(m, next_block(m, b), mem[b].block_size - n, FALSE)
  ELSE write_tags(mem, b, mem[b].block_size, TRUE)

MallocTake(p) ==
  /\ pc[p] = "scan"
  /\ block[p] # NULL
  /\ Fits(block[p], needed(size[p]))
  /\ mem' = Take(block[p], needed(size[p]))
  /\ pc' = [pc EXCEPT ![p] = "took"]
  /\ UNCHANGED <<g_lock, size, block, live>>

MallocReturn(p) ==
  /\ pc[p] = "took"
  /\ g_lock' = FALSE
  /\ live' = live \cup {[ptr |-> payload_of(block[p]), size |-> size[p]]}
  /\ pc' = [pc EXCEPT ![p] = "idle"]
  /\ size' = [size EXCEPT ![p] = 0]
  /\ block' = [block EXCEPT ![p] = NULL]
  /\ UNCHANGED mem

(* Faulty: returns nullptr with the lock held.                             *)
MallocFailLocked(p) ==
  /\ pc[p] = "scan"
  /\ block[p] = NULL
  /\ pc' = [pc EXCEPT ![p] = "null"]
  /\ UNCHANGED <<g_lock, mem, size, block, live>>

MallocFail(p) ==
  /\ pc[p] = "scan"
  /\ block[p] = NULL
  /\ g_lock' = FALSE
  /\ pc' = [pc EXCEPT ![p] = "null"]
  /\ UNCHANGED <<mem, size, block, live>>

(* Who called malloc(): it matters only when malloc() returns nullptr.     *)
Callers == {"new", "other"}

(* nullptr is returned: operator new then hangs in out_of_memory().        *)
NullReturn(p, f) ==
  /\ pc[p] = "null"
  /\ pc' = [pc EXCEPT ![p] = IF f = "new" THEN "oom" ELSE "idle"]
  /\ size' = [size EXCEPT ![p] = 0]
  /\ UNCHANGED <<g_lock, mem, block, live>>

out_of_memory(p) == pc[p] = "oom" /\ UNCHANGED vars

-----------------------------------------------------------------------------
(* free(), which the four forms of operator delete call.  free(nullptr)    *)
(* returns and changes nothing.                                            *)

FreeCall(p, x) ==
  /\ pc[p] = "idle"
  /\ pc' = [pc EXCEPT ![p] = "free_lock"]
  /\ block' = [block EXCEPT ![p] = header_of(x.ptr)]
  /\ live' = live \ {x}
  /\ UNCHANGED <<g_lock, mem, size>>

FreeLock(p) ==
  /\ pc[p] = "free_lock"
  /\ ~g_lock
  /\ g_lock' = TRUE
  /\ pc' = [pc EXCEPT ![p] = "merge"]
  /\ UNCHANGED <<mem, size, block, live>>

(* Faulty: merges with the next block only.                                *)
MergeForward(b) ==
  LET next == next_block(mem, b)
      Size(c) == IF c # NULL /\ ~mem[c].in_use THEN mem[c].block_size ELSE 0
  IN  write_tags(mem, b, mem[b].block_size + Size(next), FALSE)

(* Memory once the block is free and merged with its free neighbours.      *)
Merge(b) ==
  LET next == next_block(mem, b)
      prev == prev_block(mem, b)
      Size(c) == IF c # NULL /\ ~mem[c].in_use THEN mem[c].block_size ELSE 0
      lo == IF Size(prev) # 0 THEN prev ELSE b
  IN  write_tags(mem, lo, mem[b].block_size + Size(next) + Size(prev), FALSE)

FreeMerge(p) ==
  /\ pc[p] = "merge"
  /\ mem' = Merge(block[p])
  /\ pc' = [pc EXCEPT ![p] = "free_unlock"]
  /\ UNCHANGED <<g_lock, size, block, live>>

FreeUnlock(p) ==
  /\ pc[p] = "free_unlock"
  /\ g_lock' = FALSE
  /\ pc' = [pc EXCEPT ![p] = "idle"]
  /\ block' = [block EXCEPT ![p] = NULL]
  /\ UNCHANGED <<mem, size, live>>

(* Spinlock::lock(): a test-and-set that finds the lock taken, and tries   *)
(* again.                                                                  *)
Spin(p) == pc[p] \in {"malloc_lock", "free_lock"} /\ g_lock /\ UNCHANGED vars

-----------------------------------------------------------------------------
(* The caller.  The aligned addresses of a region, and what it may write   *)
(* there: what would be the worst to take for a tag.                       *)
Cells(x) == {a \in Addr : a >= x.ptr /\ a < x.ptr + x.size}

Data == Tag(kMinBlockSize, FALSE)

Write(x) ==
  /\ mem' = [a \in Addr |-> IF a \in Cells(x) THEN Data ELSE mem[a]]
  /\ UNCHANGED <<g_lock, pc, size, block, live>>

-----------------------------------------------------------------------------
Malloc(p) ==
  \/ \E n \in Sizes : MallocCall(p, n)
  \/ MallocLock(p) \/ MallocNext(p) \/ MallocTake(p) \/ MallocReturn(p)
  \/ MallocFail(p) \/ \E f \in Callers : NullReturn(p, f)

Free(p) ==
  \/ \E x \in live : FreeCall(p, x)
  \/ FreeLock(p) \/ FreeMerge(p) \/ FreeUnlock(p)

Step(p) == Malloc(p) \/ Free(p) \/ Spin(p) \/ out_of_memory(p)

Next ==
  \/ \E p \in Procs : Step(p)
  \/ \E x \in live : Write(x)

Spec == Init /\ [][Next]_vars

(* A core that is inside malloc() or free() goes on with it.               *)
FairSpec == Spec /\ \A p \in Procs : WF_vars(pc[p] # "idle" /\ Step(p))

-----------------------------------------------------------------------------
Labels ==
  {"idle", "malloc_lock", "scan", "took", "null", "oom", "free_lock", "merge", "free_unlock"}

TypeOK ==
  /\ g_lock \in BOOLEAN
  /\ mem \in [Addr -> [block_size : 0 .. kArenaSize, in_use : BOOLEAN]]
  /\ pc \in [Procs -> Labels]
  /\ size \in [Procs -> Sizes \cup {0}]
  /\ block \in [Procs -> Addr \cup {NULL}]
  /\ live \subseteq [ptr : Addr, size : Sizes]

(* How many tags the arena has room for: more than it can have blocks.     *)
Places == kArenaSize \div kTagSize

(* The headers, found the way malloc() finds them: the i-th block from the *)
(* start of the arena, kArenaSize once past the last.                      *)
Header[i \in 0 .. Places] ==
  IF i = 0 THEN 0
  ELSE IF Header[i - 1] \in Addr THEN Header[i - 1] + mem[Header[i - 1]].block_size
  ELSE Header[i - 1]

Blocks == {Header[i] : i \in DOMAIN Header} \ {kArenaSize}

(* The state is well typed and, whenever the lock is free, the blocks tile *)
(* the arena: the walk over the headers ends exactly at its end, and the   *)
(* two tags of every block agree, so that free() can find both neighbours. *)
TilesArena ==
  /\ TypeOK
  /\ ~g_lock =>
       /\ Header[Places] = kArenaSize
       /\ \A b \in Blocks :
            mem[b].block_size >= kMinBlockSize /\ mem[footer_of(mem, b)] = mem[b]

(* Whenever the lock is free no two free blocks are next to each other, so *)
(* that once everything is freed the arena is one block again.             *)
Coalesced ==
  ~g_lock =>
    \A b \in Blocks : ~mem[b].in_use /\ next_block(mem, b) # NULL => mem[next_block(mem, b)].in_use

(* Whenever the lock is free the blocks in use are exactly those callers   *)
(* own, or are about to free(), one each: none leaks, none is given twice. *)
InUseIsOwned ==
  ~g_lock =>
    LET held == {header_of(x.ptr) : x \in live}
        back == {block[p] : p \in {r \in Procs : pc[r] = "free_lock"}}
    IN  /\ {b \in Blocks : mem[b].in_use} = held \cup back
        /\ held \cap back = {}
        /\ \A x, y \in live : x.ptr = y.ptr => x = y

(* malloc(): a block handed out has room between its tags for at least     *)
(* `size` bytes (heap.hpp).                                                *)
RoomForSize == \A x \in live : mem[header_of(x.ptr)].block_size >= x.size + 2 * kTagSize

(* malloc() returns nullptr only if no free block is big enough (heap.hpp),*)
(* with one exception that heap.hpp does not make: it always does so when  *)
(* it is asked for no bytes at all.                                        *)
FailsOnlyWhenFull ==
  [][\A p \in Procs :
       pc[p] # "null" /\ pc'[p] = "null" =>
         \/ size'[p] = 0
         \/ ~ \E b \in Blocks : ~mem[b].in_use /\ mem[b].block_size >= size[p] + 2 * kTagSize]_vars

(* The heap is the allocator its header promises: regions are disjoint,    *)
(* and no malloc() or free(), of any core, changes what one holds.         *)
Abstract == INSTANCE Allocator WITH
  owned <- live,
  content <- [a \in UNION {Cells(x) : x \in live} |-> mem[a]]

ImplementsAllocator == Abstract!Spec

(* Every malloc() and free() lets go of the lock, on every path.           *)
LockReleased == g_lock ~> ~g_lock
=============================================================================
