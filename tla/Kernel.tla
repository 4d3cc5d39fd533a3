------------------------------- MODULE Kernel -------------------------------
(***************************************************************************)
(* The thread layer of the kernel: threads.cpp, tcb.cpp, context_switch.S, *)
(* scheduler.cpp, percore.cpp, semaphore.cpp and mutex.cpp, running on     *)
(* several cores at once.                                                  *)
(*                                                                         *)
(* A core executes on some stack, on[c]: the boot stack Limine gave it, a  *)
(* thread's stack, or the stack of its idle thread.  pc[c] and this[c] are *)
(* its live registers: where it is in the code and the object whose method *)
(* it is in.  A TCB that is not running keeps both in the frame sp[t]      *)
(* points at, as context_switch.S leaves it there.  The idle TCB of core c *)
(* is written c, so that the TCBs are Threads \cup Cores.                  *)
(*                                                                         *)
(* One action is one access to state another core can reach (a queue, a    *)
(* spinlock, a semaphore's counter, a saved frame, the heap), together     *)
(* with the accesses to core-private state (g_table[smp::me()], locals)    *)
(* next to it.  The two queues are sequences: SpinQueue.tla shows that a   *)
(* SpinQueue is one.                                                       *)
(***************************************************************************)
EXTENDS Integers, Sequences, Functions

CONSTANTS
  Cores,      \* the cores; core c is also the name of its idle TCB
  Bsp,        \* the bootstrap processor, the core that runs kmain()
  Threads,    \* TCBs that fit in the heap
  Sems,       \* the semaphores
  Mutexes,    \* the semaphores that are the `sem` of a Mutex
  InitCount,  \* the `cnt` each semaphore is constructed with
  MaxOps,     \* bound: how many calls the threads' code makes in all
  Boot,       \* the stack a core starts on
  NULL        \* nullptr

ASSUME KernelAssumption ==
  /\ Bsp \in Cores
  /\ Mutexes \subseteq Sems
  /\ InitCount \in [Sems -> Nat]
  /\ \A m \in Mutexes : InitCount[m] = 1
  /\ MaxOps \in Nat
  /\ Cores \cap Threads = {}
  /\ Boot \notin Cores \cup Threads \cup Sems
  /\ NULL \notin Cores \cup Threads \cup Sems \cup {Boot}

VARIABLES
  pc, this, on, tmp,             \* registers and locals of each core
  prev, curr, to_delete, to_reschedule, to_queue, to_add_to, to_unlock,
                                 \* the fields of percore::g_table[c]
  ready,                         \* g_ready_queue
  alive, sp,                     \* the TCBs in the heap, and their frames
  counter, q, lock_,             \* the fields of each semaphore
  held,                          \* the mutexes each thread's code has locked
  ops                            \* calls made so far

regs    == <<pc, this, on, tmp>>
percore == <<prev, curr, to_delete, to_reschedule, to_queue, to_add_to, to_unlock>>
tcbs    == <<alive, sp>>
sems    == <<counter, q, lock_>>
client  == <<held, ops>>
vars    == <<regs, percore, ready, tcbs, sems, client>>

TCB == Threads \cup Cores

(* What a frame holds that matters here: x30, where context_switch()'s     *)
(* `ret` goes, and the callee-saved register that carries `this`.          *)
SavedFrame(x30, obj) == [x30 |-> x30, this |-> obj]

Freed == SavedFrame("freed", NULL)

Init ==
  /\ pc = [c \in Cores |-> IF c = Bsp THEN "boot_go" ELSE "boot_stop"]
  /\ this = [c \in Cores |-> NULL]
  /\ on = [c \in Cores |-> Boot]
  /\ tmp = [c \in Cores |-> NULL]
  /\ prev = [c \in Cores |-> NULL]
  /\ curr = [c \in Cores |-> NULL]
  /\ to_delete = [c \in Cores |-> NULL]
  /\ to_reschedule = [c \in Cores |-> NULL]
  /\ to_queue = [c \in Cores |-> NULL]
  /\ to_add_to = [c \in Cores |-> NULL]
  /\ to_unlock = [c \in Cores |-> NULL]
  /\ ready = <<>>
  /\ alive = {}
  /\ sp = [t \in TCB |-> IF t \in Cores THEN SavedFrame("idle_loop", NULL) ELSE Freed]
  /\ counter = InitCount
  /\ q = [s \in Sems |-> <<>>]
  /\ lock_ = [s \in Sems |-> FALSE]
  /\ held = [t \in Threads |-> {}]
  /\ ops = 0

-----------------------------------------------------------------------------
(* Small steps shared by the operations.                                   *)

Goto(c, label) == pc' = [pc EXCEPT ![c] = label]

(* A thread's code makes a call: it is running, and the bound allows it.   *)
Call(c) ==
  /\ pc[c] = "user"
  /\ ops < MaxOps
  /\ ops' = ops + 1

(* scheduler::schedule() *)
Schedule(t) == ready' = Append(ready, t)

(* pc.prev = pc.curr; pc.curr = next; and on to switch_to(), from `label`. *)
BeginSwitch(c, next, label) ==
  /\ prev' = [prev EXCEPT ![c] = curr[c]]
  /\ curr' = [curr EXCEPT ![c] = next]
  /\ Goto(c, label)

(* Where switch_to() returns to, when someone switches back.               *)
ReturnAddress ==
  [yield_sw |-> "user", stop_sw |-> "unreachable", down_sw |-> "down_ret", idle_sw |-> "idle_ret"]

(* context_switch(), first half: the registers go on the outgoing stack    *)
(* and its sp into prev->sp, or into a scratch word when prev is nullptr.  *)
SwitchSave(c) ==
  /\ pc[c] \in {"yield_sw", "stop_sw", "down_sw", "idle_sw"}
  /\ sp' = [t \in TCB |-> IF t = prev[c]
                          THEN SavedFrame(ReturnAddress[pc[c]], this[c])
                          ELSE sp[t]]
  /\ Goto(c, "load")
  /\ UNCHANGED <<this, on, tmp, percore, ready, alive, sems, client>>

(* context_switch(), second half: from here on the core is on next's stack *)
(* and has next's registers.                                               *)
SwitchLoad(c) ==
  /\ pc[c] = "load"
  /\ on' = [on EXCEPT ![c] = curr[c]]
  /\ this' = [this EXCEPT ![c] = sp[curr[c]].this]
  /\ Goto(c, sp[curr[c]].x30)
  /\ UNCHANGED <<tmp, percore, ready, tcbs, sems, client>>

-----------------------------------------------------------------------------
(* threads.cpp                                                             *)

(* go(), as far as make_thread_tcb(): any free TCB, its stack holding a    *)
(* frame that starts in the thread's own code.                             *)
GoMake(c) ==
  /\ \/ pc[c] = "boot_go" /\ UNCHANGED ops
     \/ Call(c)
  /\ \E t \in Threads \ alive :
       /\ alive' = alive \cup {t}
       /\ sp' = [sp EXCEPT ![t] = SavedFrame("user", NULL)]
       /\ tmp' = [tmp EXCEPT ![c] = t]
  /\ Goto(c, "go_sched")
  /\ UNCHANGED <<this, on, percore, ready, sems, held>>

(* go(), the rest: hand the new TCB to the scheduler.  kmain() then stops. *)
GoSchedule(c) ==
  /\ pc[c] = "go_sched"
  /\ Schedule(tmp[c])
  /\ tmp' = [tmp EXCEPT ![c] = NULL]
  /\ Goto(c, IF on[c] = Boot THEN "boot_stop" ELSE "user")
  /\ UNCHANGED <<this, on, percore, tcbs, sems, client>>

(* Faulty variants of Yield, to show what the properties notice: the       *)
(* thread puts itself on the ready queue while still on its stack, ...     *)
YieldQueuesItself(c) ==
  /\ Call(c)
  /\ Schedule(curr[c])
  /\ BeginSwitch(c, c, "yield_sw")
  /\ UNCHANGED <<this, on, tmp, to_delete, to_reschedule, to_queue, to_add_to,
                 to_unlock, tcbs, sems, held>>

(* ... or forgets to ask to be rescheduled.                                *)
YieldForgets(c) ==
  /\ Call(c)
  /\ BeginSwitch(c, c, "yield_sw")
  /\ UNCHANGED <<this, on, tmp, to_delete, to_reschedule, to_queue, to_add_to,
                 to_unlock, ready, tcbs, sems, held>>

Yield(c) ==
  /\ Call(c)
  /\ to_reschedule' = [to_reschedule EXCEPT ![c] = curr[c]]
  /\ BeginSwitch(c, c, "yield_sw")
  /\ UNCHANGED <<this, on, tmp, to_delete, to_queue, to_add_to, to_unlock,
                 ready, tcbs, sems, held>>

(* stop(): by a thread whose function returned (thread_entry()), which has *)
(* unlocked its mutexes, or by a core at the end of kmain() or ap_entry(). *)
Stop(c) ==
  /\ \/ pc[c] = "boot_stop"
     \/ pc[c] = "user" /\ held[on[c]] = {}
  /\ to_delete' = [to_delete EXCEPT ![c] = curr[c]]
  /\ BeginSwitch(c, c, "stop_sw")
  /\ UNCHANGED <<this, on, tmp, to_reschedule, to_queue, to_add_to, to_unlock,
                 ready, tcbs, sems, client>>

-----------------------------------------------------------------------------
(* percore.cpp: idle_loop()                                                *)

IdleEnter(c) ==
  /\ pc[c] = "idle_loop"
  /\ curr' = [curr EXCEPT ![c] = c]
  /\ Goto(c, "idle_next")
  /\ UNCHANGED <<this, on, tmp, prev, to_delete, to_reschedule, to_queue,
                 to_add_to, to_unlock, ready, tcbs, sems, client>>

(* scheduler::next() pops a thread.  On an empty queue it returns nullptr  *)
(* and the loop asks again, which changes nothing.                         *)
IdleNext(c) ==
  /\ pc[c] = "idle_next"
  /\ ready # <<>>
  /\ ready' = Tail(ready)
  /\ BeginSwitch(c, Head(ready), "idle_sw")
  /\ UNCHANGED <<this, on, tmp, to_delete, to_reschedule, to_queue, to_add_to,
                 to_unlock, tcbs, sems, client>>

IdlePoll(c) ==
  /\ pc[c] = "idle_next"
  /\ ready = <<>>
  /\ UNCHANGED vars

(* Faulty: to_delete is not cleared after the delete.                      *)
IdleDeleteNoClear(c) ==
  /\ pc[c] = "idle_ret"
  /\ alive' = alive \ {to_delete[c]}
  /\ sp' = [t \in TCB |-> IF t = to_delete[c] THEN Freed ELSE sp[t]]
  /\ Goto(c, "idle_queue")
  /\ UNCHANGED <<this, on, tmp, percore, ready, sems, client>>

(* Back on the idle stack: free the TCB that stopped, if that is why.      *)
IdleDelete(c) ==
  /\ pc[c] = "idle_ret"
  /\ alive' = alive \ {to_delete[c]}
  /\ sp' = [t \in TCB |-> IF t = to_delete[c] THEN Freed ELSE sp[t]]
  /\ to_delete' = [to_delete EXCEPT ![c] = NULL]
  /\ Goto(c, "idle_queue")
  /\ UNCHANGED <<this, on, tmp, prev, curr, to_reschedule, to_queue, to_add_to,
                 to_unlock, ready, sems, client>>

(* The thread blocked in down(): put it on the semaphore's queue, ...      *)
IdleEnqueue(c) ==
  /\ pc[c] = "idle_queue"
  /\ to_queue[c] # NULL
  /\ IF to_add_to[c] = NULL \/ to_unlock[c] = NULL
     THEN Goto(c, "panic") /\ UNCHANGED q
     ELSE /\ q' = [q EXCEPT ![to_add_to[c]] = Append(@, to_queue[c])]
          /\ Goto(c, "idle_unlock")
  /\ UNCHANGED <<this, on, tmp, percore, ready, tcbs, counter, lock_, client>>

(* ... and only then release the semaphore's lock on its behalf.           *)
IdleUnlock(c) ==
  /\ pc[c] = "idle_unlock"
  /\ lock_' = [lock_ EXCEPT ![to_unlock[c]] = FALSE]
  /\ to_queue' = [to_queue EXCEPT ![c] = NULL]
  /\ to_add_to' = [to_add_to EXCEPT ![c] = NULL]
  /\ to_unlock' = [to_unlock EXCEPT ![c] = NULL]
  /\ Goto(c, "idle_resched")
  /\ UNCHANGED <<this, on, tmp, prev, curr, to_delete, to_reschedule, ready,
                 tcbs, counter, q, client>>

IdleNoQueue(c) ==
  /\ pc[c] = "idle_queue"
  /\ to_queue[c] = NULL
  /\ Goto(c, "idle_resched")
  /\ UNCHANGED <<this, on, tmp, percore, ready, tcbs, sems, client>>

(* The thread yielded: now that nothing runs on its stack, it is ready.    *)
IdleReschedule(c) ==
  /\ pc[c] = "idle_resched"
  /\ IF to_reschedule[c] # NULL THEN Schedule(to_reschedule[c]) ELSE UNCHANGED ready
  /\ to_reschedule' = [to_reschedule EXCEPT ![c] = NULL]
  /\ Goto(c, "idle_next")
  /\ UNCHANGED <<this, on, tmp, prev, curr, to_delete, to_queue, to_add_to,
                 to_unlock, tcbs, sems, client>>

-----------------------------------------------------------------------------
(* semaphore.cpp and mutex.cpp                                             *)

(* A thread's code calls s.down() or s.up(): any semaphore that is not a   *)
(* mutex, at any time.                                                     *)
SemDown(c) ==
  /\ Call(c)
  /\ \E s \in Sems \ Mutexes : this' = [this EXCEPT ![c] = s]
  /\ Goto(c, "down_lock")
  /\ UNCHANGED <<on, tmp, percore, ready, tcbs, sems, held>>

SemUp(c) ==
  /\ Call(c)
  /\ \E s \in Sems \ Mutexes : this' = [this EXCEPT ![c] = s]
  /\ Goto(c, "up_lock")
  /\ UNCHANGED <<on, tmp, percore, ready, tcbs, sems, held>>

(* Mutex::lock() by a thread that does not hold it, Mutex::unlock() by the *)
(* one that does.  Unlocking is always possible, whatever the bound.       *)
MutexLock(c) ==
  /\ Call(c)
  /\ \E m \in Mutexes \ held[on[c]] : this' = [this EXCEPT ![c] = m]
  /\ Goto(c, "down_lock")
  /\ UNCHANGED <<on, tmp, percore, ready, tcbs, sems, held>>

MutexUnlock(c) ==
  /\ pc[c] = "user"
  /\ \E m \in held[on[c]] :
       /\ this' = [this EXCEPT ![c] = m]
       /\ held' = [held EXCEPT ![on[c]] = @ \ {m}]
  /\ Goto(c, "up_lock")
  /\ UNCHANGED <<on, tmp, percore, ready, tcbs, sems, ops>>

(* Faulty: sets the lock without testing it.                               *)
AcquireNoTest(c, from, to) ==
  /\ pc[c] = from
  /\ lock_' = [lock_ EXCEPT ![this[c]] = TRUE]
  /\ Goto(c, to)
  /\ UNCHANGED <<this, on, tmp, percore, ready, tcbs, counter, q, client>>

(* Spinlock::lock(): the test-and-set that succeeds.  One that fails       *)
(* changes nothing.                                                        *)
Acquire(c, from, to) ==
  /\ pc[c] = from
  /\ ~lock_[this[c]]
  /\ lock_' = [lock_ EXCEPT ![this[c]] = TRUE]
  /\ Goto(c, to)
  /\ UNCHANGED <<this, on, tmp, percore, ready, tcbs, counter, q, client>>

(* down() or up() returns to the thread's code; a Mutex::lock() that       *)
(* returns has locked the mutex.                                           *)
ReturnToUser(c) ==
  /\ this' = [this EXCEPT ![c] = NULL]
  /\ Goto(c, "user")

Locked(c) ==
  held' = IF this[c] \in Mutexes
          THEN [held EXCEPT ![on[c]] = @ \cup {this[c]}] ELSE held

DownLock(c) == Acquire(c, "down_lock", "down_dec")

(* Faulty: tests counter before decrementing it.                           *)
MustBlockPostfix(c) == counter[this[c]] < 0

(* The test in `if (--counter < 0)`.                                       *)
MustBlock(c) == counter[this[c]] - 1 < 0

(* Faulty: the thread queues itself, while the core is still on its stack. *)
DownBlockQueuesItself(c) ==
  /\ pc[c] = "down_dec"
  /\ MustBlock(c)
  /\ counter' = [counter EXCEPT ![this[c]] = @ - 1]
  /\ q' = [q EXCEPT ![this[c]] = Append(@, curr[c])]
  /\ lock_' = [lock_ EXCEPT ![this[c]] = FALSE]
  /\ BeginSwitch(c, c, "down_sw")
  /\ UNCHANGED <<this, on, tmp, to_delete, to_reschedule, to_queue, to_add_to,
                 to_unlock, ready, tcbs, client>>

(* --counter < 0: ask the idle thread to queue this thread and to release  *)
(* lock_, which stays locked across the switch.                            *)
DownBlock(c) ==
  /\ pc[c] = "down_dec"
  /\ MustBlock(c)
  /\ counter' = [counter EXCEPT ![this[c]] = @ - 1]
  /\ to_queue' = [to_queue EXCEPT ![c] = curr[c]]
  /\ to_add_to' = [to_add_to EXCEPT ![c] = this[c]]
  /\ to_unlock' = [to_unlock EXCEPT ![c] = this[c]]
  /\ BeginSwitch(c, c, "down_sw")
  /\ UNCHANGED <<this, on, tmp, to_delete, to_reschedule, ready, tcbs, q, lock_, client>>

DownPass(c) ==
  /\ pc[c] = "down_dec"
  /\ ~MustBlock(c)
  /\ counter' = [counter EXCEPT ![this[c]] = @ - 1]
  /\ Goto(c, "down_unlock")
  /\ UNCHANGED <<this, on, tmp, percore, ready, tcbs, q, lock_, client>>

DownUnlock(c) ==
  /\ pc[c] = "down_unlock"
  /\ lock_' = [lock_ EXCEPT ![this[c]] = FALSE]
  /\ Locked(c)
  /\ ReturnToUser(c)
  /\ UNCHANGED <<on, tmp, percore, ready, tcbs, counter, q, ops>>

(* A thread that blocked was switched back to: down() returns.             *)
DownReturn(c) ==
  /\ pc[c] = "down_ret"
  /\ Locked(c)
  /\ ReturnToUser(c)
  /\ UNCHANGED <<on, tmp, percore, ready, tcbs, sems, ops>>

UpLock(c) == Acquire(c, "up_lock", "up_inc")

(* Faulty variants of UpInc: wakes someone when nobody waits; leaves the   *)
(* last waiter asleep; does not count the thread it wakes.                 *)
UpIncWakesAtZero(c) ==
  /\ pc[c] = "up_inc"
  /\ counter' = [counter EXCEPT ![this[c]] = @ + 1]
  /\ Goto(c, IF counter[this[c]] <= 0 THEN "up_pop" ELSE "up_unlock")
  /\ UNCHANGED <<this, on, tmp, percore, ready, tcbs, q, lock_, client>>

UpIncSkipsLast(c) ==
  /\ pc[c] = "up_inc"
  /\ counter' = [counter EXCEPT ![this[c]] = @ + 1]
  /\ Goto(c, IF counter[this[c]] + 1 < 0 THEN "up_pop" ELSE "up_unlock")
  /\ UNCHANGED <<this, on, tmp, percore, ready, tcbs, q, lock_, client>>

UpIncNotWhenWaking(c) ==
  /\ pc[c] = "up_inc"
  /\ counter' = IF counter[this[c]] < 0 THEN counter
                ELSE [counter EXCEPT ![this[c]] = @ + 1]
  /\ Goto(c, IF counter[this[c]] < 0 THEN "up_pop" ELSE "up_unlock")
  /\ UNCHANGED <<this, on, tmp, percore, ready, tcbs, q, lock_, client>>

(* if (counter++ < 0): on to waking someone, or straight to the unlock.    *)
UpInc(c) ==
  /\ pc[c] = "up_inc"
  /\ counter' = [counter EXCEPT ![this[c]] = @ + 1]
  /\ Goto(c, IF counter[this[c]] < 0 THEN "up_pop" ELSE "up_unlock")
  /\ UNCHANGED <<this, on, tmp, percore, ready, tcbs, q, lock_, client>>

(* Faulty: wakes the thread that blocked last.                             *)
UpPopNewest(c) ==
  /\ pc[c] = "up_pop"
  /\ IF q[this[c]] = <<>>
     THEN Goto(c, "panic") /\ UNCHANGED <<q, tmp>>
     ELSE LET n == Len(q[this[c]]) IN
          /\ tmp' = [tmp EXCEPT ![c] = q[this[c]][n]]
          /\ q' = [q EXCEPT ![this[c]] = SubSeq(@, 1, n - 1)]
          /\ Goto(c, "up_sched")
  /\ UNCHANGED <<this, on, percore, ready, tcbs, counter, lock_, client>>

(* q.pop() into unblocked_tcb, and ASSERT(got_value).                      *)
UpPop(c) ==
  /\ pc[c] = "up_pop"
  /\ IF q[this[c]] = <<>>
     THEN Goto(c, "panic") /\ UNCHANGED <<q, tmp>>
     ELSE /\ tmp' = [tmp EXCEPT ![c] = Head(q[this[c]])]
          /\ q' = [q EXCEPT ![this[c]] = Tail(@)]
          /\ Goto(c, "up_sched")
  /\ UNCHANGED <<this, on, percore, ready, tcbs, counter, lock_, client>>

(* Faulty: does not schedule the thread it took off the queue.             *)
UpScheduleForgets(c) ==
  /\ pc[c] = "up_sched"
  /\ tmp' = [tmp EXCEPT ![c] = NULL]
  /\ Goto(c, "up_unlock")
  /\ UNCHANGED <<this, on, percore, ready, tcbs, sems, client>>

UpSchedule(c) ==
  /\ pc[c] = "up_sched"
  /\ Schedule(tmp[c])
  /\ tmp' = [tmp EXCEPT ![c] = NULL]
  /\ Goto(c, "up_unlock")
  /\ UNCHANGED <<this, on, percore, tcbs, sems, client>>

UpUnlock(c) ==
  /\ pc[c] = "up_unlock"
  /\ lock_' = [lock_ EXCEPT ![this[c]] = FALSE]
  /\ ReturnToUser(c)
  /\ UNCHANGED <<on, tmp, percore, ready, tcbs, counter, q, client>>

-----------------------------------------------------------------------------
Idle(c) ==
  \/ IdleEnter(c) \/ IdleNext(c) \/ IdlePoll(c) \/ IdleDelete(c)
  \/ IdleEnqueue(c) \/ IdleUnlock(c) \/ IdleNoQueue(c) \/ IdleReschedule(c)

Thread(c) ==
  \/ GoMake(c) \/ GoSchedule(c) \/ Yield(c) \/ Stop(c)
  \/ SemDown(c) \/ SemUp(c) \/ MutexLock(c) \/ MutexUnlock(c)

Semaphore(c) ==
  \/ DownLock(c) \/ DownBlock(c) \/ DownPass(c) \/ DownUnlock(c) \/ DownReturn(c)
  \/ UpLock(c) \/ UpInc(c) \/ UpPop(c) \/ UpSchedule(c) \/ UpUnlock(c)

Step(c) == SwitchSave(c) \/ SwitchLoad(c) \/ Idle(c) \/ Thread(c) \/ Semaphore(c)

Next == \E c \in Cores : Step(c)

Spec == Init /\ [][Next]_vars

(* A core always executes its next instruction, a thread's own code        *)
(* included: a thread at "user" makes another call or returns.             *)
FairSpec == Spec /\ \A c \in Cores : WF_vars(Step(c))
-----------------------------------------------------------------------------
(* Types.                                                                  *)

BootLabels == {"boot_go", "boot_stop"}
CriticalLabels == {"down_dec", "down_unlock", "up_inc", "up_pop", "up_sched", "up_unlock"}
SemLabels == CriticalLabels \cup {"down_lock", "down_ret", "up_lock"}
ThreadLabels == SemLabels \cup {"user", "go_sched"}
LeaveLabels == {"yield_sw", "stop_sw", "down_sw"}
IdleLabels == {"idle_loop", "idle_next", "idle_ret", "idle_queue", "idle_unlock", "idle_resched"}

Labels == BootLabels \cup ThreadLabels \cup LeaveLabels \cup IdleLabels
            \cup {"idle_sw", "load", "panic", "unreachable", "freed"}

Frame == [x30 : Labels, this : Sems \cup {NULL}]

TypeOK ==
  /\ pc \in [Cores -> Labels]
  /\ this \in [Cores -> Sems \cup {NULL}]
  /\ on \in [Cores -> TCB \cup {Boot}]
  /\ tmp \in [Cores -> Threads \cup {NULL}]
  /\ prev \in [Cores -> TCB \cup {NULL}]
  /\ curr \in [Cores -> TCB \cup {NULL}]
  /\ to_delete \in [Cores -> Threads \cup {NULL}]
  /\ to_reschedule \in [Cores -> Threads \cup {NULL}]
  /\ to_queue \in [Cores -> Threads \cup {NULL}]
  /\ to_add_to \in [Cores -> Sems \cup {NULL}]
  /\ to_unlock \in [Cores -> Sems \cup {NULL}]
  /\ ready \in Seq(Threads)
  /\ alive \subseteq Threads
  /\ sp \in [TCB -> Frame]
  /\ counter \in [Sems -> Int]
  /\ q \in [Sems -> Seq(Threads)]
  /\ lock_ \in [Sems -> BOOLEAN]
  /\ held \in [Threads -> SUBSET Mutexes]
  /\ ops \in 0..MaxOps

-----------------------------------------------------------------------------
(* Where the threads are.                                                  *)

Waiting(c) == IF pc[c] = "idle_unlock" THEN NULL ELSE to_queue[c]

(* The thread whose stack core c is on, is about to be on, or has just     *)
(* left and must still dispose of.                                         *)
Pointers(c) ==
  {on[c], curr[c], to_delete[c], to_reschedule[c], Waiting(c)} \cap Threads

(* The TCB that go() or up() is holding in a local variable.               *)
Hand(c) == {tmp[c]} \cap Threads

Mine(c) == Pointers(c) \cup Hand(c)

(* Two cores never execute on the same thread's stack.                     *)
OneStack == \A c, d \in Cores : c # d /\ on[c] \in Threads => on[c] # on[d]

(* A thread is in one place at a time: in the ready queue once, in one     *)
(* semaphore's queue once, or with one core, in one role.  A thread that   *)
(* were in two would run twice; one whose TCB is freed is in none, so      *)
(* nothing is left pointing at a freed TCB.                                *)
OnePlace ==
  /\ IsInjective(ready)
  /\ \A s \in Sems :
       /\ IsInjective(q[s])
       /\ Range(q[s]) \cap Range(ready) = {}
       /\ \A r \in Sems \ {s} : Range(q[s]) \cap Range(q[r]) = {}
  /\ \A c \in Cores :
       /\ Mine(c) \subseteq alive
       /\ Pointers(c) \cap Hand(c) = {}
       /\ \A t, u \in Pointers(c) : t = u
       /\ Mine(c) \cap Range(ready) = {}
       /\ \A s \in Sems : Mine(c) \cap Range(q[s]) = {}
       /\ \A d \in Cores \ {c} : Mine(c) \cap Mine(d) = {}
  /\ Range(ready) \subseteq alive
  /\ \A s \in Sems : Range(q[s]) \subseteq alive

(* No thread is lost: every TCB that has not been freed is in the ready    *)
(* queue, in some semaphore's queue, or with some core.                    *)
NoThreadLost ==
  alive \subseteq Range(ready) \cup (UNION {Range(q[s]) : s \in Sems})
                  \cup (UNION {Mine(c) : c \in Cores})

-----------------------------------------------------------------------------
(* What each core's registers and slots hold, label by label, and what the *)
(* frames hold: the facts the proofs need besides the properties.          *)

NoWait(c) == to_queue[c] = NULL /\ to_add_to[c] = NULL /\ to_unlock[c] = NULL
NoSlots(c) == to_delete[c] = NULL /\ to_reschedule[c] = NULL /\ NoWait(c)

Queueing(c) ==
  /\ to_delete[c] = NULL /\ to_reschedule[c] = NULL
  /\ to_queue[c] \in Threads
  /\ to_add_to[c] \in Sems
  /\ to_unlock[c] = to_add_to[c]

Yielding(c) == to_delete[c] = NULL /\ to_reschedule[c] \in Threads /\ NoWait(c)
Stopping(c) == to_delete[c] \in Threads /\ to_reschedule[c] = NULL /\ NoWait(c)

(* A core that leaves a thread has told the idle thread what to do with    *)
(* it; one that leaves the boot stack has nothing to dispose of.           *)
Leaving(c) ==
  /\ curr[c] = c
  /\ \/ on[c] \in Threads /\ prev[c] = on[c] /\ (Queueing(c) \/ Yielding(c) \/ Stopping(c))
     \/ on[c] = Boot /\ prev[c] = NULL /\ NoSlots(c)

AtIdle(c) == on[c] = c /\ curr[c] = c

Control(c) ==
  /\ pc[c] \in BootLabels => on[c] = Boot /\ curr[c] = NULL /\ NoSlots(c)
  /\ pc[c] \in ThreadLabels =>
       /\ NoSlots(c)
       /\ \/ on[c] \in Threads /\ curr[c] = on[c]
          \/ on[c] = Boot /\ curr[c] = NULL /\ pc[c] = "go_sched"
  /\ pc[c] \in LeaveLabels => Leaving(c)
  /\ pc[c] = "yield_sw" => Yielding(c) /\ this[c] = NULL
  /\ pc[c] = "stop_sw" => (Stopping(c) \/ NoSlots(c)) /\ this[c] = NULL
  /\ pc[c] = "down_sw" => Queueing(c) /\ this[c] = to_add_to[c]
  /\ pc[c] = "idle_sw" => on[c] = c /\ prev[c] = c /\ curr[c] \in Threads /\ NoSlots(c)
  /\ pc[c] = "load" => \/ Leaving(c)
                       \/ on[c] = c /\ curr[c] \in Threads /\ NoSlots(c)
  /\ pc[c] \in IdleLabels => AtIdle(c)
  /\ pc[c] \in {"idle_loop", "idle_next"} => NoSlots(c)
  /\ pc[c] = "idle_ret" => Queueing(c) \/ Yielding(c) \/ Stopping(c)
  /\ pc[c] = "idle_queue" => Queueing(c) \/ Yielding(c) \/ NoSlots(c)
  /\ pc[c] = "idle_unlock" => Queueing(c)
  /\ pc[c] = "idle_resched" => Yielding(c) \/ NoSlots(c)
  /\ pc[c] \in SemLabels <=> this[c] # NULL /\ pc[c] \notin {"down_sw", "load", "panic"}
  /\ pc[c] \in {"go_sched", "up_sched"} <=> tmp[c] # NULL

(* A core never fails an assertion, returns from stop() or resumes the     *)
(* frame of a freed TCB.                                                   *)
NoPanic == \A c \in Cores : pc[c] \notin {"panic", "unreachable", "freed"}

(* Every queued thread can be resumed: its whole frame is saved, in yield()*)
(* or make_tcb() or in the down() of the semaphore it waits for, and no    *)
(* core is still on its stack.                                             *)
InDown(t, s) == sp[t] = SavedFrame("down_ret", s)

Resumable(t) == sp[t] = SavedFrame("user", NULL) \/ \E s \in Sems : InDown(t, s)

QueuedIsSaved ==
  /\ \A t \in Range(ready) : Resumable(t)
  /\ \A s \in Sems : \A t \in Range(q[s]) : InDown(t, s)
  /\ \A c \in Cores : on[c] \notin Range(ready) \cup UNION {Range(q[s]) : s \in Sems}

(* The same for the frames of the threads a core holds, and for the frame  *)
(* of its idle thread.                                                     *)
HeldFrames(c) ==
  /\ \A t \in Hand(c) : Resumable(t)
  /\ pc[c] \in {"idle_sw", "load"} /\ curr[c] \in Threads => Resumable(curr[c])
  /\ pc[c] # "yield_sw" /\ to_reschedule[c] \in Threads =>
       sp[to_reschedule[c]] = SavedFrame("user", NULL)
  /\ pc[c] # "down_sw" /\ Waiting(c) \in Threads => InDown(Waiting(c), to_add_to[c])
  /\ on[c] = Boot => sp[c] = SavedFrame("idle_loop", NULL)
  /\ on[c] \in Threads \/ (pc[c] = "load" /\ on[c] = c) => sp[c] = SavedFrame("idle_ret", NULL)

-----------------------------------------------------------------------------
(* The semaphores.                                                         *)

(* Core c holds the spinlock of s: between lock() and unlock() in down()   *)
(* or up() (also in an assertion that fails there, which releases nothing),*)
(* or on behalf of a thread that blocked with the lock held.               *)
Holds(c, s) ==
  \/ pc[c] \in CriticalLabels \cup {"panic"} /\ this[c] = s
  \/ to_unlock[c] = s

(* A semaphore's spinlock is locked exactly while one core holds it, also  *)
(* across the context switch of a thread that blocks in down().            *)
LockExclusive ==
  \A s \in Sems :
    /\ lock_[s] <=> \E c \in Cores : Holds(c, s)
    /\ \A c, d \in Cores : Holds(c, s) /\ Holds(d, s) => c = d

(* The threads blocked in down(), in the order they blocked: those in q,   *)
(* then the one on its way there, less the one up() has decided to wake.   *)
Blocking(c, s) == to_add_to[c] = s /\ Waiting(c) # NULL

Popping(c, s) == pc[c] = "up_pop" /\ this[c] = s

Blocked(s) ==
  LET coming == IF \E c \in Cores : Blocking(c, s)
                THEN <<to_queue[CHOOSE c \in Cores : Blocking(c, s)]>> ELSE <<>>
      all    == q[s] \o coming
  IN  IF \E c \in Cores : Popping(c, s) THEN Tail(all) ELSE all

(* "`counter` can go negative, with its magnitude equal to the number of   *)
(* threads currently blocked in down()" (semaphore.hpp).                   *)
CounterCountsBlocked ==
  \A s \in Sems : Len(Blocked(s)) = IF counter[s] < 0 THEN -counter[s] ELSE 0

(* The threads down() has let through that have not yet returned from it.  *)
Granted(s) ==
  {t \in alive :
     \/ \E c \in Cores : on[c] = t /\ pc[c] \in {"down_unlock", "down_ret"} /\ this[c] = s
     \/ /\ \A c \in Cores : on[c] # t
        /\ InDown(t, s)
        /\ t \notin Range(Blocked(s))}

(* Mutual exclusion: at most one thread has locked a mutex, counting the   *)
(* one whose lock() has yet to return.                                     *)
MutexExclusive ==
  \A m \in Mutexes :
    LET owners == Granted(m) \cup {t \in Threads : m \in held[t]}
    IN  \A t, u \in owners : t = u

(* The inductive invariant.                                                *)
ControlOK == \A c \in Cores : Control(c)

FramesOK == QueuedIsSaved /\ \A c \in Cores : HeldFrames(c)

IInv == TypeOK /\ ControlOK /\ OnePlace /\ FramesOK /\ LockExclusive

(* down() and up() implement first-come-first-served semaphores: each      *)
(* takes effect at its access to counter.                                  *)
Abstract == INSTANCE SemaphoreSpec WITH
  value   <- [s \in Sems |-> IF counter[s] > 0 THEN counter[s] ELSE 0],
  waiting <- [s \in Sems |-> Blocked(s)],
  granted <- [s \in Sems |-> Granted(s)]

ImplementsSemaphores == Abstract!Spec

-----------------------------------------------------------------------------
(* What must happen, when the threads make finitely many calls.            *)

(* No wakeup is lost: a thread that down() lets through, at once or by a   *)
(* later up(), does return from down().                                    *)
GrantedReturns ==
  \A t \in Threads, s \in Sems : t \in Granted(s) ~> t \notin Granted(s)

(* Everything runs out: in the end each core polls an empty ready queue,   *)
(* no lock is held, and the only threads left are those blocked in down(). *)
Quiesces ==
  <>[](/\ \A c \in Cores : pc[c] = "idle_next"
       /\ \A s \in Sems : ~lock_[s]
       /\ ready = <<>>
       /\ alive = UNION {Range(q[s]) : s \in Sems})

(* Every thread that waits for a mutex gets it, unless from some moment on *)
(* the mutex is held by a thread that itself waits for a semaphore.        *)
HeldByWaiter(m) ==
  \E u \in Threads : m \in held[u] /\ \E s \in Sems : u \in Range(Blocked(s))

MutexLockReturns ==
  \A t \in Threads, m \in Mutexes :
    t \in Range(Blocked(m)) ~> (m \in held[t] \/ []HeldByWaiter(m))
=============================================================================
