---------------------------- MODULE KernelProofs ----------------------------
(***************************************************************************)
(* The proof that IInv is inductive, for any number of cores, threads and  *)
(* semaphores: queues as sequences, what a step leaves alone, the types,   *)
(* what each core's registers and slots hold at each label, that a thread  *)
(* is in one place and is never lost, the frames saved for the threads     *)
(* that are queued or held by a core, and the semaphores' spinlocks.  Then *)
(* the theorems about Kernel that follow.                                  *)
(***************************************************************************)
EXTENDS Kernel, TLAPS

-----------------------------------------------------------------------------
(* Queues as sequences: what push and pop do to the elements.              *)

(* Appending adds one element. *)
LEMMA RangeAppend ==
  ASSUME NEW S, NEW s \in Seq(S), NEW x \in S
  PROVE  /\ Append(s, x) \in Seq(S)
         /\ Range(Append(s, x)) = Range(s) \cup {x}
         /\ IsInjective(s) /\ x \notin Range(s) => IsInjective(Append(s, x))
<1>1. /\ Append(s, x) \in Seq(S)
      /\ Len(Append(s, x)) = Len(s) + 1
      /\ \A i \in 1..Len(s) : Append(s, x)[i] = s[i]
      /\ Append(s, x)[Len(s) + 1] = x
  OBVIOUS
<1>2. /\ DOMAIN s = 1..Len(s)
      /\ DOMAIN Append(s, x) = 1..(Len(s) + 1)
      /\ Len(s) \in Nat
  OBVIOUS
<1>3. Range(Append(s, x)) = Range(s) \cup {x}
  <2>1. ASSUME NEW y \in Range(Append(s, x)) PROVE y \in Range(s) \cup {x}
    <3>1. PICK i \in 1..(Len(s) + 1) : y = Append(s, x)[i]
      BY <2>1, <1>2, Zenon DEF Range
    <3>2. i \in 1..Len(s) \/ i = Len(s) + 1
      BY <1>2
    <3> QED BY <3>1, <3>2, <1>1, <1>2, Zenon DEF Range
  <2>2. ASSUME NEW y \in Range(s) PROVE y \in Range(Append(s, x))
    <3>1. PICK i \in 1..Len(s) : y = s[i]
      BY <2>2, <1>2, Zenon DEF Range
    <3>2. i \in 1..(Len(s) + 1) /\ Append(s, x)[i] = y
      BY <3>1, <1>1, <1>2
    <3> QED BY <3>2, <1>2, Zenon DEF Range
  <2>3. x \in Range(Append(s, x))
    <3>1. Len(s) + 1 \in 1..(Len(s) + 1)
      BY <1>2
    <3> QED BY <3>1, <1>1, <1>2, Zenon DEF Range
  <2> QED BY <2>1, <2>2, <2>3, Zenon
<1>4. ASSUME IsInjective(s), x \notin Range(s) PROVE IsInjective(Append(s, x))
  <2>1. \A i \in 1..Len(s) : s[i] # x
    BY <1>4, <1>2, Zenon DEF Range
  <2>2. \A i, j \in 1..Len(s) : s[i] = s[j] => i = j
    BY <1>4, <1>2, Zenon DEF IsInjective
  <2>3. \A i \in 1..(Len(s) + 1) : i \in 1..Len(s) \/ i = Len(s) + 1
    BY <1>2
  <2>4. \A i, j \in 1..(Len(s) + 1) : Append(s, x)[i] = Append(s, x)[j] => i = j
    BY <2>1, <2>2, <2>3, <1>1, <1>2, Zenon
  <2> QED BY <2>4, <1>2, Zenon DEF IsInjective
<1> QED BY <1>1, <1>3, <1>4, Zenon

(* The same for a queue of threads. *)
LEMMA RangePush ==
  ASSUME NEW s \in Seq(Threads), NEW x \in Threads
  PROVE  Range(Append(s, x)) = Range(s) \cup {x}
BY RangeAppend

(* Taking the head leaves the others. *)
LEMMA RangeTail ==
  ASSUME NEW S, NEW s \in Seq(S), s # <<>>
  PROVE  /\ Tail(s) \in Seq(S)
         /\ Head(s) \in S
         /\ Range(s) = Range(Tail(s)) \cup {Head(s)}
         /\ IsInjective(s) => IsInjective(Tail(s)) /\ Head(s) \notin Range(Tail(s))
<1>1. /\ Tail(s) \in Seq(S)
      /\ Head(s) = s[1]
      /\ Head(s) \in S
      /\ Len(s) \in Nat \ {0}
      /\ Len(Tail(s)) = Len(s) - 1
      /\ \A i \in 1..(Len(s) - 1) : Tail(s)[i] = s[i + 1]
  OBVIOUS
<1>2. DOMAIN s = 1..Len(s) /\ DOMAIN Tail(s) = 1..(Len(s) - 1)
  BY <1>1
<1>3. Range(s) = Range(Tail(s)) \cup {Head(s)}
  <2>1. ASSUME NEW y \in Range(s) PROVE y \in Range(Tail(s)) \cup {Head(s)}
    <3>1. PICK i \in 1..Len(s) : y = s[i]
      BY <2>1, <1>2, Zenon DEF Range
    <3>2. CASE i = 1
      BY <3>1, <3>2, <1>1, Zenon
    <3>3. CASE i # 1
      <4>1. i - 1 \in 1..(Len(s) - 1) /\ Tail(s)[i - 1] = y
        BY <3>1, <3>3, <1>1
      <4> QED BY <4>1, <1>2, Zenon DEF Range
    <3> QED BY <3>2, <3>3, Zenon
  <2>2. ASSUME NEW y \in Range(Tail(s)) PROVE y \in Range(s)
    <3>1. PICK i \in 1..(Len(s) - 1) : y = Tail(s)[i]
      BY <2>2, <1>2, Zenon DEF Range
    <3>2. i + 1 \in 1..Len(s) /\ s[i + 1] = y
      BY <3>1, <1>1
    <3> QED BY <3>2, <1>2, Zenon DEF Range
  <2>3. Head(s) \in Range(s)
    <3>1. 1 \in 1..Len(s)
      BY <1>1
    <3> QED BY <3>1, <1>1, <1>2, Zenon DEF Range
  <2> QED BY <2>1, <2>2, <2>3, Zenon
<1>4. ASSUME IsInjective(s) PROVE IsInjective(Tail(s)) /\ Head(s) \notin Range(Tail(s))
  <2>1. \A i, j \in 1..Len(s) : s[i] = s[j] => i = j
    BY <1>4, <1>2, Zenon DEF IsInjective
  <2>2. \A i \in 1..(Len(s) - 1) : i + 1 \in 1..Len(s) /\ i + 1 # 1 /\ 1 \in 1..Len(s)
    BY <1>1
  <2>3. \A i, j \in 1..(Len(s) - 1) : Tail(s)[i] = Tail(s)[j] => i = j
    <3> TAKE i, j \in 1..(Len(s) - 1)
    <3> HAVE Tail(s)[i] = Tail(s)[j]
    <3>1. i + 1 = j + 1
      BY <2>1, <2>2, <1>1
    <3> QED BY <3>1
  <2>4. \A i \in 1..(Len(s) - 1) : Tail(s)[i] # Head(s)
    BY <2>1, <2>2, <1>1, ZenonT(40)
  <2> QED BY <2>3, <2>4, <1>2, Zenon DEF IsInjective, Range
<1> QED BY <1>1, <1>3, <1>4, Zenon

-----------------------------------------------------------------------------
(* A step of core c leaves the registers and slots of every other core     *)
(* alone.                                                                  *)
Same(d) ==
  /\ pc'[d] = pc[d] /\ this'[d] = this[d] /\ on'[d] = on[d] /\ tmp'[d] = tmp[d]
  /\ prev'[d] = prev[d] /\ curr'[d] = curr[d]
  /\ to_delete'[d] = to_delete[d] /\ to_reschedule'[d] = to_reschedule[d]
  /\ to_queue'[d] = to_queue[d] /\ to_add_to'[d] = to_add_to[d]
  /\ to_unlock'[d] = to_unlock[d]

(* Only core c writes percore::g_table[c]. *)
LEMMA OthersSame ==
  ASSUME TypeOK, NEW c \in Cores, Step(c), NEW d \in Cores \ {c}
  PROVE  Same(d)
<1> USE DEF TypeOK, Same, Goto, BeginSwitch, percore, regs, vars
<1>1. ASSUME SwitchSave(c) \/ SwitchLoad(c) PROVE Same(d)
  BY <1>1, ZenonT(40) DEF SwitchSave, SwitchLoad
<1>2. ASSUME Idle(c) PROVE Same(d)
  BY <1>2, ZenonT(40) DEF Idle, IdleEnter, IdleNext, IdlePoll, IdleDelete, IdleEnqueue, IdleUnlock,
     IdleNoQueue, IdleReschedule
<1>3. ASSUME Thread(c) PROVE Same(d)
  <2>1. CASE GoMake(c) \/ GoSchedule(c) \/ Yield(c) \/ Stop(c)
    BY <2>1 DEF GoMake, GoSchedule, Yield, Stop
  <2>2. CASE SemDown(c) \/ SemUp(c) \/ MutexLock(c) \/ MutexUnlock(c)
    BY <2>2, Zenon DEF SemDown, SemUp, MutexLock, MutexUnlock
  <2> QED BY <1>3, <2>1, <2>2, Zenon DEF Thread
<1>4. ASSUME Semaphore(c) PROVE Same(d)
  <2>1. CASE DownLock(c) \/ DownBlock(c) \/ DownPass(c)
    BY <2>1, ZenonT(40) DEF DownLock, DownBlock, DownPass, Acquire
  <2>2. CASE DownUnlock(c) \/ DownReturn(c) \/ UpLock(c) \/ UpInc(c)
    BY <2>2, Zenon DEF DownUnlock, DownReturn, UpLock, UpInc, Acquire, ReturnToUser
  <2>3. CASE UpPop(c)
    BY <2>3, ZenonT(40) DEF UpPop
  <2>4. CASE UpSchedule(c) \/ UpUnlock(c)
    BY <2>4, Zenon DEF UpSchedule, UpUnlock, ReturnToUser
  <2> QED BY <1>4, <2>1, <2>2, <2>3, <2>4, Zenon DEF Semaphore
<1> QED BY <1>1, <1>2, <1>3, <1>4, Zenon DEF Step

-----------------------------------------------------------------------------
(* The type invariant. *)

Stable == TypeOK /\ ControlOK /\ OnePlace /\ FramesOK

(* A queued TCB is a thread's, never an idle thread's. *)
LEMMA TypeInit == Init => TypeOK
<1> SUFFICES ASSUME Init PROVE TypeOK
  OBVIOUS
<1>1. sp \in [TCB -> Frame]
  BY Zenon DEF Init, TCB, Frame, SavedFrame, Freed, Labels, IdleLabels
<1>2. pc \in [Cores -> Labels]
  BY Zenon DEF Init, Labels, BootLabels
<1>3. counter \in [Sems -> Int] /\ ops \in 0..MaxOps
  BY KernelAssumption DEF Init
<1> QED BY <1>1, <1>2, <1>3 DEF Init, TypeOK

(* Inside down() and up(), `this` is a semaphore and the thread is running. *)
LEMMA InSemaphore ==
  ASSUME TypeOK, NEW c \in Cores, Control(c), pc[c] \in SemLabels
  PROVE  this[c] \in Sems /\ on[c] \in Threads /\ curr[c] = on[c] /\ NoSlots(c)
BY Zenon DEF TypeOK, Control, ThreadLabels, SemLabels, CriticalLabels

(* Every step keeps the types. *)
LEMMA TypeStep ==
  ASSUME Stable, NEW c \in Cores, Step(c)
  PROVE  TypeOK'
<1> USE KernelAssumption DEF TypeOK, Goto, percore, tcbs, sems, client
<1>0. TypeOK /\ Control(c) /\ HeldFrames(c) /\ OnePlace
  BY Zenon DEF Stable, ControlOK, FramesOK
<1>l. {"user", "go_sched", "boot_go", "boot_stop", "yield_sw", "stop_sw", "down_sw", "idle_sw", "load",
       "idle_loop", "idle_next", "idle_ret", "idle_queue", "idle_unlock", "idle_resched",
       "down_lock", "down_dec", "down_unlock", "down_ret", "up_lock", "up_inc", "up_pop",
       "up_sched", "up_unlock", "panic", "unreachable", "freed"} \subseteq Labels
  BY ZenonT(40) DEF Labels, BootLabels, ThreadLabels, SemLabels, CriticalLabels, LeaveLabels, IdleLabels
<1>s. pc[c] \in SemLabels => this[c] \in Sems /\ on[c] \in Threads /\ curr[c] = on[c]
  BY <1>0, InSemaphore, Zenon
<1>1. CASE SwitchSave(c)
  <2>1. sp' \in [TCB -> Frame]
    BY <1>0, <1>1, <1>l DEF SwitchSave, Frame, SavedFrame, ReturnAddress
  <2> QED BY <1>0, <1>1, <1>l, <2>1, Zenon DEF SwitchSave
<1>2. CASE SwitchLoad(c)
  <2>1. curr[c] \in TCB
    BY <1>0, <1>2, ZenonT(40) DEF SwitchLoad, Control, Leaving, TCB
  <2>2. sp[curr[c]] \in Frame
    BY <1>0, <2>1, Zenon
  <2> QED BY <1>0, <1>2, <2>1, <2>2, Zenon DEF SwitchLoad, Frame
<1>3. CASE GoMake(c)
  <2>1. PICK t \in Threads \ alive : sp' = [sp EXCEPT ![t] = SavedFrame("user", NULL)]
                                  /\ tmp' = [tmp EXCEPT ![c] = t] /\ alive' = alive \cup {t}
    BY <1>3, Zenon DEF GoMake
  <2>2. sp' \in [TCB -> Frame]
    BY <1>0, <2>1, <1>l, Zenon DEF Frame, SavedFrame, TCB
  <2> QED BY <1>0, <1>3, <1>l, <2>1, <2>2 DEF GoMake, Call
<1>4. CASE GoSchedule(c)
  <2>1. tmp[c] \in Threads
    BY <1>0, <1>4, ZenonT(40) DEF GoSchedule, Control
  <2>2. ready' \in Seq(Threads)
    BY <1>0, <1>4, <2>1 DEF GoSchedule, Schedule
  <2> QED BY <1>0, <1>4, <1>l, <2>2, Zenon DEF GoSchedule
<1>5. CASE Yield(c)
  <2>1. curr[c] \in Threads
    BY <1>0, <1>5, Zenon DEF Yield, Call, Control, ThreadLabels
  <2> QED BY <1>0, <1>5, <1>l, <2>1 DEF Yield, Call, BeginSwitch, TCB
<1>6. CASE Stop(c)
  <2>1. curr[c] \in Threads \cup {NULL}
    BY <1>0, <1>6, Zenon DEF Stop, Control, ThreadLabels, BootLabels
  <2> QED BY <1>0, <1>6, <1>l, <2>1, Zenon DEF Stop, BeginSwitch, TCB
<1>7. CASE Idle(c)
  <2>1. CASE IdleEnter(c)
    BY <1>0, <2>1, <1>l, Zenon DEF IdleEnter, TCB
  <2>2. CASE IdleNext(c)
    <3>1. Tail(ready) \in Seq(Threads) /\ Head(ready) \in Threads
      BY <1>0, <2>2, RangeTail, Zenon DEF IdleNext
    <3> QED BY <1>0, <2>2, <1>l, <3>1, Zenon DEF IdleNext, BeginSwitch, TCB
  <2>3. CASE IdlePoll(c)
    BY <1>0, <2>3, Zenon DEF IdlePoll, vars, regs
  <2>4. CASE IdleDelete(c)
    <3>1. sp' \in [TCB -> Frame]
      BY <1>0, <2>4, <1>l, Zenon DEF IdleDelete, Frame, Freed, SavedFrame
    <3> QED BY <1>0, <2>4, <1>l, <3>1, Zenon DEF IdleDelete
  <2>5. CASE IdleEnqueue(c)
    <3>1. Queueing(c)
      BY <1>0, <2>5, Zenon DEF IdleEnqueue, Control, Queueing, Yielding, NoSlots, NoWait
    <3>2. /\ q' = [q EXCEPT ![to_add_to[c]] = Append(@, to_queue[c])]
          /\ pc' = [pc EXCEPT ![c] = "idle_unlock"]
      BY <2>5, <3>1, Zenon DEF IdleEnqueue, Queueing
    <3>3. q' \in [Sems -> Seq(Threads)]
      BY <1>0, <3>1, <3>2 DEF Queueing
    <3> QED BY <1>0, <2>5, <1>l, <3>2, <3>3, Zenon DEF IdleEnqueue
  <2>6. CASE IdleUnlock(c)
    <3>1. to_unlock[c] \in Sems
      BY <1>0, <2>6, Zenon DEF IdleUnlock, Control, Queueing
    <3> QED BY <1>0, <2>6, <1>l, <3>1, Zenon DEF IdleUnlock
  <2>8. CASE IdleNoQueue(c)
    BY <1>0, <2>8, <1>l, Zenon DEF IdleNoQueue
  <2>7. CASE IdleReschedule(c)
    <3>1. ready' \in Seq(Threads)
      <4>1. CASE to_reschedule[c] = NULL
        BY <1>0, <2>7, <4>1, Zenon DEF IdleReschedule
      <4>2. CASE to_reschedule[c] # NULL
        <5>1. ready' = Append(ready, to_reschedule[c])
          BY <2>7, <4>2, ZenonT(40) DEF IdleReschedule, Schedule
        <5> QED BY <1>0, <4>2, <5>1
      <4> QED BY <4>1, <4>2, Zenon
    <3> QED BY <1>0, <2>7, <1>l, <3>1, Zenon DEF IdleReschedule
  <2> QED BY <1>7, <2>1, <2>2, <2>3, <2>4, <2>5, <2>6, <2>7, <2>8, Zenon DEF Idle
<1>8. CASE SemDown(c)
  <2>1. PICK s \in Sems : this' = [this EXCEPT ![c] = s]
    BY <1>8, Zenon DEF SemDown
  <2> QED BY <1>0, <1>8, <1>l, <2>1 DEF SemDown, Call
<1>81. CASE SemUp(c)
  <2>1. PICK s \in Sems : this' = [this EXCEPT ![c] = s]
    BY <1>81, Zenon DEF SemUp
  <2> QED BY <1>0, <1>81, <1>l, <2>1 DEF SemUp, Call
<1>82. CASE MutexLock(c)
  <2>1. PICK s \in Sems : this' = [this EXCEPT ![c] = s]
    BY <1>82, Zenon DEF MutexLock
  <2> QED BY <1>0, <1>82, <1>l, <2>1 DEF MutexLock, Call
<1>9. CASE MutexUnlock(c)
  <2>1. PICK m \in held[on[c]] : this' = [this EXCEPT ![c] = m] /\ held' = [held EXCEPT ![on[c]] = @ \ {m}]
    BY <1>9, Zenon DEF MutexUnlock
  <2>2. on[c] \in Threads
    BY <1>0, <1>9, Zenon DEF MutexUnlock, Control, ThreadLabels
  <2>3. m \in Sems
    BY <1>0, <2>2, Zenon
  <2> QED BY <1>0, <1>9, <1>l, <2>1, <2>2, <2>3, Zenon DEF MutexUnlock
<1>10. CASE DownLock(c)
  BY <1>0, <1>10, <1>l, <1>s, Zenon DEF DownLock, Acquire, SemLabels
<1>101. CASE UpLock(c)
  BY <1>0, <1>101, <1>l, <1>s, Zenon DEF UpLock, Acquire, SemLabels
<1>11. CASE DownBlock(c)
  <2>1. curr[c] \in Threads
    BY <1>s, <1>11, Zenon DEF DownBlock, SemLabels, CriticalLabels
  <2>2. this[c] \in Sems
    BY <1>s, <1>11, Zenon DEF DownBlock, SemLabels, CriticalLabels
  <2>3. counter' \in [Sems -> Int]
    BY <1>0, <1>11, <2>2 DEF DownBlock
  <2> QED BY <1>0, <1>11, <1>l, <2>1, <2>2, <2>3, Zenon DEF DownBlock, BeginSwitch, TCB
<1>12. CASE DownPass(c)
  <2>1. this[c] \in Sems
    BY <1>s, <1>12, Zenon DEF DownPass, SemLabels, CriticalLabels
  <2>2. counter' \in [Sems -> Int]
    BY <1>0, <1>12, <2>1 DEF DownPass
  <2> QED BY <1>0, <1>12, <1>l, <2>2, Zenon DEF DownPass
<1>121. CASE UpInc(c)
  <2>1. this[c] \in Sems
    BY <1>s, <1>121, Zenon DEF UpInc, SemLabels, CriticalLabels
  <2>2. counter' \in [Sems -> Int]
    BY <1>0, <1>121, <2>1 DEF UpInc
  <2> QED BY <1>0, <1>121, <1>l, <2>2, Zenon DEF UpInc
<1>13. CASE DownUnlock(c)
  <2>1. this[c] \in Sems /\ on[c] \in Threads
    BY <1>s, <1>13, Zenon DEF DownUnlock, SemLabels, CriticalLabels
  <2>2. held' \in [Threads -> SUBSET Mutexes]
    <3>1. CASE this[c] \in Mutexes
      BY <1>0, <1>13, <2>1, <3>1, ZenonT(40) DEF DownUnlock, Locked
    <3>2. CASE this[c] \notin Mutexes
      BY <1>0, <1>13, <3>2, Zenon DEF DownUnlock, Locked
    <3> QED BY <3>1, <3>2, Zenon
  <2> QED BY <1>0, <1>13, <1>l, <2>1, <2>2, Zenon DEF DownUnlock, ReturnToUser
<1>131. CASE DownReturn(c)
  <2>1. this[c] \in Sems /\ on[c] \in Threads
    BY <1>s, <1>131, Zenon DEF DownReturn, SemLabels, CriticalLabels
  <2>2. held' \in [Threads -> SUBSET Mutexes]
    <3>1. CASE this[c] \in Mutexes
      BY <1>0, <1>131, <2>1, <3>1, ZenonT(40) DEF DownReturn, Locked
    <3>2. CASE this[c] \notin Mutexes
      BY <1>0, <1>131, <3>2, Zenon DEF DownReturn, Locked
    <3> QED BY <3>1, <3>2, Zenon
  <2> QED BY <1>0, <1>131, <1>l, <2>1, <2>2, Zenon DEF DownReturn, ReturnToUser
<1>14. CASE UpPop(c)
  <2>1. this[c] \in Sems
    BY <1>s, <1>14, Zenon DEF UpPop, SemLabels, CriticalLabels
  <2>2. CASE q[this[c]] = <<>>
    <3>1. pc' = [pc EXCEPT ![c] = "panic"] /\ UNCHANGED <<q, tmp>>
      BY <1>14, <2>2, Zenon DEF UpPop
    <3> QED BY <1>0, <1>14, <1>l, <3>1, Zenon DEF UpPop
  <2>3. CASE q[this[c]] # <<>>
    <3>1. /\ pc' = [pc EXCEPT ![c] = "up_sched"]
          /\ tmp' = [tmp EXCEPT ![c] = Head(q[this[c]])]
          /\ q' = [q EXCEPT ![this[c]] = Tail(@)]
      BY <1>14, <2>3, Zenon DEF UpPop
    <3>2. Tail(q[this[c]]) \in Seq(Threads) /\ Head(q[this[c]]) \in Threads
      BY <1>0, <2>1, <2>3, RangeTail
    <3>3. q' \in [Sems -> Seq(Threads)] /\ tmp' \in [Cores -> Threads \cup {NULL}]
      BY <1>0, <2>1, <3>1, <3>2, Zenon
    <3> QED BY <1>0, <1>14, <1>l, <3>1, <3>3, Zenon DEF UpPop
  <2> QED BY <2>2, <2>3, Zenon
<1>141. CASE UpSchedule(c)
  <2>1. tmp[c] \in Threads
    BY <1>0, <1>141, ZenonT(40) DEF UpSchedule, Control
  <2>2. ready' \in Seq(Threads)
    BY <1>0, <1>141, <2>1 DEF UpSchedule, Schedule
  <2> QED BY <1>0, <1>141, <1>l, <2>2, Zenon DEF UpSchedule
<1>15. CASE UpUnlock(c)
  BY <1>0, <1>15, <1>l, <1>s, Zenon DEF SemLabels, CriticalLabels, UpUnlock, ReturnToUser
<1> QED BY <1>1, <1>2, <1>3, <1>4, <1>5, <1>6, <1>7, <1>8, <1>81, <1>82, <1>9, <1>10, <1>101,
           <1>11, <1>12, <1>121, <1>13, <1>131, <1>14, <1>141, <1>15, Zenon DEF Step, Thread, Semaphore

-----------------------------------------------------------------------------
(* Control: what each core's registers and slots hold at each label.       *)

(* Every core boots with its slots empty. *)
LEMMA ControlInit == Init => ControlOK
<1> SUFFICES ASSUME Init, NEW c \in Cores PROVE Control(c)
  BY Zenon DEF ControlOK
<1>1. NoSlots(c)
  BY Zenon DEF Init, NoSlots, NoWait
<1>2. /\ pc[c] \in {"boot_go", "boot_stop"}
      /\ on[c] = Boot /\ curr[c] = NULL /\ this[c] = NULL /\ tmp[c] = NULL
  BY Zenon DEF Init
<1> QED BY <1>1, <1>2, Zenon DEF Control, BootLabels, ThreadLabels, SemLabels, CriticalLabels,
                          LeaveLabels, IdleLabels

(* What a core is doing does not depend on the other cores' slots. *)
LEMMA ControlSame ==
  ASSUME NEW d \in Cores, Same(d), Control(d)
  PROVE  Control(d)'
<1>1. /\ NoSlots(d)' <=> NoSlots(d)
      /\ Queueing(d)' <=> Queueing(d)
      /\ Yielding(d)' <=> Yielding(d)
      /\ Stopping(d)' <=> Stopping(d)
  BY Zenon DEF Same, NoSlots, NoWait, Queueing, Yielding, Stopping
<1>2. /\ Leaving(d)' <=> Leaving(d)
      /\ AtIdle(d)' <=> AtIdle(d)
  BY <1>1, Zenon DEF Same, Leaving, AtIdle
<1> QED BY <1>1, <1>2, ZenonT(40) DEF Same, Control

(* What a core is doing stays in step with its slots. *)
LEMMA ControlStep ==
  ASSUME Stable, NEW c \in Cores, Step(c)
  PROVE  ControlOK'
<1>0. TypeOK /\ Control(c) /\ HeldFrames(c) /\ OnePlace /\ QueuedIsSaved
  BY Zenon DEF Stable, ControlOK, FramesOK
<1>1. ASSUME NEW d \in Cores \ {c} PROVE Control(d)'
  BY <1>0, OthersSame, ControlSame, Zenon DEF Stable, ControlOK
<1>2. Control(c)'
  <2>t. /\ c \notin Threads /\ c # Boot /\ c # NULL /\ Boot # NULL
        /\ Boot \notin Threads /\ NULL \notin Threads /\ NULL \notin Sems
    BY KernelAssumption, Zenon
  <2> USE DEF BootLabels, ThreadLabels, SemLabels, CriticalLabels, LeaveLabels, IdleLabels,
              Goto, percore, NoSlots, NoWait
  <2>1. CASE SwitchSave(c)
    <3>1. /\ pc[c] \in {"yield_sw", "stop_sw", "down_sw", "idle_sw"}
          /\ pc' = [pc EXCEPT ![c] = "load"]
          /\ UNCHANGED <<this, on, tmp, prev, curr, to_delete, to_reschedule, to_queue,
                         to_add_to, to_unlock>>
      BY <2>1, Zenon DEF SwitchSave
    <3> QED BY <1>0, <3>1, Zenon DEF TypeOK, Control, Leaving, Queueing, Yielding, Stopping
  <2>2. CASE SwitchLoad(c)
    <3>1. /\ pc[c] = "load"
          /\ pc' = [pc EXCEPT ![c] = sp[curr[c]].x30]
          /\ this' = [this EXCEPT ![c] = sp[curr[c]].this]
          /\ on' = [on EXCEPT ![c] = curr[c]]
          /\ UNCHANGED <<tmp, prev, curr, to_delete, to_reschedule, to_queue,
                         to_add_to, to_unlock>>
      BY <2>2, Zenon DEF SwitchLoad
    <3>2. tmp[c] = NULL
      BY <1>0, <3>1, Zenon DEF Control
    <3>3. CASE Leaving(c) /\ on[c] = Boot
      <4>1. sp[c].x30 = "idle_loop" /\ sp[c].this = NULL
        <5>1. sp[c] = SavedFrame("idle_loop", NULL)
          BY <1>0, <3>3, Zenon DEF HeldFrames
        <5> QED BY <5>1 DEF SavedFrame
      <4> QED BY <1>0, <2>t, <3>1, <3>2, <3>3, <4>1, ZenonT(40)
              DEF TypeOK, Control, Leaving, AtIdle, Queueing, Yielding, Stopping
    <3>4. CASE Leaving(c) /\ on[c] \in Threads
      <4>1. sp[c].x30 = "idle_ret" /\ sp[c].this = NULL
        <5>1. sp[c] = SavedFrame("idle_ret", NULL)
          BY <1>0, <3>4, Zenon DEF HeldFrames
        <5> QED BY <5>1 DEF SavedFrame
      <4> QED BY <1>0, <2>t, <3>1, <3>2, <3>4, <4>1, ZenonT(40)
              DEF TypeOK, Control, Leaving, AtIdle, Queueing, Yielding, Stopping
    <3>5. CASE on[c] = c /\ curr[c] \in Threads /\ NoSlots(c)
      <4>1. Resumable(curr[c])
        BY <1>0, <3>1, <3>5, Zenon DEF HeldFrames
      <4>2. \/ sp[curr[c]].x30 = "user" /\ sp[curr[c]].this = NULL
            \/ sp[curr[c]].x30 = "down_ret" /\ sp[curr[c]].this \in Sems
        <5>1. CASE sp[curr[c]] = SavedFrame("user", NULL)
          BY <5>1 DEF SavedFrame
        <5>2. CASE \E s \in Sems : sp[curr[c]] = SavedFrame("down_ret", s)
          BY <5>2 DEF SavedFrame
        <5> QED BY <4>1, <5>1, <5>2, Zenon DEF Resumable, InDown
      <4> QED BY <1>0, <2>t, <3>1, <3>2, <3>5, <4>2, ZenonT(40) DEF TypeOK, Control
    <3> QED BY <1>0, <3>1, <3>3, <3>4, <3>5, Zenon DEF Control, Leaving
  <2>3. CASE GoMake(c)
    <3>1. PICK t \in Threads : tmp' = [tmp EXCEPT ![c] = t]
      BY <2>3, Zenon DEF GoMake
    <3>2. /\ pc[c] \in {"boot_go", "user"}
          /\ pc' = [pc EXCEPT ![c] = "go_sched"]
          /\ UNCHANGED <<this, on, prev, curr, to_delete, to_reschedule, to_queue,
                         to_add_to, to_unlock>>
      BY <2>3, Zenon DEF GoMake, Call
    <3> QED BY <1>0, <2>t, <3>1, <3>2, Zenon DEF TypeOK, Control
  <2>4. CASE GoSchedule(c)
    BY <1>0, <2>t, <2>4, ZenonT(40) DEF GoSchedule, TypeOK, Control
  <2>5. CASE Yield(c)
    BY <1>0, <2>t, <2>5, ZenonT(40) DEF Yield, Call, BeginSwitch, TypeOK, Control, Leaving, Yielding
  <2>6. CASE Stop(c)
    <3>1. /\ pc[c] \in {"boot_stop", "user"}
          /\ to_delete' = [to_delete EXCEPT ![c] = curr[c]]
          /\ prev' = [prev EXCEPT ![c] = curr[c]]
          /\ curr' = [curr EXCEPT ![c] = c]
          /\ pc' = [pc EXCEPT ![c] = "stop_sw"]
          /\ UNCHANGED <<this, on, tmp, to_reschedule, to_queue, to_add_to, to_unlock>>
      BY <2>6, Zenon DEF Stop, BeginSwitch
    <3> QED BY <1>0, <2>t, <3>1, Zenon DEF TypeOK, Control, Leaving, Stopping
  <2>7. CASE IdleEnter(c)
    BY <1>0, <2>t, <2>7, Zenon DEF IdleEnter, TypeOK, Control, AtIdle
  <2>8. CASE IdleNext(c)
    <3>1. Head(ready) \in Threads
      BY <1>0, <2>8, RangeTail, Zenon DEF IdleNext, TypeOK
    <3> QED BY <1>0, <2>t, <2>8, <3>1, ZenonT(40) DEF IdleNext, BeginSwitch, TypeOK, Control, AtIdle
  <2>9. CASE IdlePoll(c)
    BY <1>0, <2>9, ZenonT(40) DEF IdlePoll, vars, regs, Control, Leaving, AtIdle, Queueing, Yielding, Stopping
  <2>10. CASE IdleDelete(c)
    BY <1>0, <2>t, <2>10, ZenonT(40) DEF IdleDelete, TypeOK, Control, AtIdle, Queueing, Yielding, Stopping
  <2>11. CASE IdleEnqueue(c)
    <3>1. Queueing(c)
      BY <1>0, <2>11, ZenonT(40) DEF IdleEnqueue, Control, Queueing, Yielding
    <3>2. pc' = [pc EXCEPT ![c] = "idle_unlock"]
      BY <2>t, <2>11, <3>1, Zenon DEF IdleEnqueue, Queueing
    <3> QED BY <1>0, <2>t, <2>11, <3>1, <3>2, ZenonT(40) DEF IdleEnqueue, TypeOK, Control, AtIdle, Queueing
  <2>12. CASE IdleUnlock(c)
    BY <1>0, <2>t, <2>12, ZenonT(40) DEF IdleUnlock, TypeOK, Control, AtIdle, Queueing, Yielding
  <2>13. CASE IdleNoQueue(c)
    BY <1>0, <2>t, <2>13, ZenonT(40) DEF IdleNoQueue, TypeOK, Control, AtIdle, Queueing, Yielding
  <2>14. CASE IdleReschedule(c)
    BY <1>0, <2>t, <2>14, ZenonT(40) DEF IdleReschedule, TypeOK, Control, AtIdle, Yielding
  <2>15. CASE SemDown(c)
    BY <1>0, <2>t, <2>15, ZenonT(40) DEF SemDown, Call, TypeOK, Control
  <2>16. CASE SemUp(c)
    BY <1>0, <2>t, <2>16, ZenonT(40) DEF SemUp, Call, TypeOK, Control
  <2>17. CASE MutexLock(c)
    <3>1. PICK m \in Sems : this' = [this EXCEPT ![c] = m]
      BY <2>17, KernelAssumption, Zenon DEF MutexLock
    <3> QED BY <1>0, <2>t, <2>17, <3>1, ZenonT(40) DEF MutexLock, Call, TypeOK, Control
  <2>18. CASE MutexUnlock(c)
    <3>1. on[c] \in Threads
      BY <1>0, <2>18, ZenonT(40) DEF MutexUnlock, Control
    <3>2. PICK m \in Sems : this' = [this EXCEPT ![c] = m]
      BY <1>0, <2>18, <3>1, KernelAssumption, Zenon DEF MutexUnlock, TypeOK
    <3> QED BY <1>0, <2>t, <2>18, <3>2, ZenonT(40) DEF MutexUnlock, TypeOK, Control
  <2>19. CASE DownLock(c)
    BY <1>0, <2>t, <2>19, ZenonT(40) DEF DownLock, Acquire, TypeOK, Control
  <2>20. CASE DownBlock(c)
    <3>1. this[c] \in Sems /\ on[c] \in Threads /\ curr[c] = on[c]
      BY <1>0, <2>20, InSemaphore, Zenon DEF DownBlock
    <3> QED BY <1>0, <2>t, <2>20, <3>1, ZenonT(40) DEF DownBlock, BeginSwitch, TypeOK, Control, Leaving, Queueing
  <2>21. CASE DownPass(c)
    BY <1>0, <2>t, <2>21, ZenonT(40) DEF DownPass, TypeOK, Control
  <2>22. CASE DownUnlock(c)
    BY <1>0, <2>t, <2>22, ZenonT(40) DEF DownUnlock, ReturnToUser, TypeOK, Control
  <2>23. CASE DownReturn(c)
    BY <1>0, <2>t, <2>23, ZenonT(40) DEF DownReturn, ReturnToUser, TypeOK, Control
  <2>24. CASE UpLock(c)
    BY <1>0, <2>t, <2>24, ZenonT(40) DEF UpLock, Acquire, TypeOK, Control
  <2>25. CASE UpInc(c)
    <3>1. pc'[c] \in {"up_pop", "up_unlock"}
      BY <1>0, <2>25, Zenon DEF UpInc, TypeOK
    <3> QED BY <1>0, <2>t, <2>25, <3>1, ZenonT(40) DEF UpInc, TypeOK, Control
  <2>26. CASE UpPop(c)
    <3>1. this[c] \in Sems
      BY <1>0, <2>26, InSemaphore, Zenon DEF UpPop
    <3>2. CASE q[this[c]] = <<>>
      <4>1. pc' = [pc EXCEPT ![c] = "panic"] /\ tmp' = tmp
        BY <2>26, <3>2, Zenon DEF UpPop
      <4> QED BY <1>0, <2>t, <2>26, <4>1, ZenonT(40) DEF UpPop, TypeOK, Control
    <3>3. CASE q[this[c]] # <<>>
      <4>1. Head(q[this[c]]) \in Threads
        BY <1>0, <3>1, <3>3, RangeTail, Zenon DEF TypeOK
      <4>2. pc' = [pc EXCEPT ![c] = "up_sched"] /\ tmp' = [tmp EXCEPT ![c] = Head(q[this[c]])]
        BY <2>26, <3>3, Zenon DEF UpPop
      <4> QED BY <1>0, <2>t, <2>26, <4>1, <4>2, ZenonT(40) DEF UpPop, TypeOK, Control
    <3> QED BY <3>2, <3>3, Zenon
  <2>27. CASE UpSchedule(c)
    BY <1>0, <2>t, <2>27, ZenonT(40) DEF UpSchedule, TypeOK, Control
  <2>28. CASE UpUnlock(c)
    BY <1>0, <2>t, <2>28, ZenonT(40) DEF UpUnlock, ReturnToUser, TypeOK, Control
  <2> QED BY <2>1, <2>2, <2>3, <2>4, <2>5, <2>6, <2>7, <2>8, <2>9, <2>10, <2>11, <2>12, <2>13,
             <2>14, <2>15, <2>16, <2>17, <2>18, <2>19, <2>20, <2>21, <2>22, <2>23, <2>24, <2>25,
             <2>26, <2>27, <2>28, ZenonT(40) DEF Step, Idle, Thread, Semaphore
<1> QED BY <1>1, <1>2, Zenon DEF ControlOK

-----------------------------------------------------------------------------
(* Places: a thread is in one place, and each step moves at most one.      *)

(* At boot there are no threads, so none is in two places. *)
LEMMA PlaceInit == Init => OnePlace
<1> SUFFICES ASSUME Init PROVE OnePlace
  OBVIOUS
<1>1. IsInjective(ready) /\ Range(ready) = {}
  BY DEF Init, IsInjective, Range
<1>2. \A s \in Sems : IsInjective(q[s]) /\ Range(q[s]) = {}
  BY DEF Init, IsInjective, Range
<1>3. \A c \in Cores : Pointers(c) = {} /\ Hand(c) = {}
  BY KernelAssumption DEF Init, Pointers, Hand, Waiting
<1> QED BY <1>1, <1>2, <1>3, Zenon DEF OnePlace, Mine

(* The threads a core holds depend on its own slots only. *)
LEMMA SamePlaces ==
  ASSUME NEW d \in Cores, Same(d)
  PROVE  Pointers(d)' = Pointers(d) /\ Hand(d)' = Hand(d)
BY Zenon DEF Same, Pointers, Hand, Waiting

(* Thread t is somewhere. *)
Placed(t) ==
  \/ t \in Range(ready)
  \/ \E s \in Sems : t \in Range(q[s])
  \/ \E c \in Cores : t \in Mine(c)

AllPlaced == NoThreadLost <=> \A t \in alive : Placed(t)

(* No thread is lost if each is somewhere, now ... *)
LEMMA PlacedAll == AllPlaced
<1> DEFINE All == Range(ready) \cup (UNION {Range(q[s]) : s \in Sems}) \cup (UNION {Mine(c) : c \in Cores})
<1>1. ASSUME NEW t PROVE t \in All <=> Placed(t)
  <2>1. (t \in UNION {Range(q[s]) : s \in Sems}) <=> \E s \in Sems : t \in Range(q[s])
    OBVIOUS
  <2>2. (t \in UNION {Mine(c) : c \in Cores}) <=> \E c \in Cores : t \in Mine(c)
    OBVIOUS
  <2> QED BY <2>1, <2>2, Zenon DEF Placed
<1>2. NoThreadLost <=> alive \subseteq All
  BY Zenon DEF NoThreadLost
<1> HIDE DEF All
<1> QED BY <1>1, <1>2, Zenon DEF AllPlaced

(* ... and after a step. *)
LEMMA PlacedAllNext == AllPlaced'
BY PlacedAll, PTL

(* What a step must do to the places: no thread gets a second one, and     *)
(* none loses the one it has.                                              *)
PlacesKept == OnePlace' /\ (NoThreadLost => NoThreadLost')

(* Nothing moves. *)
LEMMA Unmoved ==
  ASSUME OnePlace, ready' = ready, q' = q, alive' = alive,
         \A d \in Cores : Pointers(d)' = Pointers(d) /\ Hand(d)' = Hand(d)
  PROVE  PlacesKept
<1>1. OnePlace'
  BY Zenon DEF OnePlace, Mine
<1>2. (\A u \in alive : Placed(u)) => (\A u \in alive' : Placed(u)')
  BY Zenon DEF Placed, Mine
<1> QED BY <1>1, <1>2, PlacedAll, PlacedAllNext, Zenon DEF PlacesKept, AllPlaced

(* A thread moves from a core to the ready queue. *)
LEMMA CoreToReady ==
  ASSUME OnePlace, NEW c \in Cores, NEW t \in Mine(c),
         Range(ready') = Range(ready) \cup {t}, IsInjective(ready'), q' = q, alive' = alive,
         Pointers(c)' = Pointers(c) \ {t}, Hand(c)' = Hand(c) \ {t},
         \A d \in Cores \ {c} : Pointers(d)' = Pointers(d) /\ Hand(d)' = Hand(d)
  PROVE  PlacesKept
<1>1. OnePlace'
  BY DEF OnePlace, Mine
<1>2. (\A u \in alive : Placed(u)) => (\A u \in alive' : Placed(u)')
  BY Zenon DEF Placed, Mine
<1> QED BY <1>1, <1>2, PlacedAll, PlacedAllNext, Zenon DEF PlacesKept, AllPlaced

(* A thread moves from the ready queue to a core that has none. *)
LEMMA ReadyToCore ==
  ASSUME OnePlace, NEW c \in Cores, NEW t,
         Range(ready) = Range(ready') \cup {t}, t \notin Range(ready'), IsInjective(ready'),
         q' = q, alive' = alive,
         Mine(c) = {}, Pointers(c)' = {t}, Hand(c)' = {},
         \A d \in Cores \ {c} : Pointers(d)' = Pointers(d) /\ Hand(d)' = Hand(d)
  PROVE  PlacesKept
<1>1. OnePlace'
  BY DEF OnePlace, Mine
<1>2. (\A u \in alive : Placed(u)) => (\A u \in alive' : Placed(u)')
  BY Zenon DEF Placed, Mine
<1> QED BY <1>1, <1>2, PlacedAll, PlacedAllNext, Zenon DEF PlacesKept, AllPlaced

(* A thread moves from a core to a semaphore's queue. *)
LEMMA CoreToQueue ==
  ASSUME OnePlace, NEW c \in Cores, NEW t \in Mine(c), NEW s \in Sems,
         Range(q'[s]) = Range(q[s]) \cup {t}, IsInjective(q'[s]),
         \A r \in Sems \ {s} : q'[r] = q[r], ready' = ready, alive' = alive,
         Pointers(c)' = Pointers(c) \ {t}, Hand(c)' = Hand(c) \ {t},
         \A d \in Cores \ {c} : Pointers(d)' = Pointers(d) /\ Hand(d)' = Hand(d)
  PROVE  PlacesKept
<1>1. OnePlace'
  <2>1. \A r \in Sems : IsInjective(q'[r]) /\ Range(q'[r]) \cap Range(ready') = {}
    BY DEF OnePlace, Mine
  <2>2. \A r \in Sems : \A u \in Sems \ {r} : Range(q'[r]) \cap Range(q'[u]) = {}
    BY DEF OnePlace, Mine
  <2>3. IsInjective(ready') /\ \A d \in Cores : Mine(d)' \subseteq alive' /\ Pointers(d)' \cap Hand(d)' = {}
    BY Zenon DEF OnePlace, Mine
  <2>4. \A d \in Cores : Mine(d)' \cap Range(ready') = {} /\ \A r \in Sems : Mine(d)' \cap Range(q'[r]) = {}
    BY DEF OnePlace, Mine
  <2>5. \A d \in Cores : \A e \in Cores \ {d} : Mine(d)' \cap Mine(e)' = {}
    BY DEF OnePlace, Mine
  <2>6. /\ \A d \in Cores : \A u, v \in Pointers(d)' : u = v
        /\ Range(ready') \subseteq alive' /\ \A r \in Sems : Range(q'[r]) \subseteq alive'
    BY DEF OnePlace, Mine
  <2> QED BY <2>1, <2>2, <2>3, <2>4, <2>5, <2>6, Zenon DEF OnePlace
<1>2. (\A u \in alive : Placed(u)) => (\A u \in alive' : Placed(u)')
  BY Zenon DEF Placed, Mine
<1> QED BY <1>1, <1>2, PlacedAll, PlacedAllNext, Zenon DEF PlacesKept, AllPlaced

(* A thread moves from a semaphore's queue into a local variable. *)
LEMMA QueueToHand ==
  ASSUME OnePlace, NEW c \in Cores, NEW t, NEW s \in Sems,
         Range(q[s]) = Range(q'[s]) \cup {t}, t \notin Range(q'[s]), IsInjective(q'[s]),
         \A r \in Sems \ {s} : q'[r] = q[r], ready' = ready, alive' = alive,
         Hand(c) = {}, Pointers(c)' = Pointers(c), Hand(c)' = {t},
         \A d \in Cores \ {c} : Pointers(d)' = Pointers(d) /\ Hand(d)' = Hand(d)
  PROVE  PlacesKept
<1>1. OnePlace'
  <2>1. \A r \in Sems : IsInjective(q'[r]) /\ Range(q'[r]) \cap Range(ready') = {}
    BY Zenon DEF OnePlace, Mine
  <2>2. \A r \in Sems : \A u \in Sems \ {r} : Range(q'[r]) \cap Range(q'[u]) = {}
    BY DEF OnePlace, Mine
  <2>3. IsInjective(ready') /\ \A d \in Cores : Mine(d)' \subseteq alive' /\ Pointers(d)' \cap Hand(d)' = {}
    BY DEF OnePlace, Mine
  <2>4. \A d \in Cores : Mine(d)' \cap Range(ready') = {} /\ \A r \in Sems : Mine(d)' \cap Range(q'[r]) = {}
    BY DEF OnePlace, Mine
  <2>5. \A d \in Cores : \A e \in Cores \ {d} : Mine(d)' \cap Mine(e)' = {}
    BY DEF OnePlace, Mine
  <2>6. /\ \A d \in Cores : \A u, v \in Pointers(d)' : u = v
        /\ Range(ready') \subseteq alive' /\ \A r \in Sems : Range(q'[r]) \subseteq alive'
    BY DEF OnePlace, Mine
  <2> QED BY <2>1, <2>2, <2>3, <2>4, <2>5, <2>6, Zenon DEF OnePlace
<1>2. (\A u \in alive : Placed(u)) => (\A u \in alive' : Placed(u)')
  BY DEF Placed, Mine
<1> QED BY <1>1, <1>2, PlacedAll, PlacedAllNext, Zenon DEF PlacesKept, AllPlaced

(* A TCB is allocated into a local variable. *)
LEMMA FreeToHand ==
  ASSUME OnePlace, NEW c \in Cores, NEW t, t \notin alive,
         ready' = ready, q' = q, alive' = alive \cup {t},
         Hand(c) = {}, Pointers(c)' = Pointers(c), Hand(c)' = {t},
         \A d \in Cores \ {c} : Pointers(d)' = Pointers(d) /\ Hand(d)' = Hand(d)
  PROVE  PlacesKept
<1>1. OnePlace'
  BY DEF OnePlace, Mine
<1>2. (\A u \in alive : Placed(u)) => (\A u \in alive' : Placed(u)')
  BY Zenon DEF Placed, Mine
<1> QED BY <1>1, <1>2, PlacedAll, PlacedAllNext, Zenon DEF PlacesKept, AllPlaced

(* A core frees the TCB it holds. *)
LEMMA CoreToFree ==
  ASSUME OnePlace, NEW c \in Cores, NEW t \in Mine(c),
         ready' = ready, q' = q, alive' = alive \ {t},
         Pointers(c)' = Pointers(c) \ {t}, Hand(c)' = Hand(c) \ {t},
         \A d \in Cores \ {c} : Pointers(d)' = Pointers(d) /\ Hand(d)' = Hand(d)
  PROVE  PlacesKept
<1>1. OnePlace'
  BY DEF OnePlace, Mine
<1>2. (\A u \in alive : Placed(u)) => (\A u \in alive' : Placed(u)')
  BY Zenon DEF Placed, Mine
<1> QED BY <1>1, <1>2, PlacedAll, PlacedAllNext, Zenon DEF PlacesKept, AllPlaced

(* Where context_switch() lands. *)
LEMMA LoadTarget ==
  ASSUME TypeOK, NEW c \in Cores, Control(c), HeldFrames(c), SwitchLoad(c)
  PROVE  /\ \/ Leaving(c) /\ on[c] = Boot /\ sp[curr[c]] = SavedFrame("idle_loop", NULL)
            \/ Leaving(c) /\ on[c] \in Threads /\ sp[curr[c]] = SavedFrame("idle_ret", NULL)
            \/ on[c] = c /\ curr[c] \in Threads /\ NoSlots(c) /\ Resumable(curr[c])
         /\ pc'[c] \in {"idle_loop", "idle_ret", "user", "down_ret"}
<1>1. pc[c] = "load" /\ pc'[c] = sp[curr[c]].x30
  BY Zenon DEF SwitchLoad, Goto, TypeOK
<1>2. CASE Leaving(c)
  <2>1. \/ on[c] = Boot /\ sp[curr[c]] = SavedFrame("idle_loop", NULL)
        \/ on[c] \in Threads /\ sp[curr[c]] = SavedFrame("idle_ret", NULL)
    BY <1>1, <1>2, Zenon DEF Leaving, HeldFrames
  <2>2. /\ SavedFrame("idle_loop", NULL).x30 = "idle_loop"
        /\ SavedFrame("idle_ret", NULL).x30 = "idle_ret"
    BY Zenon DEF SavedFrame
  <2> QED BY <1>1, <1>2, <2>1, <2>2, Zenon
<1>3. CASE on[c] = c /\ curr[c] \in Threads /\ NoSlots(c)
  <2>1. Resumable(curr[c])
    BY <1>1, <1>3, Zenon DEF HeldFrames
  <2>2. sp[curr[c]].x30 \in {"user", "down_ret"}
    <3>1. CASE sp[curr[c]] = SavedFrame("user", NULL)
      BY <3>1 DEF SavedFrame
    <3>2. CASE \E s \in Sems : sp[curr[c]] = SavedFrame("down_ret", s)
      BY <3>2 DEF SavedFrame
    <3> QED BY <2>1, <3>1, <3>2, Zenon DEF Resumable, InDown
  <2> QED BY <1>1, <1>3, <2>1, <2>2, Zenon
<1> QED BY <1>1, <1>2, <1>3, Zenon DEF Control

(* No step duplicates or loses a thread, or leaves a pointer to a freed    *)
(* one.                                                                    *)
LEMMA PlacesStep ==
  ASSUME Stable, NEW c \in Cores, Step(c)
  PROVE  PlacesKept
<1>0. TypeOK /\ Control(c) /\ HeldFrames(c) /\ OnePlace
  BY Zenon DEF Stable, ControlOK, FramesOK
<1>d. \A d \in Cores \ {c} : Pointers(d)' = Pointers(d) /\ Hand(d)' = Hand(d)
  BY <1>0, OthersSame, SamePlaces, Zenon
<1>t. /\ c \notin Threads /\ Boot \notin Threads /\ NULL \notin Threads
      /\ c # NULL /\ Boot # NULL
  BY KernelAssumption, Zenon
<1>u. ASSUME ready' = ready, q' = q, alive' = alive, Pointers(c)' = Pointers(c), Hand(c)' = Hand(c)
      PROVE  PlacesKept
  BY <1>0, <1>d, <1>u, Unmoved, Zenon
<1> USE DEF Goto, percore, tcbs, sems
<1>1. CASE SwitchSave(c)
  <2>1. ready' = ready /\ q' = q /\ alive' = alive /\ Hand(c)' = Hand(c)
    BY <1>0, <1>t, <1>1, Zenon DEF SwitchSave, Hand, TypeOK
  <2>2. Pointers(c)' = Pointers(c)
    BY <1>0, <1>t, <1>1, Zenon DEF SwitchSave, Pointers, Waiting, TypeOK, Control
  <2> QED BY <1>u, <2>1, <2>2, Zenon
<1>2. CASE SwitchLoad(c)
  <2>1. ready' = ready /\ q' = q /\ alive' = alive /\ Hand(c)' = Hand(c)
    BY <1>2, Zenon DEF SwitchLoad, Hand
  <2>2. pc[c] # "idle_unlock" /\ pc'[c] # "idle_unlock"
    BY <1>0, <1>2, LoadTarget, Zenon DEF SwitchLoad
  <2>3. on[c] \in Threads => on[c] \in {to_delete[c], to_reschedule[c], to_queue[c]}
    <3>1. SUFFICES ASSUME on[c] \in Threads PROVE on[c] \in {to_delete[c], to_reschedule[c], to_queue[c]}
      OBVIOUS
    <3>2. Queueing(c) \/ Yielding(c) \/ Stopping(c)
      BY <1>0, <1>t, <1>2, <3>1, LoadTarget, Zenon DEF Leaving
    <3>3. \A t, u \in Pointers(c) : t = u
      BY <1>0, Zenon DEF OnePlace
    <3> QED BY <2>2, <3>1, <3>2, <3>3, Zenon DEF Queueing, Yielding, Stopping, Pointers, Waiting
  <2>4. Pointers(c)' = Pointers(c)
    BY <1>0, <1>2, <2>2, <2>3, Zenon DEF SwitchLoad, Pointers, Waiting, TypeOK
  <2> QED BY <1>u, <2>1, <2>4, Zenon
<1>3. CASE Yield(c)
  <2>1. ready' = ready /\ q' = q /\ alive' = alive /\ Hand(c)' = Hand(c)
    BY <1>0, <1>t, <1>3, Zenon DEF Yield, Call, BeginSwitch, ThreadLabels, NoSlots, NoWait, Hand, TypeOK
  <2>2. Pointers(c)' = Pointers(c)
    BY <1>0, <1>t, <1>3, ZenonT(40) DEF Yield, Call, BeginSwitch, ThreadLabels, NoSlots, NoWait, Pointers, Waiting, TypeOK, Control
  <2> QED BY <1>u, <2>1, <2>2, Zenon
<1>4. CASE Stop(c)
  <2>1. ready' = ready /\ q' = q /\ alive' = alive /\ Hand(c)' = Hand(c)
    BY <1>0, <1>t, <1>4, Zenon DEF Stop, BeginSwitch, ThreadLabels, BootLabels, NoSlots, NoWait, Hand, TypeOK
  <2>2. Pointers(c)' = Pointers(c)
    BY <1>0, <1>t, <1>4, ZenonT(40) DEF Stop, BeginSwitch, ThreadLabels, BootLabels, NoSlots, NoWait, Pointers, Waiting, TypeOK, Control
  <2> QED BY <1>u, <2>1, <2>2, Zenon
<1>5. CASE IdleEnter(c)
  <2>1. ready' = ready /\ q' = q /\ alive' = alive /\ Hand(c)' = Hand(c)
    BY <1>0, <1>t, <1>5, Zenon DEF IdleEnter, IdleLabels, AtIdle, Hand, TypeOK
  <2>2. Pointers(c)' = Pointers(c)
    BY <1>0, <1>t, <1>5, Zenon DEF IdleEnter, IdleLabels, AtIdle, Pointers, Waiting, TypeOK, Control
  <2> QED BY <1>u, <2>1, <2>2, Zenon
<1>6. CASE IdlePoll(c)
  <2>1. ready' = ready /\ q' = q /\ alive' = alive /\ Hand(c)' = Hand(c)
    BY <1>0, <1>t, <1>6, Zenon DEF IdlePoll, vars, regs, Hand, TypeOK
  <2>2. Pointers(c)' = Pointers(c)
    BY <1>0, <1>t, <1>6, Zenon DEF IdlePoll, vars, regs, Pointers, Waiting, TypeOK, Control
  <2> QED BY <1>u, <2>1, <2>2, Zenon
<1>7. CASE IdleUnlock(c)
  <2>1. ready' = ready /\ q' = q /\ alive' = alive /\ Hand(c)' = Hand(c)
    BY <1>0, <1>t, <1>7, Zenon DEF IdleUnlock, Queueing, Hand, TypeOK
  <2>2. Pointers(c)' = Pointers(c)
    BY <1>0, <1>t, <1>7, Zenon DEF IdleUnlock, Queueing, Pointers, Waiting, TypeOK, Control
  <2> QED BY <1>u, <2>1, <2>2, Zenon
<1>8. CASE IdleNoQueue(c)
  <2>1. ready' = ready /\ q' = q /\ alive' = alive /\ Hand(c)' = Hand(c)
    BY <1>0, <1>t, <1>8, Zenon DEF IdleNoQueue, Hand, TypeOK
  <2>2. Pointers(c)' = Pointers(c)
    BY <1>0, <1>t, <1>8, Zenon DEF IdleNoQueue, Pointers, Waiting, TypeOK, Control
  <2> QED BY <1>u, <2>1, <2>2, Zenon
<1>9. CASE SemDown(c)
  <2>1. ready' = ready /\ q' = q /\ alive' = alive /\ Hand(c)' = Hand(c)
    BY <1>0, <1>t, <1>9, Zenon DEF SemDown, Hand, TypeOK
  <2>2. Pointers(c)' = Pointers(c)
    BY <1>0, <1>t, <1>9, Zenon DEF SemDown, Call, Pointers, Waiting, TypeOK, Control
  <2> QED BY <1>u, <2>1, <2>2, Zenon
<1>10. CASE SemUp(c)
  <2>1. ready' = ready /\ q' = q /\ alive' = alive /\ Hand(c)' = Hand(c)
    BY <1>0, <1>t, <1>10, Zenon DEF SemUp, Hand, TypeOK
  <2>2. Pointers(c)' = Pointers(c)
    BY <1>0, <1>t, <1>10, Zenon DEF SemUp, Call, Pointers, Waiting, TypeOK, Control
  <2> QED BY <1>u, <2>1, <2>2, Zenon
<1>11. CASE MutexLock(c)
  <2>1. ready' = ready /\ q' = q /\ alive' = alive /\ Hand(c)' = Hand(c)
    BY <1>0, <1>t, <1>11, Zenon DEF MutexLock, Hand, TypeOK
  <2>2. Pointers(c)' = Pointers(c)
    BY <1>0, <1>t, <1>11, Zenon DEF MutexLock, Call, Pointers, Waiting, TypeOK, Control
  <2> QED BY <1>u, <2>1, <2>2, Zenon
<1>12. CASE MutexUnlock(c)
  <2>1. ready' = ready /\ q' = q /\ alive' = alive /\ Hand(c)' = Hand(c)
    BY <1>0, <1>t, <1>12, Zenon DEF MutexUnlock, Hand, TypeOK
  <2>2. Pointers(c)' = Pointers(c)
    BY <1>0, <1>t, <1>12, Zenon DEF MutexUnlock, Pointers, Waiting, TypeOK, Control
  <2> QED BY <1>u, <2>1, <2>2, Zenon
<1>13. CASE DownLock(c)
  <2>1. ready' = ready /\ q' = q /\ alive' = alive /\ Hand(c)' = Hand(c)
    BY <1>0, <1>t, <1>13, Zenon DEF DownLock, Acquire, Hand, TypeOK
  <2>2. Pointers(c)' = Pointers(c)
    BY <1>0, <1>t, <1>13, Zenon DEF DownLock, Acquire, Pointers, Waiting, TypeOK, Control
  <2> QED BY <1>u, <2>1, <2>2, Zenon
<1>14. CASE DownBlock(c)
  <2>1. ready' = ready /\ q' = q /\ alive' = alive /\ Hand(c)' = Hand(c)
    BY <1>0, <1>t, <1>14, Zenon DEF DownBlock, BeginSwitch, ThreadLabels, SemLabels, CriticalLabels, NoSlots, NoWait, Hand, TypeOK
  <2>2. Pointers(c)' = Pointers(c)
    BY <1>0, <1>t, <1>14, ZenonT(40) DEF DownBlock, BeginSwitch, ThreadLabels, SemLabels, CriticalLabels, NoSlots, NoWait, Pointers, Waiting, TypeOK, Control
  <2> QED BY <1>u, <2>1, <2>2, Zenon
<1>15. CASE DownPass(c)
  <2>1. ready' = ready /\ q' = q /\ alive' = alive /\ Hand(c)' = Hand(c)
    BY <1>0, <1>t, <1>15, Zenon DEF DownPass, Hand, TypeOK
  <2>2. Pointers(c)' = Pointers(c)
    BY <1>0, <1>t, <1>15, ZenonT(40) DEF DownPass, Pointers, Waiting, TypeOK, Control
  <2> QED BY <1>u, <2>1, <2>2, Zenon
<1>16. CASE DownUnlock(c)
  <2>1. ready' = ready /\ q' = q /\ alive' = alive /\ Hand(c)' = Hand(c)
    BY <1>0, <1>t, <1>16, Zenon DEF DownUnlock, ReturnToUser, Hand, TypeOK
  <2>2. Pointers(c)' = Pointers(c)
    BY <1>0, <1>t, <1>16, Zenon DEF DownUnlock, ReturnToUser, Pointers, Waiting, TypeOK, Control
  <2> QED BY <1>u, <2>1, <2>2, Zenon
<1>17. CASE DownReturn(c)
  <2>1. ready' = ready /\ q' = q /\ alive' = alive /\ Hand(c)' = Hand(c)
    BY <1>0, <1>t, <1>17, Zenon DEF DownReturn, ReturnToUser, Hand, TypeOK
  <2>2. Pointers(c)' = Pointers(c)
    BY <1>0, <1>t, <1>17, Zenon DEF DownReturn, ReturnToUser, Pointers, Waiting, TypeOK, Control
  <2> QED BY <1>u, <2>1, <2>2, Zenon
<1>18. CASE UpLock(c)
  <2>1. ready' = ready /\ q' = q /\ alive' = alive /\ Hand(c)' = Hand(c)
    BY <1>0, <1>t, <1>18, Zenon DEF UpLock, Acquire, Hand, TypeOK
  <2>2. Pointers(c)' = Pointers(c)
    BY <1>0, <1>t, <1>18, Zenon DEF UpLock, Acquire, Pointers, Waiting, TypeOK, Control
  <2> QED BY <1>u, <2>1, <2>2, Zenon
<1>19. CASE UpInc(c)
  <2>1. ready' = ready /\ q' = q /\ alive' = alive /\ Hand(c)' = Hand(c)
    BY <1>0, <1>t, <1>19, Zenon DEF UpInc, Hand, TypeOK
  <2>2. Pointers(c)' = Pointers(c)
    BY <1>0, <1>t, <1>19, Zenon DEF UpInc, Pointers, Waiting, TypeOK, Control
  <2> QED BY <1>u, <2>1, <2>2, Zenon
<1>20. CASE UpUnlock(c)
  <2>1. ready' = ready /\ q' = q /\ alive' = alive /\ Hand(c)' = Hand(c)
    BY <1>0, <1>t, <1>20, Zenon DEF UpUnlock, ReturnToUser, Hand, TypeOK
  <2>2. Pointers(c)' = Pointers(c)
    BY <1>0, <1>t, <1>20, Zenon DEF UpUnlock, ReturnToUser, Pointers, Waiting, TypeOK, Control
  <2> QED BY <1>u, <2>1, <2>2, Zenon
<1>21. CASE GoMake(c)
  <2>1. PICK t \in Threads \ alive : alive' = alive \cup {t} /\ tmp' = [tmp EXCEPT ![c] = t]
    BY <1>21, Zenon DEF GoMake
  <2>2. tmp[c] = NULL /\ pc[c] # "idle_unlock"
    BY <1>0, <1>21, Zenon DEF GoMake, Call, Control
  <2>3. Hand(c) = {} /\ Hand(c)' = {t}
    BY <1>0, <1>t, <2>1, <2>2 DEF Hand, TypeOK
  <2>4. ready' = ready /\ q' = q /\ Pointers(c)' = Pointers(c)
    BY <1>0, <1>21, <2>2, Zenon DEF GoMake, Pointers, Waiting, TypeOK
  <2> QED BY <1>0, <1>d, <2>1, <2>3, <2>4, FreeToHand, Zenon
<1>22. ASSUME pc[c] \in {"go_sched", "up_sched"}, ready' = Append(ready, tmp[c]),
              tmp' = [tmp EXCEPT ![c] = NULL], q' = q, alive' = alive, Pointers(c)' = Pointers(c)
       PROVE  PlacesKept
  <2>1. tmp[c] \in Threads
    BY <1>0, <1>22, Zenon DEF Control, TypeOK
  <2>2. Hand(c) = {tmp[c]} /\ Hand(c)' = {}
    BY <1>0, <1>t, <1>22, <2>1 DEF Hand, TypeOK
  <2>3. tmp[c] \in Mine(c) /\ tmp[c] \notin Pointers(c) /\ tmp[c] \notin Range(ready)
    BY <1>0, <2>2, ZenonT(40) DEF Mine, OnePlace
  <2>4. Range(ready') = Range(ready) \cup {tmp[c]} /\ IsInjective(ready')
    BY <1>0, <1>22, <2>1, <2>3, RangeAppend DEF TypeOK, OnePlace
  <2>5. Pointers(c)' = Pointers(c) \ {tmp[c]} /\ Hand(c)' = Hand(c) \ {tmp[c]}
    BY <1>22, <2>2, <2>3, Zenon
  <2> QED BY <1>0, <1>d, <1>22, <2>3, <2>4, <2>5, CoreToReady, Zenon
<1>23. CASE GoSchedule(c)
  <2>1. Pointers(c)' = Pointers(c)
    BY <1>0, <1>23, Zenon DEF GoSchedule, Pointers, Waiting, TypeOK
  <2> QED BY <1>22, <1>23, <2>1, Zenon DEF GoSchedule, Schedule
<1>24. CASE UpSchedule(c)
  <2>1. Pointers(c)' = Pointers(c)
    BY <1>0, <1>24, Zenon DEF UpSchedule, Pointers, Waiting, TypeOK
  <2> QED BY <1>22, <1>24, <2>1, Zenon DEF UpSchedule, Schedule
<1>25. CASE IdleNext(c)
  <2>1. /\ ready # <<>> /\ ready' = Tail(ready) /\ q' = q /\ alive' = alive
        /\ pc[c] = "idle_next" /\ tmp[c] = NULL
    BY <1>0, <1>25, Zenon DEF IdleNext, Control
  <2>2. /\ Range(ready) = Range(ready') \cup {Head(ready)}
        /\ Head(ready) \notin Range(ready') /\ IsInjective(ready') /\ Head(ready) \in Threads
    BY <1>0, <2>1, RangeTail, Zenon DEF TypeOK, OnePlace
  <2>3. Mine(c) = {}
    BY <1>0, <1>t, <2>1, ZenonT(40) DEF Control, IdleLabels, AtIdle, NoSlots, NoWait, Mine, Pointers, Hand, Waiting
  <2>4. Pointers(c)' = {Head(ready)} /\ Hand(c)' = {}
    BY <1>0, <1>t, <1>25, <2>1, <2>2 DEF IdleNext, BeginSwitch, TypeOK, Control, IdleLabels, AtIdle,
       NoSlots, NoWait, Pointers, Hand, Waiting
  <2> QED BY <1>0, <1>d, <2>1, <2>2, <2>3, <2>4, ReadyToCore, Zenon
<1>26. CASE IdleDelete(c)
  <2>1. ready' = ready /\ q' = q /\ alive' = alive \ {to_delete[c]} /\ Hand(c)' = Hand(c)
        /\ pc[c] = "idle_ret" /\ tmp[c] = NULL
    BY <1>0, <1>26, Zenon DEF IdleDelete, Hand, Control
  <2>2. CASE to_delete[c] = NULL
    <3>1. Pointers(c)' = Pointers(c)
      BY <1>0, <1>26, <2>2, Zenon DEF IdleDelete, Pointers, Waiting, TypeOK
    <3>2. alive' = alive
      BY <1>0, <1>t, <2>1, <2>2 DEF TypeOK
    <3> QED BY <1>u, <2>1, <3>1, <3>2, Zenon
  <2>3. CASE to_delete[c] \in Threads
    <3>1. Pointers(c) = {to_delete[c]} /\ Pointers(c)' = {}
      <4>1. /\ pc[c] = "idle_ret" /\ on[c] = c /\ curr[c] = c
            /\ to_reschedule[c] = NULL /\ to_queue[c] = NULL
        BY <1>0, <1>t, <1>26, <2>3, ZenonT(40) DEF IdleDelete, Control, IdleLabels, AtIdle, Queueing, Yielding, Stopping, NoWait
      <4> QED BY <1>0, <1>t, <1>26, <2>3, <4>1 DEF IdleDelete, Pointers, Waiting, TypeOK
    <3>2. Hand(c) = {}
      BY <1>t, <2>1, Zenon DEF Hand
    <3> QED BY <1>0, <1>d, <2>1, <3>1, <3>2, CoreToFree, Zenon DEF Mine
  <2> QED BY <1>0, <2>2, <2>3, Zenon DEF TypeOK
<1>27. CASE IdleEnqueue(c)
  <2>1. Queueing(c) /\ AtIdle(c) /\ pc[c] = "idle_queue" /\ tmp[c] = NULL
    BY <1>0, <1>27, Zenon DEF IdleEnqueue, Control, Queueing, Yielding, NoSlots, NoWait, IdleLabels
  <2> DEFINE t == to_queue[c]
             s == to_add_to[c]
  <2>2. t \in Threads /\ s \in Sems
    BY <2>1, Zenon DEF Queueing
  <2>3. /\ q' = [q EXCEPT ![s] = Append(@, t)] /\ ready' = ready /\ alive' = alive
        /\ pc' = [pc EXCEPT ![c] = "idle_unlock"]
    BY <1>27, <2>1, KernelAssumption, Zenon DEF IdleEnqueue, Queueing
  <2>4. Pointers(c) = {t} /\ Pointers(c)' = {}
    BY <1>0, <1>t, <1>27, <2>1, <2>3 DEF IdleEnqueue, Pointers, Waiting, AtIdle, Queueing, TypeOK
  <2>5. Hand(c) = {} /\ Hand(c)' = {}
    BY <1>0, <1>t, <1>27, <2>1, Zenon DEF IdleEnqueue, Hand
  <2>6. q'[s] = Append(q[s], t) /\ \A r \in Sems \ {s} : q'[r] = q[r]
    BY <1>0, <2>2, <2>3, Zenon DEF TypeOK
  <2>7. t \in Mine(c) /\ t \notin Range(q[s]) /\ IsInjective(q[s]) /\ q[s] \in Seq(Threads)
    BY <1>0, <2>2, <2>4, Zenon DEF OnePlace, Mine, TypeOK
  <2> HIDE DEF t, s
  <2>8. Range(q'[s]) = Range(q[s]) \cup {t} /\ IsInjective(q'[s])
    <3>1. Range(Append(q[s], t)) = Range(q[s]) \cup {t} /\ IsInjective(Append(q[s], t))
      BY <2>2, <2>7, RangeAppend
    <3> QED BY <2>6, <3>1, Zenon
  <2>9. Pointers(c)' = Pointers(c) \ {t} /\ Hand(c)' = Hand(c) \ {t}
    BY <2>4, <2>5, Zenon
  <2> QED BY <1>0, <1>d, <2>2, <2>3, <2>6, <2>7, <2>8, <2>9, CoreToQueue, Zenon
<1>28. CASE IdleReschedule(c)
  <2>1. /\ q' = q /\ alive' = alive /\ Hand(c)' = Hand(c) /\ tmp[c] = NULL /\ AtIdle(c)
        /\ pc[c] = "idle_resched" /\ NoWait(c) /\ to_delete[c] = NULL
    BY <1>0, <1>28, Zenon DEF IdleReschedule, Control, Hand, Yielding, NoSlots, IdleLabels
  <2> DEFINE t == to_reschedule[c]
  <2>2. CASE t = NULL
    <3>1. ready' = ready /\ Pointers(c)' = Pointers(c)
      BY <1>0, <1>t, <1>28, <2>2, Zenon DEF IdleReschedule, Pointers, Waiting, TypeOK
    <3> QED BY <1>u, <2>1, <3>1, Zenon
  <2>3. CASE t \in Threads
    <3>1. ready' = Append(ready, t)
      BY <1>t, <1>28, <2>3, ZenonT(40) DEF IdleReschedule, Schedule
    <3>2. Pointers(c) = {t} /\ Pointers(c)' = {} /\ Hand(c) = {}
      BY <1>0, <1>t, <1>28, <2>1, <2>3 DEF IdleReschedule, Pointers, Waiting, TypeOK, AtIdle, NoWait, Hand
    <3>3. t \in Mine(c) /\ t \notin Range(ready) /\ IsInjective(ready) /\ ready \in Seq(Threads)
      BY <1>0, <3>2, Zenon DEF OnePlace, Mine, TypeOK
    <3>4. Range(ready') = Range(ready) \cup {t} /\ IsInjective(ready')
      BY <2>3, <3>1, <3>3, RangeAppend, ZenonT(40)
    <3>5. Pointers(c)' = Pointers(c) \ {t} /\ Hand(c)' = Hand(c) \ {t}
      BY <2>1, <3>2, Zenon
    <3> HIDE DEF t
    <3> QED BY <1>0, <1>d, <2>1, <3>3, <3>4, <3>5, CoreToReady, Zenon
  <2> QED BY <1>0, <2>2, <2>3, Zenon DEF TypeOK
<1>29. CASE UpPop(c)
  <2> DEFINE s == this[c]
  <2>1. s \in Sems /\ pc[c] = "up_pop" /\ tmp[c] = NULL
    BY <1>0, <1>29, InSemaphore, Zenon DEF UpPop, Control, SemLabels, CriticalLabels
  <2>2. Pointers(c)' = Pointers(c) /\ ready' = ready /\ alive' = alive
    <3>1. pc'[c] # "idle_unlock"
      BY <1>0, <1>29, Zenon DEF UpPop, TypeOK
    <3> QED BY <1>29, <2>1, <3>1, Zenon DEF UpPop, Pointers, Waiting
  <2>3. CASE q[s] = <<>>
    <3>1. q' = q /\ Hand(c)' = Hand(c)
      BY <1>29, <2>3, Zenon DEF UpPop, Hand
    <3> QED BY <1>u, <2>2, <3>1, Zenon
  <2>4. CASE q[s] # <<>>
    <3>1. q' = [q EXCEPT ![s] = Tail(@)] /\ tmp' = [tmp EXCEPT ![c] = Head(q[s])]
      BY <1>29, <2>4, Zenon DEF UpPop
    <3>2. q'[s] = Tail(q[s]) /\ (\A r \in Sems \ {s} : q'[r] = q[r]) /\ q[s] \in Seq(Threads)
      BY <1>0, <2>1, <3>1, Zenon DEF TypeOK
    <3>3. /\ Range(q[s]) = Range(q'[s]) \cup {Head(q[s])}
          /\ Head(q[s]) \notin Range(q'[s]) /\ IsInjective(q'[s]) /\ Head(q[s]) \in Threads
      <4>1. IsInjective(q[s])
        BY <1>0, <2>1, Zenon DEF OnePlace
      <4> HIDE DEF s
      <4>2. /\ Range(q[s]) = Range(Tail(q[s])) \cup {Head(q[s])}
            /\ Head(q[s]) \notin Range(Tail(q[s])) /\ IsInjective(Tail(q[s])) /\ Head(q[s]) \in Threads
        BY <2>4, <3>2, <4>1, RangeTail, Zenon
      <4> QED BY <3>2, <4>2, Zenon
    <3>4. Hand(c) = {} /\ Hand(c)' = {Head(q[s])}
      BY <1>0, <1>t, <2>1, <3>1, <3>3 DEF Hand, TypeOK
    <3> HIDE DEF s
    <3> QED BY <1>0, <1>d, <2>1, <2>2, <3>2, <3>3, <3>4, QueueToHand, Zenon
  <2> QED BY <2>3, <2>4, Zenon
<1> QED BY <1>1, <1>2, <1>3, <1>4, <1>5, <1>6, <1>7, <1>8, <1>9, <1>10, <1>11, <1>12, <1>13, <1>14,
           <1>15, <1>16, <1>17, <1>18, <1>19, <1>20, <1>21, <1>23, <1>24, <1>25, <1>26, <1>27,
           <1>28, <1>29, Zenon DEF Step, Idle, Thread, Semaphore

(* No step duplicates a thread. *)
LEMMA PlaceStep ==
  ASSUME Stable, NEW c \in Cores, Step(c)
  PROVE  OnePlace'
BY PlacesStep, Zenon DEF PlacesKept

(* No step loses a thread. *)
LEMMA LostStep ==
  ASSUME Stable, NoThreadLost, NEW c \in Cores, Step(c)
  PROVE  NoThreadLost'
BY PlacesStep, Zenon DEF PlacesKept


-----------------------------------------------------------------------------
(* Frames: what is queued can be resumed.                                  *)

(* At boot nothing is queued or held. *)
LEMMA FramesInit == Init => FramesOK
<1> SUFFICES ASSUME Init PROVE FramesOK
  OBVIOUS
<1>1. Range(ready) = {} /\ \A s \in Sems : Range(q[s]) = {}
  BY DEF Init, Range
<1>2. QueuedIsSaved
  BY <1>1, Zenon DEF QueuedIsSaved
<1>3. ASSUME NEW c \in Cores PROVE HeldFrames(c)
  <2>1. sp[c] = SavedFrame("idle_loop", NULL)
    BY Zenon DEF Init, TCB
  <2> QED BY <2>1, KernelAssumption, Zenon DEF Init, HeldFrames, Hand, Waiting
<1> QED BY <1>2, <1>3, Zenon DEF FramesOK

(* Most steps save nothing. *)
LEMMA FrameKept ==
  ASSUME NEW c \in Cores, Step(c)
  PROVE  sp' = sp \/ SwitchSave(c) \/ GoMake(c) \/ IdleDelete(c)
<1> USE DEF tcbs
<1>1. ASSUME SwitchLoad(c) PROVE sp' = sp
  BY <1>1, Zenon DEF SwitchLoad
<1>2. ASSUME Idle(c) PROVE sp' = sp \/ IdleDelete(c)
  BY <1>2, Zenon DEF Idle, IdleEnter, IdleNext, IdlePoll, IdleEnqueue, IdleUnlock, IdleNoQueue,
     IdleReschedule, vars
<1>3. ASSUME Thread(c) PROVE sp' = sp \/ GoMake(c)
  BY <1>3, ZenonT(40) DEF Thread, GoSchedule, Yield, Stop, SemDown, SemUp, MutexLock, MutexUnlock
<1>4. ASSUME Semaphore(c) PROVE sp' = sp
  BY <1>4, Zenon DEF Semaphore, DownLock, DownBlock, DownPass, DownUnlock, DownReturn, UpLock, UpInc,
     UpPop, UpSchedule, UpUnlock, Acquire
<1> QED BY <1>1, <1>2, <1>3, <1>4, Zenon DEF Step

(* A core writes no frame but its own thread's and its idle thread's, and  *)
(* that of a TCB it has just allocated.                                    *)
LEMMA FrameUntouched ==
  ASSUME Stable, NEW c \in Cores, Step(c), NEW t \in alive \cup Cores, t \notin Mine(c) \cup {c}
  PROVE  sp'[t] = sp[t]
<1>0. TypeOK /\ Control(c) /\ t \in TCB
  BY Zenon DEF Stable, ControlOK, TypeOK, TCB
<1>1. CASE SwitchSave(c)
  <2>1. prev[c] # t
    <3>1. prev[c] \in {NULL, c, on[c]}
      BY <1>0, <1>1, Zenon DEF SwitchSave, Control, LeaveLabels, Leaving
    <3>2. t # NULL /\ t # c
      BY <1>0, KernelAssumption, Zenon DEF TCB
    <3>3. on[c] \in Threads => on[c] \in Mine(c)
      BY ZenonT(40) DEF Mine, Pointers
    <3>4. t = on[c] => on[c] \in Threads
      BY <1>0, <1>1, <3>2, KernelAssumption, Zenon DEF SwitchSave, Control, LeaveLabels, Leaving, TCB
    <3> QED BY <3>1, <3>2, <3>3, <3>4, Zenon
  <2> QED BY <1>0, <1>1, <2>1, Zenon DEF SwitchSave
<1>2. CASE GoMake(c)
  <2>1. PICK u \in Threads \ alive : sp' = [sp EXCEPT ![u] = SavedFrame("user", NULL)]
    BY <1>2, Zenon DEF GoMake
  <2>2. t # u
    BY <2>1, KernelAssumption, Zenon
  <2> QED BY <1>0, <2>1, <2>2, Zenon DEF TypeOK
<1>3. CASE IdleDelete(c)
  <2>1. to_delete[c] # t
    <3>1. to_delete[c] \in Threads => to_delete[c] \in Mine(c)
      BY Zenon DEF Mine, Pointers
    <3>2. to_delete[c] \in Threads \cup {NULL}
      BY <1>0, Zenon DEF TypeOK
    <3> QED BY <1>0, <3>1, <3>2, KernelAssumption, Zenon DEF TCB
  <2> QED BY <1>0, <1>3, <2>1, Zenon DEF IdleDelete
<1> QED BY <1>1, <1>2, <1>3, FrameKept, Zenon

(* What a step adds to the ready queue can be resumed. *)
LEMMA ReadyGains ==
  ASSUME Stable, NEW c \in Cores, Step(c), NEW t \in Range(ready'), t \notin Range(ready)
  PROVE  sp' = sp /\ Resumable(t)
<1>0. TypeOK /\ Control(c) /\ HeldFrames(c)
  BY Zenon DEF Stable, ControlOK, FramesOK
<1>1. ASSUME GoSchedule(c) \/ UpSchedule(c) PROVE sp' = sp /\ Resumable(t)
  <2>1. sp' = sp /\ ready' = Append(ready, tmp[c]) /\ pc[c] \in {"go_sched", "up_sched"}
    BY <1>1, Zenon DEF GoSchedule, UpSchedule, Schedule, tcbs
  <2>2. tmp[c] \in Threads
    BY <1>0, <2>1, Zenon DEF Control, TypeOK
  <2>3. t = tmp[c]
    BY <1>0, <2>1, <2>2, RangeAppend DEF TypeOK
  <2> QED BY <1>0, <2>1, <2>2, <2>3, Zenon DEF HeldFrames, Hand
<1>2. ASSUME IdleReschedule(c) PROVE sp' = sp /\ Resumable(t)
  <2>1. sp' = sp /\ pc[c] = "idle_resched"
    BY <1>2, Zenon DEF IdleReschedule, tcbs
  <2>2. to_reschedule[c] # NULL /\ ready' = Append(ready, to_reschedule[c])
    BY <1>2, Zenon DEF IdleReschedule, Schedule
  <2>3. to_reschedule[c] \in Threads
    BY <1>0, <2>2, Zenon DEF TypeOK
  <2>4. t = to_reschedule[c]
    BY <1>0, <2>2, <2>3, RangeAppend DEF TypeOK
  <2> QED BY <1>0, <2>1, <2>3, <2>4, Zenon DEF HeldFrames, Resumable
<1>3. ASSUME IdleNext(c) PROVE FALSE
  BY <1>0, <1>3, RangeTail DEF IdleNext, TypeOK
<1>4. ready' = ready \/ GoSchedule(c) \/ UpSchedule(c) \/ IdleReschedule(c) \/ IdleNext(c)
  <2>1. ASSUME SwitchSave(c) \/ SwitchLoad(c) PROVE ready' = ready
    BY <2>1, Zenon DEF SwitchSave, SwitchLoad
  <2>2. ASSUME Idle(c) PROVE ready' = ready \/ IdleReschedule(c) \/ IdleNext(c)
    BY <2>2, Zenon DEF Idle, IdleEnter, IdlePoll, IdleDelete, IdleEnqueue, IdleUnlock, IdleNoQueue, vars
  <2>3. ASSUME Thread(c) PROVE ready' = ready \/ GoSchedule(c)
    BY <2>3, Zenon DEF Thread, GoMake, Yield, Stop, SemDown, SemUp, MutexLock, MutexUnlock
  <2>4. ASSUME Semaphore(c) PROVE ready' = ready \/ UpSchedule(c)
    BY <2>4, Zenon DEF Semaphore, DownLock, DownBlock, DownPass, DownUnlock, DownReturn, UpLock, UpInc,
       UpPop, UpUnlock, Acquire
  <2> QED BY <2>1, <2>2, <2>3, <2>4, Zenon DEF Step
<1> QED BY <1>1, <1>2, <1>3, <1>4, Zenon

(* Only two steps change a semaphore's queue. *)
LEMMA QueueKept ==
  ASSUME NEW c \in Cores, Step(c)
  PROVE  q' = q \/ IdleEnqueue(c) \/ UpPop(c)
<1> USE DEF sems
<1>1. ASSUME SwitchSave(c) \/ SwitchLoad(c) PROVE q' = q
  BY <1>1, Zenon DEF SwitchSave, SwitchLoad
<1>2. ASSUME Idle(c) PROVE q' = q \/ IdleEnqueue(c)
  BY <1>2, Zenon DEF Idle, IdleEnter, IdleNext, IdlePoll, IdleDelete, IdleUnlock, IdleNoQueue,
     IdleReschedule, vars
<1>3. ASSUME Thread(c) PROVE q' = q
  BY <1>3, Zenon DEF Thread, GoMake, GoSchedule, Yield, Stop, SemDown, SemUp, MutexLock, MutexUnlock
<1>4. ASSUME Semaphore(c) PROVE q' = q \/ UpPop(c)
  BY <1>4, Zenon DEF Semaphore, DownLock, DownBlock, DownPass, DownUnlock, DownReturn, UpLock, UpInc,
     UpSchedule, UpUnlock, Acquire
<1> QED BY <1>1, <1>2, <1>3, <1>4, Zenon DEF Step

(* What idle_loop() puts on a semaphore's queue is blocked in its down(). *)
LEMMA EnqueueEffect ==
  ASSUME TypeOK, NEW c \in Cores, Control(c), HeldFrames(c), IdleEnqueue(c)
  PROVE  /\ to_queue[c] \in Threads /\ to_add_to[c] \in Sems /\ to_unlock[c] = to_add_to[c]
         /\ q' = [q EXCEPT ![to_add_to[c]] = Append(@, to_queue[c])]
         /\ pc' = [pc EXCEPT ![c] = "idle_unlock"]
         /\ sp' = sp
         /\ InDown(to_queue[c], to_add_to[c])
<1>1. Queueing(c) /\ pc[c] = "idle_queue"
  BY Zenon DEF IdleEnqueue, Control, Queueing, Yielding, NoSlots, NoWait
<1>2. Waiting(c) = to_queue[c]
  BY <1>1, Zenon DEF Waiting
<1>3. InDown(to_queue[c], to_add_to[c])
  BY <1>1, <1>2, Zenon DEF HeldFrames, Queueing
<1> QED BY <1>1, <1>3, KernelAssumption, Zenon DEF IdleEnqueue, Queueing, Goto, tcbs

(* A step adds to a semaphore's queue only a thread blocked in its down(). *)
LEMMA QueueGains ==
  ASSUME Stable, NEW c \in Cores, Step(c),
         NEW s \in Sems, NEW t \in Range(q'[s]), t \notin Range(q[s])
  PROVE  sp' = sp /\ InDown(t, s)
<1>0. TypeOK /\ Control(c) /\ HeldFrames(c)
  BY Zenon DEF Stable, ControlOK, FramesOK
<1>1. ASSUME IdleEnqueue(c) PROVE sp' = sp /\ InDown(t, s)
  <2>1. s = to_add_to[c]
    BY <1>0, <1>1, EnqueueEffect, Zenon DEF TypeOK
  <2>2. q'[s] = Append(q[s], to_queue[c]) /\ to_queue[c] \in Threads /\ q[s] \in Seq(Threads)
    <3>1. q' = [q EXCEPT ![s] = Append(@, to_queue[c])] /\ to_queue[c] \in Threads
      BY <1>0, <1>1, <2>1, EnqueueEffect, ZenonT(40)
    <3>2. q \in [Sems -> Seq(Threads)]
      BY <1>0, Zenon DEF TypeOK
    <3> QED BY <3>1, <3>2, Zenon
  <2>3. t = to_queue[c]
    <3>1. Range(Append(q[s], to_queue[c])) = Range(q[s]) \cup {to_queue[c]}
      BY <2>2, RangePush, ZenonT(40)
    <3> QED BY <2>2, <3>1, Zenon
  <2> QED BY <1>0, <1>1, <2>1, <2>3, EnqueueEffect, Zenon
<1>2. ASSUME UpPop(c) PROVE FALSE
  <2>1. PICK r : r = this[c]
    BY ZenonT(40)
  <2>2. r \in Sems
    BY <1>0, <1>2, <2>1, InSemaphore, Zenon DEF UpPop, SemLabels, CriticalLabels
  <2>3. q' = q \/ (q[r] # <<>> /\ q' = [q EXCEPT ![r] = Tail(@)])
    BY <1>2, <2>1, Zenon DEF UpPop
  <2>4. CASE q[r] # <<>> /\ q' = [q EXCEPT ![r] = Tail(@)]
    <3>1. s = r /\ q'[s] = Tail(q[s]) /\ q[s] \in Seq(Threads)
      BY <1>0, <2>2, <2>4, Zenon DEF TypeOK
    <3> QED BY <2>4, <3>1, RangeTail
  <2> QED BY <2>3, <2>4, Zenon
<1> QED BY <1>1, <1>2, QueueKept, Zenon

(* A thread that can be resumed still can when its frame is not written. *)
LEMMA ResumableKept ==
  ASSUME NEW t, sp'[t] = sp[t]
  PROVE  /\ Resumable(t) => Resumable(t)'
         /\ \A s \in Sems : InDown(t, s) => InDown(t, s)'
BY Zenon DEF Resumable, InDown

(* Other cores' frames are safe from a step of core c. *)
LEMMA OtherHeldFrames ==
  ASSUME Stable, NEW c \in Cores, Step(c), NEW d \in Cores \ {c}
  PROVE  HeldFrames(d)'
<1>0. TypeOK /\ Control(d) /\ HeldFrames(d) /\ OnePlace
  BY Zenon DEF Stable, ControlOK, FramesOK
<1>1. Same(d) /\ Hand(d)' = Hand(d) /\ Waiting(d)' = Waiting(d)
  BY <1>0, OthersSame, SamePlaces, Zenon DEF Same, Waiting
<1>2. \A t \in Mine(d) : t \in alive /\ t \notin Mine(c) /\ t # c
  BY <1>0, KernelAssumption DEF OnePlace, TypeOK
<1>3. \A t \in Mine(d) : sp'[t] = sp[t]
  BY <1>2, FrameUntouched, Zenon
<1>4. sp'[d] = sp[d]
  <2>1. d \notin Mine(c)
    BY KernelAssumption, Zenon DEF Mine, Pointers, Hand
  <2> QED BY <2>1, FrameUntouched, Zenon
<1>5. /\ \A t \in Hand(d) : t \in Mine(d)
      /\ curr[d] \in Threads => curr[d] \in Mine(d)
      /\ to_reschedule[d] \in Threads => to_reschedule[d] \in Mine(d)
      /\ Waiting(d) \in Threads => Waiting(d) \in Mine(d)
  BY Zenon DEF Mine, Pointers
<1>6. \A t \in Hand(d)' : Resumable(t)'
  BY <1>0, <1>1, <1>3, <1>5, ResumableKept, Zenon DEF HeldFrames
<1>7. (pc[d] \in {"idle_sw", "load"} /\ curr[d] \in Threads => Resumable(curr[d]))'
  <2>1. SUFFICES ASSUME pc[d] \in {"idle_sw", "load"}, curr[d] \in Threads PROVE Resumable(curr[d])'
    BY <1>1, Zenon DEF Same
  <2>2. Resumable(curr[d]) /\ sp'[curr[d]] = sp[curr[d]] /\ curr'[d] = curr[d]
    BY <1>0, <1>1, <1>3, <1>5, <2>1, Zenon DEF HeldFrames, Same
  <2> QED BY <2>2, Zenon DEF Resumable, InDown
<1>8. pc'[d] # "yield_sw" /\ to_reschedule'[d] \in Threads =>
         sp'[to_reschedule'[d]] = SavedFrame("user", NULL)
  BY <1>0, <1>1, <1>3, <1>5, Zenon DEF HeldFrames, Same
<1>9. pc'[d] # "down_sw" /\ Waiting(d)' \in Threads => sp'[Waiting(d)'] = SavedFrame("down_ret", to_add_to'[d])
  BY <1>0, <1>1, <1>3, <1>5, Zenon DEF HeldFrames, Same, InDown
<1>10. /\ on'[d] = Boot => sp'[d] = SavedFrame("idle_loop", NULL)
       /\ on'[d] \in Threads \/ (pc'[d] = "load" /\ on'[d] = d) => sp'[d] = SavedFrame("idle_ret", NULL)
  BY <1>0, <1>1, <1>4, Zenon DEF HeldFrames, Same
<1> QED BY <1>6, <1>7, <1>8, <1>9, <1>10, Zenon DEF HeldFrames, InDown

(* The frames core c holds, after its own step. *)
LEMMA OwnHeldFrames ==
  ASSUME Stable, NEW c \in Cores, Step(c)
  PROVE  HeldFrames(c)'
<1>0. TypeOK /\ Control(c) /\ HeldFrames(c) /\ OnePlace /\ QueuedIsSaved
  BY Zenon DEF Stable, ControlOK, FramesOK
<1>t. /\ c \notin Threads /\ Boot \notin Threads /\ NULL \notin Threads
      /\ c # NULL /\ Boot # NULL /\ c # Boot
  BY KernelAssumption, Zenon
<1>q. ASSUME sp' = sp, tmp'[c] \in {tmp[c], NULL}, on'[c] = on[c],
             pc'[c] \notin {"idle_sw", "load"}, pc[c] \notin {"yield_sw", "down_sw"},
             pc'[c] # "yield_sw" => to_reschedule'[c] \in {to_reschedule[c], NULL},
             pc'[c] # "down_sw" => (Waiting(c) \in Threads => to_add_to'[c] = to_add_to[c])
                                   /\ Waiting(c)' \in {Waiting(c), NULL}
      PROVE  HeldFrames(c)'
  <2>1. \A t \in Hand(c)' : t \in Hand(c) /\ Resumable(t)'
    BY <1>0, <1>t, <1>q, Zenon DEF HeldFrames, Hand, Resumable, InDown
  <2>2. pc'[c] # "down_sw" => /\ Waiting(c)' \in Threads => Waiting(c) \in Threads
                              /\ Waiting(c)' \in Threads => Waiting(c)' = Waiting(c)
    BY <1>t, <1>q, Zenon
  <2>3. (pc[c] # "down_sw" /\ Waiting(c) \in Threads => InDown(Waiting(c), to_add_to[c]))'
    BY <1>0, <1>q, <2>2, Zenon DEF HeldFrames, InDown
  <2>4. (pc[c] # "yield_sw" /\ to_reschedule[c] \in Threads =>
           sp[to_reschedule[c]] = SavedFrame("user", NULL))'
    BY <1>0, <1>t, <1>q, Zenon DEF HeldFrames
  <2> QED BY <1>0, <1>q, <2>1, <2>3, <2>4, Zenon DEF HeldFrames
<1> USE DEF Goto, percore, tcbs
<1>1. CASE GoSchedule(c)
  BY <1>0, <1>q, <1>t, <1>1, Zenon DEF GoSchedule, Waiting, TypeOK
<1>2. CASE Yield(c)
  BY <1>0, <1>q, <1>t, <1>2, Zenon DEF Yield, Call, BeginSwitch, NoSlots, NoWait, ThreadLabels, Waiting, TypeOK
<1>3. CASE Stop(c)
  BY <1>0, <1>q, <1>t, <1>3, Zenon DEF Stop, BeginSwitch, Waiting, TypeOK
<1>4. CASE IdleEnter(c)
  BY <1>0, <1>q, <1>t, <1>4, Zenon DEF IdleEnter, Waiting, TypeOK
<1>5. CASE IdlePoll(c)
  BY <1>0, <1>q, <1>t, <1>5, Zenon DEF IdlePoll, vars, regs, Waiting, TypeOK
<1>6. CASE IdleEnqueue(c)
  BY <1>0, <1>q, <1>t, <1>6, EnqueueEffect, ZenonT(40) DEF IdleEnqueue, Waiting, TypeOK
<1>7. CASE IdleUnlock(c)
  BY <1>0, <1>q, <1>t, <1>7, Zenon DEF IdleUnlock, Waiting, TypeOK
<1>8. CASE IdleNoQueue(c)
  BY <1>0, <1>q, <1>t, <1>8, Zenon DEF IdleNoQueue, Waiting, TypeOK
<1>9. CASE IdleReschedule(c)
  BY <1>0, <1>q, <1>t, <1>9, Zenon DEF IdleReschedule, Waiting, TypeOK
<1>10. CASE SemDown(c)
  BY <1>0, <1>q, <1>t, <1>10, Zenon DEF SemDown, Call, Waiting, TypeOK
<1>11. CASE SemUp(c)
  BY <1>0, <1>q, <1>t, <1>11, Zenon DEF SemUp, Call, Waiting, TypeOK
<1>12. CASE MutexLock(c)
  BY <1>0, <1>q, <1>t, <1>12, Zenon DEF MutexLock, Call, Waiting, TypeOK
<1>13. CASE MutexUnlock(c)
  BY <1>0, <1>q, <1>t, <1>13, Zenon DEF MutexUnlock, Waiting, TypeOK
<1>14. CASE DownLock(c)
  BY <1>0, <1>q, <1>t, <1>14, Zenon DEF DownLock, Acquire, Waiting, TypeOK
<1>15. CASE DownBlock(c)
  BY <1>0, <1>q, <1>t, <1>15, Zenon DEF DownBlock, BeginSwitch, Waiting, TypeOK
<1>16. CASE DownPass(c)
  BY <1>0, <1>q, <1>t, <1>16, Zenon DEF DownPass, Waiting, TypeOK
<1>17. CASE DownUnlock(c)
  BY <1>0, <1>q, <1>t, <1>17, Zenon DEF DownUnlock, ReturnToUser, Waiting, TypeOK
<1>18. CASE DownReturn(c)
  BY <1>0, <1>q, <1>t, <1>18, Zenon DEF DownReturn, ReturnToUser, Waiting, TypeOK
<1>19. CASE UpLock(c)
  BY <1>0, <1>q, <1>t, <1>19, Zenon DEF UpLock, Acquire, Waiting, TypeOK
<1>20. CASE UpInc(c)
  BY <1>0, <1>q, <1>t, <1>20, Zenon DEF UpInc, Waiting, TypeOK
<1>21. CASE UpSchedule(c)
  BY <1>0, <1>q, <1>t, <1>21, Zenon DEF UpSchedule, Waiting, TypeOK
<1>22. CASE UpUnlock(c)
  BY <1>0, <1>q, <1>t, <1>22, Zenon DEF UpUnlock, ReturnToUser, Waiting, TypeOK
<1>23. CASE SwitchSave(c)
  <2>1. /\ pc[c] \in {"yield_sw", "stop_sw", "down_sw", "idle_sw"} /\ pc'[c] = "load"
        /\ UNCHANGED <<this, on, tmp, percore>> /\ tmp[c] = NULL
    BY <1>0, <1>23, Zenon DEF SwitchSave, TypeOK, Control
  <2>2. \A t \in TCB : sp'[t] = IF t = prev[c] THEN SavedFrame(ReturnAddress[pc[c]], this[c]) ELSE sp[t]
    BY <1>23, Zenon DEF SwitchSave
  <2>3. \A t, u \in Pointers(c) : t = u
    BY <1>0, Zenon DEF OnePlace
  <2>4. Hand(c)' = {}
    BY <1>t, <2>1, Zenon DEF Hand
  <2>5. ReturnAddress["yield_sw"] = "user" /\ ReturnAddress["down_sw"] = "down_ret"
        /\ ReturnAddress["idle_sw"] = "idle_ret"
    BY Zenon DEF ReturnAddress
  <2>6. (curr[c] \in Threads => Resumable(curr[c]))'
    <3>1. SUFFICES ASSUME curr[c] \in Threads PROVE Resumable(curr[c])'
      BY <2>1, Zenon
    <3>2. pc[c] = "idle_sw" /\ prev[c] = c
      BY <1>0, <1>t, <2>1, <3>1, Zenon DEF Control, LeaveLabels, Leaving
    <3>3. Resumable(curr[c]) /\ sp'[curr[c]] = sp[curr[c]] /\ curr'[c] = curr[c]
      BY <1>0, <1>t, <2>1, <2>2, <3>1, <3>2, ZenonT(40) DEF HeldFrames, TCB
    <3> QED BY <3>3, Zenon DEF Resumable, InDown
  <2>7. (to_reschedule[c] \in Threads => sp[to_reschedule[c]] = SavedFrame("user", NULL))'
    <3>1. SUFFICES ASSUME to_reschedule[c] \in Threads
                   PROVE sp'[to_reschedule[c]] = SavedFrame("user", NULL)
      BY <2>1, Zenon
    <3>2. pc[c] = "yield_sw" /\ this[c] = NULL /\ on[c] \in Threads /\ prev[c] = on[c]
      BY <1>0, <1>t, <2>1, <3>1, ZenonT(40) DEF Control, LeaveLabels, Leaving, Queueing, Stopping, NoSlots
    <3>3. to_reschedule[c] = prev[c]
      BY <2>3, <3>1, <3>2, Zenon DEF Pointers
    <3> QED BY <2>2, <2>5, <3>1, <3>2, <3>3, Zenon DEF TCB
  <2>8. (Waiting(c) \in Threads => InDown(Waiting(c), to_add_to[c]))'
    <3>1. SUFFICES ASSUME to_queue[c] \in Threads
                   PROVE sp'[to_queue[c]] = SavedFrame("down_ret", to_add_to[c])
      BY <2>1, Zenon DEF Waiting, InDown
    <3>2. pc[c] = "down_sw" /\ this[c] = to_add_to[c] /\ on[c] \in Threads /\ prev[c] = on[c]
      BY <1>0, <1>t, <2>1, <3>1, ZenonT(40) DEF Control, LeaveLabels, Leaving, Yielding, Stopping, NoSlots, NoWait,
         Queueing
    <3>3. to_queue[c] = prev[c]
      BY <2>3, <3>1, <3>2, Zenon DEF Pointers, Waiting
    <3> QED BY <2>2, <2>5, <3>1, <3>2, <3>3, Zenon DEF TCB
  <2>9. /\ (on[c] = Boot => sp[c] = SavedFrame("idle_loop", NULL))'
        /\ (on[c] \in Threads => sp[c] = SavedFrame("idle_ret", NULL))'
    BY <1>0, <1>t, <2>1, <2>2, ZenonT(40) DEF HeldFrames, Control, LeaveLabels, Leaving, TCB
  <2>10. (on[c] = c => sp[c] = SavedFrame("idle_ret", NULL))'
    <3>1. SUFFICES ASSUME on[c] = c PROVE sp'[c] = SavedFrame("idle_ret", NULL)
      BY <2>1, Zenon
    <3>2. pc[c] = "idle_sw" /\ prev[c] = c /\ this[c] = NULL
      BY <1>0, <1>t, <2>1, <3>1, Zenon DEF Control, LeaveLabels, Leaving, SemLabels, CriticalLabels
    <3> QED BY <2>2, <2>5, <3>2, Zenon DEF TCB
  <2> QED BY <2>4, <2>6, <2>7, <2>8, <2>9, <2>10, ZenonT(40) DEF HeldFrames
<1>24. CASE SwitchLoad(c)
  <2>1. /\ pc[c] = "load" /\ on'[c] = curr[c] /\ UNCHANGED <<tmp, percore, sp>> /\ tmp[c] = NULL
        /\ pc'[c] \in {"idle_loop", "idle_ret", "user", "down_ret"}
    BY <1>0, <1>24, LoadTarget, ZenonT(40) DEF SwitchLoad, TypeOK, Control
  <2>2. Hand(c)' = {} /\ Waiting(c)' = Waiting(c)
    BY <1>t, <2>1, Zenon DEF Hand, Waiting
  <2>3. on'[c] # Boot /\ (on'[c] \in Threads => sp[c] = SavedFrame("idle_ret", NULL))
    BY <1>0, <1>t, <1>24, <2>1, LoadTarget, ZenonT(40) DEF Leaving, HeldFrames
  <2>4. (to_reschedule[c] \in Threads => sp[to_reschedule[c]] = SavedFrame("user", NULL))'
    BY <1>0, <2>1, Zenon DEF HeldFrames
  <2>5. (Waiting(c) \in Threads => InDown(Waiting(c), to_add_to[c]))'
    BY <1>0, <2>1, <2>2, Zenon DEF HeldFrames, InDown
  <2> QED BY <2>1, <2>2, <2>3, <2>4, <2>5, ZenonT(40) DEF HeldFrames
<1>25. CASE GoMake(c)
  <2>1. PICK t \in Threads \ alive : /\ sp' = [sp EXCEPT ![t] = SavedFrame("user", NULL)]
                                     /\ tmp' = [tmp EXCEPT ![c] = t]
    BY <1>25, ZenonT(40) DEF GoMake
  <2>2. /\ pc[c] \in {"boot_go", "user"} /\ pc'[c] = "go_sched" /\ UNCHANGED <<on, percore>>
        /\ NoSlots(c)
    BY <1>0, <1>25, Zenon DEF GoMake, Call, TypeOK, Control, BootLabels, ThreadLabels
  <2>3. sp'[t] = SavedFrame("user", NULL) /\ sp'[c] = sp[c]
    BY <1>0, <1>t, <2>1, Zenon DEF TypeOK, TCB
  <2>4. \A u \in Hand(c)' : Resumable(u)'
    BY <1>0, <2>1, <2>3, Zenon DEF Hand, Resumable, TypeOK
  <2> QED BY <1>0, <1>t, <2>2, <2>3, <2>4, ZenonT(40) DEF HeldFrames, NoSlots, NoWait, Waiting
<1>26. CASE IdleNext(c)
  <2>1. /\ pc'[c] = "idle_sw" /\ UNCHANGED <<on, tmp, sp, to_reschedule, to_queue>> /\ ready # <<>>
        /\ curr'[c] = Head(ready) /\ tmp[c] = NULL /\ on[c] = c /\ NoSlots(c)
    BY <1>0, <1>26, Zenon DEF IdleNext, BeginSwitch, TypeOK, Control, IdleLabels, AtIdle
  <2>2. Resumable(Head(ready))
    BY <1>0, <2>1, RangeTail DEF QueuedIsSaved, TypeOK
  <2>3. (Resumable(curr[c]))'
    BY <2>1, <2>2, Zenon DEF Resumable, InDown
  <2>4. Hand(c)' = {} /\ Waiting(c)' = NULL
    BY <1>t, <2>1, Zenon DEF Hand, Waiting, NoSlots, NoWait
  <2> QED BY <1>t, <2>1, <2>3, <2>4, ZenonT(40) DEF HeldFrames, NoSlots
<1>27. CASE IdleDelete(c)
  <2>1. /\ pc[c] = "idle_ret" /\ pc'[c] = "idle_queue" /\ tmp[c] = NULL /\ on[c] = c
        /\ UNCHANGED <<on, tmp, to_reschedule, to_queue, to_add_to>>
        /\ Queueing(c) \/ Yielding(c) \/ Stopping(c)
    BY <1>0, <1>27, Zenon DEF IdleDelete, TypeOK, Control, IdleLabels, AtIdle
  <2>2. \A t \in TCB : t # to_delete[c] => sp'[t] = sp[t]
    BY <1>27, Zenon DEF IdleDelete
  <2>3. Hand(c)' = {} /\ Waiting(c)' = Waiting(c) /\ Waiting(c) = to_queue[c]
    BY <1>t, <2>1, Zenon DEF Hand, Waiting
  <2>4. (to_reschedule[c] \in Threads => sp[to_reschedule[c]] = SavedFrame("user", NULL))'
    BY <1>0, <1>t, <2>1, <2>2, Zenon DEF HeldFrames, Queueing, Yielding, Stopping, TCB
  <2>5. (Waiting(c) \in Threads => InDown(Waiting(c), to_add_to[c]))'
    BY <1>0, <1>t, <2>1, <2>2, <2>3, Zenon DEF HeldFrames, InDown, Queueing, Yielding, Stopping, NoWait, TCB
  <2> QED BY <1>t, <2>1, <2>3, <2>4, <2>5, Zenon DEF HeldFrames
<1>28. CASE UpPop(c)
  <2>1. /\ this[c] \in Sems /\ NoSlots(c) /\ on[c] \in Threads /\ tmp[c] = NULL
        /\ UNCHANGED <<on, sp, percore>>
    BY <1>0, <1>28, InSemaphore, Zenon DEF UpPop, SemLabels, CriticalLabels, Control
  <2>2. pc'[c] \in {"panic", "up_sched"}
    BY <1>0, <1>28, Zenon DEF UpPop, TypeOK
  <2>3. \A t \in Hand(c)' : Resumable(t)'
    <3>1. CASE q[this[c]] = <<>>
      <4>1. tmp' = tmp
        BY <1>28, <3>1, Zenon DEF UpPop
      <4> QED BY <1>t, <2>1, <4>1, Zenon DEF Hand
    <3>2. CASE q[this[c]] # <<>>
      <4>1. tmp'[c] = Head(q[this[c]])
        BY <1>0, <1>28, <3>2, ZenonT(40) DEF UpPop, TypeOK
      <4>2. InDown(Head(q[this[c]]), this[c])
        BY <1>0, <2>1, <3>2, RangeTail DEF QueuedIsSaved, TypeOK
      <4>3. sp'[tmp'[c]] = SavedFrame("down_ret", this[c])
        BY <2>1, <4>1, <4>2, Zenon DEF InDown
      <4> QED BY <2>1, <4>3, Zenon DEF Hand, Resumable, InDown
    <3> QED BY <3>1, <3>2, Zenon
  <2> QED BY <1>0, <1>t, <2>1, <2>2, <2>3, Zenon DEF HeldFrames, NoSlots, NoWait, Waiting
<1> QED BY <1>1, <1>2, <1>3, <1>4, <1>5, <1>6, <1>7, <1>8, <1>9, <1>10, <1>11, <1>12, <1>13,
           <1>14, <1>15, <1>16, <1>17, <1>18, <1>19, <1>20, <1>21, <1>22, <1>23, <1>24, <1>25,
           <1>26, <1>27, <1>28, Zenon
    DEF Step, Idle, Thread, Semaphore

(* Every step keeps the frames: what is queued, or held by a core to be    *)
(* queued or resumed, has a complete frame.                                *)
LEMMA FramesStep ==
  ASSUME Stable, NEW c \in Cores, Step(c)
  PROVE  FramesOK'
<1>0. TypeOK /\ OnePlace /\ QueuedIsSaved /\ TypeOK' /\ OnePlace'
  BY TypeStep, PlaceStep, Zenon DEF Stable, FramesOK
<1>a. /\ Range(ready) \subseteq alive /\ Mine(c) \cap Range(ready) = {}
      /\ \A s \in Sems : Range(q[s]) \subseteq alive /\ Mine(c) \cap Range(q[s]) = {}
  BY <1>0, Zenon DEF OnePlace
<1>b. alive \subseteq Threads /\ c \notin Threads
  BY <1>0, KernelAssumption, Zenon DEF TypeOK
<1>1. \A t \in Range(ready) : t \in alive /\ t \notin Mine(c) \cup {c}
  BY <1>a, <1>b, Zenon
<1>2. \A s \in Sems : \A t \in Range(q[s]) : t \in alive /\ t \notin Mine(c) \cup {c}
  BY <1>a, <1>b, Zenon
<1>3. \A t \in Range(ready') : Resumable(t)'
  <2> TAKE t \in Range(ready')
  <2>1. CASE t \in Range(ready)
    <3>1. sp'[t] = sp[t] /\ Resumable(t)
      BY <1>0, <1>1, <2>1, FrameUntouched, Zenon DEF QueuedIsSaved
    <3> QED BY <3>1, Zenon DEF Resumable, InDown
  <2>2. CASE t \notin Range(ready)
    BY <2>2, ReadyGains, Zenon DEF Resumable, InDown
  <2> QED BY <2>1, <2>2, Zenon
<1>4. \A s \in Sems : \A t \in Range(q'[s]) : InDown(t, s)'
  <2> TAKE s \in Sems
  <2> TAKE t \in Range(q'[s])
  <2>1. CASE t \in Range(q[s])
    <3>1. sp'[t] = sp[t] /\ InDown(t, s)
      BY <1>0, <1>2, <2>1, FrameUntouched, Zenon DEF QueuedIsSaved
    <3> QED BY <3>1, Zenon DEF InDown
  <2>2. CASE t \notin Range(q[s])
    BY <2>2, QueueGains, Zenon DEF InDown
  <2> QED BY <2>1, <2>2, Zenon
<1>5. (\A d \in Cores : on[d] \notin Range(ready) \cup UNION {Range(q[s]) : s \in Sems})'
  <2> SUFFICES ASSUME NEW d \in Cores
               PROVE  on'[d] \notin Range(ready') /\ \A s \in Sems : on'[d] \notin Range(q'[s])
    BY ZenonT(40)
  <2>1. CASE on'[d] \in Threads
    BY <1>0, <2>1, ZenonT(40) DEF OnePlace, Mine, Pointers
  <2>2. CASE on'[d] \notin Threads
    BY <1>0, <2>2, Zenon DEF OnePlace, TypeOK
  <2> QED BY <2>1, <2>2, Zenon
<1>6. \A d \in Cores : HeldFrames(d)'
  BY OwnHeldFrames, OtherHeldFrames, Zenon
<1>7. QueuedIsSaved'
  BY <1>3, <1>4, <1>5, Zenon DEF QueuedIsSaved
<1> QED BY <1>6, <1>7, Zenon DEF FramesOK

-----------------------------------------------------------------------------
(* The semaphores' spinlocks.                                              *)

(* At boot every spinlock is free. *)
LEMMA LockInit == Init => LockExclusive
BY KernelAssumption DEF Init, LockExclusive, Holds, CriticalLabels

(* Core c neither takes nor releases a lock. *)
LEMMA HoldsKept ==
  ASSUME LockExclusive, lock_' = lock_, \A d \in Cores, s \in Sems : Holds(d, s)' <=> Holds(d, s)
  PROVE  LockExclusive'
BY Zenon DEF LockExclusive

(* Core c takes the lock of r. *)
LEMMA HoldsTaken ==
  ASSUME TypeOK, LockExclusive, NEW c \in Cores, NEW r \in Sems, ~lock_[r],
         lock_' = [lock_ EXCEPT ![r] = TRUE],
         \A s \in Sems : Holds(c, s)' <=> s = r \/ Holds(c, s),
         \A d \in Cores \ {c}, s \in Sems : Holds(d, s)' <=> Holds(d, s)
  PROVE  LockExclusive'
<1>1. \A d \in Cores : ~Holds(d, r)
  BY Zenon DEF LockExclusive
<1>2. lock_'[r] = TRUE /\ \A s \in Sems \ {r} : lock_'[s] = lock_[s]
  BY Zenon DEF TypeOK
<1>3. ASSUME NEW s \in Sems, s # r
      PROVE  /\ lock_'[s] <=> \E d \in Cores : Holds(d, s)'
             /\ \A d, e \in Cores : Holds(d, s)' /\ Holds(e, s)' => d = e
  <2>1. \A d \in Cores : Holds(d, s)' <=> Holds(d, s)
    BY <1>3, Zenon
  <2> QED BY <1>2, <1>3, <2>1, Zenon DEF LockExclusive
<1>4. \A d \in Cores : Holds(d, r)' <=> d = c
  BY <1>1, Zenon
<1> QED BY <1>2, <1>3, <1>4 DEF LockExclusive

(* Core c releases the lock of r. *)
LEMMA HoldsReleased ==
  ASSUME TypeOK, LockExclusive, NEW c \in Cores, NEW r \in Sems, Holds(c, r),
         lock_' = [lock_ EXCEPT ![r] = FALSE],
         \A s \in Sems : Holds(c, s)' <=> s # r /\ Holds(c, s),
         \A d \in Cores \ {c}, s \in Sems : Holds(d, s)' <=> Holds(d, s)
  PROVE  LockExclusive'
<1>1. \A d \in Cores \ {c} : ~Holds(d, r)
  BY Zenon DEF LockExclusive
<1>2. lock_'[r] = FALSE /\ \A s \in Sems \ {r} : lock_'[s] = lock_[s]
  BY Zenon DEF TypeOK
<1>3. ASSUME NEW s \in Sems, s # r
      PROVE  /\ lock_'[s] <=> \E d \in Cores : Holds(d, s)'
             /\ \A d, e \in Cores : Holds(d, s)' /\ Holds(e, s)' => d = e
  <2>1. \A d \in Cores : Holds(d, s)' <=> Holds(d, s)
    BY <1>3, Zenon
  <2> QED BY <1>2, <1>3, <2>1, Zenon DEF LockExclusive
<1>4. \A d \in Cores : ~Holds(d, r)'
  BY <1>1, Zenon
<1> QED BY <1>2, <1>3, <1>4 DEF LockExclusive

(* Every step keeps each spinlock with at most one core. *)
LEMMA LockStep ==
  ASSUME Stable, LockExclusive, NEW c \in Cores, Step(c)
  PROVE  LockExclusive'
<1>0. TypeOK /\ Control(c) /\ HeldFrames(c)
  BY Zenon DEF Stable, ControlOK, FramesOK
<1>t. NULL \notin Sems
  BY KernelAssumption, Zenon
<1>d. \A d \in Cores \ {c}, s \in Sems : Holds(d, s)' <=> Holds(d, s)
  BY <1>0, OthersSame DEF Same, Holds
<1>k. ASSUME lock_' = lock_, \A s \in Sems : Holds(c, s)' <=> Holds(c, s)
      PROVE  LockExclusive'
  <2>1. \A d \in Cores, s \in Sems : Holds(d, s)' <=> Holds(d, s)
    BY <1>d, <1>k, Zenon
  <2> QED BY <1>k, <2>1, HoldsKept, Zenon
<1> USE DEF Goto, percore, sems
<1>1. CASE SwitchSave(c)
  <2>1. \A s \in Sems : Holds(c, s)' <=> Holds(c, s)
    BY <1>0, <1>t, <1>1, Zenon DEF SwitchSave, TypeOK, Holds, CriticalLabels
  <2> QED BY <1>k, <1>1, <2>1, Zenon DEF SwitchSave
<1>2. CASE GoMake(c)
  <2>1. \A s \in Sems : Holds(c, s)' <=> Holds(c, s)
    BY <1>0, <1>t, <1>2, Zenon DEF GoMake, Call, TypeOK, Holds, CriticalLabels
  <2> QED BY <1>k, <1>2, <2>1, Zenon DEF GoMake
<1>3. CASE GoSchedule(c)
  <2>1. \A s \in Sems : Holds(c, s)' <=> Holds(c, s)
    BY <1>0, <1>t, <1>3, Zenon DEF GoSchedule, TypeOK, Holds, CriticalLabels
  <2> QED BY <1>k, <1>3, <2>1, Zenon DEF GoSchedule
<1>4. CASE Yield(c)
  <2>1. \A s \in Sems : Holds(c, s)' <=> Holds(c, s)
    BY <1>0, <1>t, <1>4, Zenon DEF Yield, Call, BeginSwitch, TypeOK, Holds, CriticalLabels
  <2> QED BY <1>k, <1>4, <2>1, Zenon DEF Yield
<1>5. CASE Stop(c)
  <2>1. \A s \in Sems : Holds(c, s)' <=> Holds(c, s)
    BY <1>0, <1>t, <1>5, Zenon DEF Stop, BeginSwitch, TypeOK, Holds, CriticalLabels
  <2> QED BY <1>k, <1>5, <2>1, Zenon DEF Stop
<1>6. CASE IdleEnter(c)
  <2>1. \A s \in Sems : Holds(c, s)' <=> Holds(c, s)
    BY <1>0, <1>t, <1>6, Zenon DEF IdleEnter, TypeOK, Holds, CriticalLabels
  <2> QED BY <1>k, <1>6, <2>1, Zenon DEF IdleEnter
<1>7. CASE IdleNext(c)
  <2>1. \A s \in Sems : Holds(c, s)' <=> Holds(c, s)
    BY <1>0, <1>t, <1>7, Zenon DEF IdleNext, BeginSwitch, TypeOK, Holds, CriticalLabels
  <2> QED BY <1>k, <1>7, <2>1, Zenon DEF IdleNext
<1>8. CASE IdlePoll(c)
  <2>1. \A s \in Sems : Holds(c, s)' <=> Holds(c, s)
    BY <1>0, <1>t, <1>8, Zenon DEF IdlePoll, vars, regs, TypeOK, Holds, CriticalLabels
  <2> QED BY <1>k, <1>8, <2>1, Zenon DEF IdlePoll, vars
<1>9. CASE IdleDelete(c)
  <2>1. \A s \in Sems : Holds(c, s)' <=> Holds(c, s)
    BY <1>0, <1>t, <1>9, Zenon DEF IdleDelete, TypeOK, Holds, CriticalLabels
  <2> QED BY <1>k, <1>9, <2>1, Zenon DEF IdleDelete
<1>10. CASE IdleNoQueue(c)
  <2>1. \A s \in Sems : Holds(c, s)' <=> Holds(c, s)
    BY <1>0, <1>t, <1>10, Zenon DEF IdleNoQueue, TypeOK, Holds, CriticalLabels
  <2> QED BY <1>k, <1>10, <2>1, Zenon DEF IdleNoQueue
<1>11. CASE IdleReschedule(c)
  <2>1. \A s \in Sems : Holds(c, s)' <=> Holds(c, s)
    BY <1>0, <1>t, <1>11, Zenon DEF IdleReschedule, TypeOK, Holds, CriticalLabels
  <2> QED BY <1>k, <1>11, <2>1, Zenon DEF IdleReschedule
<1>12. CASE SemDown(c)
  <2>1. \A s \in Sems : Holds(c, s)' <=> Holds(c, s)
    BY <1>0, <1>t, <1>12, Zenon DEF SemDown, Call, TypeOK, Holds, CriticalLabels
  <2> QED BY <1>k, <1>12, <2>1, Zenon DEF SemDown
<1>13. CASE SemUp(c)
  <2>1. \A s \in Sems : Holds(c, s)' <=> Holds(c, s)
    BY <1>0, <1>t, <1>13, Zenon DEF SemUp, Call, TypeOK, Holds, CriticalLabels
  <2> QED BY <1>k, <1>13, <2>1, Zenon DEF SemUp
<1>14. CASE MutexLock(c)
  <2>1. \A s \in Sems : Holds(c, s)' <=> Holds(c, s)
    BY <1>0, <1>t, <1>14, Zenon DEF MutexLock, Call, TypeOK, Holds, CriticalLabels
  <2> QED BY <1>k, <1>14, <2>1, Zenon DEF MutexLock
<1>15. CASE MutexUnlock(c)
  <2>1. \A s \in Sems : Holds(c, s)' <=> Holds(c, s)
    BY <1>0, <1>t, <1>15, Zenon DEF MutexUnlock, TypeOK, Holds, CriticalLabels
  <2> QED BY <1>k, <1>15, <2>1, ZenonT(40) DEF MutexUnlock
<1>16. CASE DownPass(c)
  <2>1. \A s \in Sems : Holds(c, s)' <=> Holds(c, s)
    BY <1>0, <1>t, <1>16, Zenon DEF DownPass, TypeOK, Holds, CriticalLabels
  <2> QED BY <1>k, <1>16, <2>1, Zenon DEF DownPass
<1>17. CASE DownReturn(c)
  <2>1. \A s \in Sems : Holds(c, s)' <=> Holds(c, s)
    BY <1>0, <1>t, <1>17, Zenon DEF DownReturn, ReturnToUser, TypeOK, Holds, CriticalLabels
  <2> QED BY <1>k, <1>17, <2>1, Zenon DEF DownReturn
<1>18. CASE UpSchedule(c)
  <2>1. \A s \in Sems : Holds(c, s)' <=> Holds(c, s)
    BY <1>0, <1>t, <1>18, Zenon DEF UpSchedule, TypeOK, Holds, CriticalLabels
  <2> QED BY <1>k, <1>18, <2>1, Zenon DEF UpSchedule
<1>19. CASE SwitchLoad(c)
  <2>1. \A s \in Sems : Holds(c, s)' <=> Holds(c, s)
    BY <1>0, <1>19, LoadTarget, ZenonT(40) DEF SwitchLoad, Holds, CriticalLabels
  <2> QED BY <1>k, <1>19, <2>1, Zenon DEF SwitchLoad
<1>20. CASE IdleEnqueue(c)
  <2>1. \A s \in Sems : Holds(c, s)' <=> Holds(c, s)
    BY <1>0, <1>20, EnqueueEffect, ZenonT(40) DEF IdleEnqueue, TypeOK, Holds, CriticalLabels
  <2> QED BY <1>k, <1>20, <2>1, Zenon DEF IdleEnqueue
<1>21. CASE DownBlock(c)
  <2>1. this[c] \in Sems /\ NoSlots(c)
    BY <1>0, <1>21, InSemaphore, Zenon DEF DownBlock, SemLabels, CriticalLabels
  <2>2. \A s \in Sems : Holds(c, s)' <=> Holds(c, s)
    BY <1>0, <1>t, <1>21, <2>1, Zenon DEF DownBlock, BeginSwitch, TypeOK, Holds, CriticalLabels, NoSlots, NoWait
  <2> QED BY <1>k, <1>21, <2>2, Zenon DEF DownBlock
<1>22. CASE UpInc(c)
  <2>1. pc'[c] \in CriticalLabels
    BY <1>0, <1>22, Zenon DEF UpInc, TypeOK, CriticalLabels
  <2>2. \A s \in Sems : Holds(c, s)' <=> Holds(c, s)
    BY <1>22, <2>1, Zenon DEF UpInc, Holds, CriticalLabels
  <2> QED BY <1>k, <1>22, <2>2, Zenon DEF UpInc
<1>23. CASE UpPop(c)
  <2>1. pc'[c] \in CriticalLabels \cup {"panic"}
    BY <1>0, <1>23, Zenon DEF UpPop, TypeOK, CriticalLabels
  <2>2. \A s \in Sems : Holds(c, s)' <=> Holds(c, s)
    BY <1>23, <2>1, Zenon DEF UpPop, Holds, CriticalLabels
  <2> QED BY <1>k, <1>23, <2>2, Zenon DEF UpPop
<1>24. ASSUME pc[c] \in {"down_lock", "up_lock"}, Acquire(c, pc[c], IF pc[c] = "down_lock" THEN "down_dec" ELSE "up_inc")
       PROVE  LockExclusive'
  <2>1. this[c] \in Sems /\ NoSlots(c)
    BY <1>0, <1>24, InSemaphore, Zenon DEF SemLabels
  <2>2. ~lock_[this[c]] /\ lock_' = [lock_ EXCEPT ![this[c]] = TRUE] /\ this'[c] = this[c]
        /\ to_unlock'[c] = to_unlock[c] /\ pc'[c] \in {"down_dec", "up_inc"}
    BY <1>0, <1>24, Zenon DEF Acquire, TypeOK
  <2>3. \A s \in Sems : Holds(c, s)' <=> s = this[c] \/ Holds(c, s)
    BY <1>t, <1>24, <2>1, <2>2, Zenon DEF Holds, CriticalLabels, NoSlots, NoWait
  <2> QED BY <1>0, <1>d, <2>1, <2>2, <2>3, HoldsTaken, Zenon
<1>25. CASE DownLock(c)
  <2>1. pc[c] = "down_lock"
    BY <1>25, Zenon DEF DownLock, Acquire
  <2> QED BY <1>24, <1>25, <2>1, Zenon DEF DownLock
<1>26. CASE UpLock(c)
  <2>1. pc[c] = "up_lock"
    BY <1>26, Zenon DEF UpLock, Acquire
  <2> QED BY <1>24, <1>26, <2>1, Zenon DEF UpLock
<1>27. ASSUME pc[c] \in {"down_unlock", "up_unlock"}, lock_' = [lock_ EXCEPT ![this[c]] = FALSE],
              pc'[c] = "user", to_unlock' = to_unlock
       PROVE  LockExclusive'
  <2>1. this[c] \in Sems /\ NoSlots(c)
    BY <1>0, <1>27, InSemaphore, Zenon DEF SemLabels, CriticalLabels
  <2>2. Holds(c, this[c]) /\ \A s \in Sems : Holds(c, s)' <=> s # this[c] /\ Holds(c, s)
    BY <1>t, <1>27, <2>1, Zenon DEF Holds, CriticalLabels, NoSlots, NoWait
  <2> QED BY <1>0, <1>d, <1>27, <2>1, <2>2, HoldsReleased, Zenon
<1>28. CASE DownUnlock(c)
  BY <1>0, <1>27, <1>28, Zenon DEF DownUnlock, ReturnToUser, TypeOK
<1>29. CASE UpUnlock(c)
  BY <1>0, <1>27, <1>29, Zenon DEF UpUnlock, ReturnToUser, TypeOK
<1>30. CASE IdleUnlock(c)
  <2> DEFINE r == to_unlock[c]
  <2>1. r \in Sems /\ pc[c] = "idle_unlock"
    BY <1>0, <1>30, Zenon DEF IdleUnlock, Control, Queueing
  <2>2. lock_' = [lock_ EXCEPT ![r] = FALSE] /\ to_unlock'[c] = NULL /\ pc'[c] = "idle_resched"
    BY <1>0, <1>30, Zenon DEF IdleUnlock, TypeOK
  <2>3. Holds(c, r) /\ \A s \in Sems : Holds(c, s)' <=> s # r /\ Holds(c, s)
    BY <1>t, <2>1, <2>2, Zenon DEF Holds, CriticalLabels
  <2> HIDE DEF r
  <2> QED BY <1>0, <1>d, <2>1, <2>2, <2>3, HoldsReleased, Zenon
<1> QED BY <1>1, <1>2, <1>3, <1>4, <1>5, <1>6, <1>7, <1>8, <1>9, <1>10, <1>11, <1>12, <1>13, <1>14, <1>15, <1>16, <1>17, <1>18, <1>19, <1>20, <1>21, <1>22, <1>23, <1>25, <1>26, <1>28, <1>29, <1>30, ZenonT(40)
    DEF Step, Idle, Thread, Semaphore

(* Every step keeps the whole invariant. *)
LEMMA IInvStep ==
  ASSUME IInv, NEW c \in Cores, Step(c)
  PROVE  IInv'
<1>1. Stable /\ LockExclusive
  BY Zenon DEF IInv, Stable
<1> QED BY <1>1, TypeStep, ControlStep, PlaceStep, FramesStep, LockStep, Zenon DEF IInv

(* It also survives a step in which nothing changes.                       *)
LEMMA IInvStutter ==
  ASSUME IInv, UNCHANGED vars
  PROVE  IInv'
<1> USE DEF vars, regs, percore, tcbs, sems, client
<1>1. TypeOK'
  BY Zenon DEF IInv, TypeOK
<1>2. ControlOK'
  BY ControlSame, Zenon DEF IInv, ControlOK, Same
<1>3. OnePlace'
  BY SamePlaces, Unmoved, Zenon DEF IInv, PlacesKept, Same
<1>4. QueuedIsSaved'
  BY Zenon DEF IInv, FramesOK, QueuedIsSaved, Resumable, InDown
<1>5. \A c \in Cores : HeldFrames(c)'
  BY Zenon DEF IInv, FramesOK, HeldFrames, Hand, Waiting, Resumable, InDown
<1>6. LockExclusive'
  BY ZenonT(40) DEF IInv, LockExclusive, Holds
<1> QED BY <1>1, <1>2, <1>3, <1>4, <1>5, <1>6, Zenon DEF IInv, FramesOK

-----------------------------------------------------------------------------
(* The theorems.                                                           *)

(* IInv is inductive: it holds at boot and every step of every core keeps  *)
(* it.                                                                     *)
THEOREM Invariance == Spec => []IInv
<1>1. Init => IInv
  BY TypeInit, ControlInit, PlaceInit, FramesInit, LockInit, Zenon DEF IInv
<1>2. IInv /\ [Next]_vars => IInv'
  <2> SUFFICES ASSUME IInv, [Next]_vars PROVE IInv'
    OBVIOUS
  <2>1. ASSUME NEW c \in Cores, Step(c) PROVE IInv'
    BY <2>1, IInvStep, Zenon
  <2>2. CASE UNCHANGED vars
    BY <2>2, IInvStutter, Zenon
  <2> QED BY <2>1, <2>2, Zenon DEF Next
<1> QED BY <1>1, <1>2, PTL DEF Spec

(* Every variable keeps its type; in particular only threads, never the    *)
(* idle TCBs, are ever on a queue.                                         *)
THEOREM TypeCorrect == Spec => []TypeOK
BY Invariance, PTL DEF IInv

(* A thread is never in two places, so its TCB is never freed, queued or   *)
(* run while something else still refers to it.                            *)
THEOREM ThreadsInOnePlace == Spec => []OnePlace
BY Invariance, PTL DEF IInv

(* Whatever the cores do, no two of them ever run on one thread's stack.   *)
THEOREM StacksExclusive == Spec => []OneStack
<1>1. IInv => OneStack
  BY Zenon DEF IInv, OnePlace, OneStack, Mine, Pointers
<1> QED BY <1>1, Invariance, PTL

(* The thread at the head of a queue can always be switched to: its frame  *)
(* was saved in full before anyone could dequeue it.                       *)
THEOREM QueuedThreadsSaved == Spec => []QueuedIsSaved
<1>1. IInv => QueuedIsSaved
  BY Zenon DEF IInv, FramesOK
<1> QED BY <1>1, Invariance, PTL

(* A semaphore's spinlock never has two holders, though down() takes it    *)
(* on one stack and idle_loop() releases it on another.                    *)
THEOREM LocksExclusive == Spec => []LockExclusive
BY Invariance, PTL DEF IInv

(* A thread that go() created is never lost before it stops.               *)
THEOREM NoneLost == Spec => []NoThreadLost
<1>1. Init => NoThreadLost
  BY Zenon DEF Init, NoThreadLost
<1>2. IInv /\ NoThreadLost /\ [Next]_vars => NoThreadLost'
  <2> SUFFICES ASSUME IInv, NoThreadLost, [Next]_vars PROVE NoThreadLost'
    OBVIOUS
  <2>1. ASSUME NEW c \in Cores, Step(c) PROVE NoThreadLost'
    BY <2>1, LostStep, Zenon DEF IInv, Stable
  <2>2. CASE UNCHANGED vars
    BY <2>2, SamePlaces, Unmoved, Zenon DEF IInv, PlacesKept, Same, vars, regs, percore, tcbs, sems
  <2> QED BY <2>1, <2>2, Zenon DEF Next
<1> QED BY <1>1, <1>2, Invariance, PTL DEF Spec
=============================================================================
