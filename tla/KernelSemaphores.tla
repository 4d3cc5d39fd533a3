-------------------------- MODULE KernelSemaphores --------------------------
(***************************************************************************)
(* The semaphores and the mutexes, proved on top of the inductive          *)
(* invariant of KernelProofs: counter counts the blocked threads, so no    *)
(* assertion fails; the kernel implements SemaphoreSpec; and a mutex has   *)
(* one owner.                                                              *)
(***************************************************************************)
EXTENDS KernelProofs

-----------------------------------------------------------------------------
(* Counting: counter says how many threads are blocked, so up() finds one. *)

(* One thread more is blocked than q holds while it is on its way there,   *)
(* and one less once up() has decided to wake one.                         *)
Coming(s) == IF \E c \in Cores : Blocking(c, s) THEN 1 ELSE 0
Going(s) == IF \E c \in Cores : Popping(c, s) THEN 1 ELSE 0
Deficit(s) == IF counter[s] < 0 THEN -counter[s] ELSE 0

Counted(s) == Len(q[s]) + Coming(s) - Going(s) = Deficit(s)

CountInv == NoPanic /\ \A s \in Sems : Counted(s)

(* At boot nobody is blocked, and no counter is negative. *)
LEMMA CountInit == Init => CountInv
<1> SUFFICES ASSUME Init PROVE CountInv
  OBVIOUS
<1>1. NoPanic
  BY Zenon DEF Init, NoPanic
<1>2. ASSUME NEW s \in Sems PROVE Counted(s)
  <2>1. Coming(s) = 0 /\ Going(s) = 0
    BY KernelAssumption, Zenon DEF Init, Coming, Going, Blocking, Popping
  <2>2. Deficit(s) = 0 /\ Len(q[s]) = 0
    BY KernelAssumption DEF Init, Deficit
  <2> QED BY <2>1, <2>2 DEF Counted
<1> QED BY <1>1, <1>2, Zenon DEF CountInv

(* A core that blocks a thread has the semaphore's lock. *)
LEMMA BlockingHolds ==
  ASSUME IInv, NoPanic, NEW d \in Cores, NEW s \in Sems, Blocking(d, s)
  PROVE  Queueing(d) /\ Holds(d, s) /\ pc[d] # "up_pop"
<1>1. Control(d) /\ pc[d] \in Labels /\ pc[d] \notin {"panic", "unreachable", "freed"}
  BY Zenon DEF IInv, ControlOK, TypeOK, NoPanic
<1>2. to_queue[d] # NULL /\ to_add_to[d] = s
  BY Zenon DEF Blocking, Waiting
<1>3. Queueing(d) /\ pc[d] # "up_pop"
  BY <1>1, <1>2, Zenon DEF Control, Labels, ThreadLabels, SemLabels, CriticalLabels, Leaving, NoSlots, NoWait,
     Yielding, Stopping, LeaveLabels, IdleLabels, BootLabels
<1> QED BY <1>2, <1>3, Zenon DEF Queueing, Holds

(* So while a core has it, no other core blocks or wakes a thread there. *)
LEMMA Alone ==
  ASSUME IInv, NoPanic, NEW c \in Cores, NEW s \in Sems, Holds(c, s), NEW d \in Cores \ {c}
  PROVE  ~Blocking(d, s) /\ ~Popping(d, s)
<1>1. ~Holds(d, s)
  BY Zenon DEF IInv, LockExclusive
<1>2. Popping(d, s) => Holds(d, s)
  BY Zenon DEF Popping, Holds, CriticalLabels
<1> QED BY <1>1, <1>2, BlockingHolds, Zenon

(* A step leaves what it does not touch counted as it was. *)
LEMMA CountSame ==
  ASSUME NEW s \in Sems, Counted(s), counter'[s] = counter[s], q'[s] = q[s],
         \A d \in Cores : (Blocking(d, s)' <=> Blocking(d, s)) /\ (Popping(d, s)' <=> Popping(d, s))
  PROVE  Counted(s)'
<1>1. Coming(s)' = Coming(s) /\ Going(s)' = Going(s)
  BY Zenon DEF Coming, Going
<1>2. Deficit(s)' = Deficit(s)
  BY Zenon DEF Deficit
<1> QED BY <1>1, <1>2, Zenon DEF Counted

(* How the steps of the lock's holder change the count. *)
LEMMA CountHolder ==
  ASSUME NEW c \in Cores, NEW s \in Sems,
         \A d \in Cores \ {c} : ~Blocking(d, s) /\ ~Popping(d, s) /\ ~Blocking(d, s)' /\ ~Popping(d, s)'
  PROVE  /\ Coming(s) = (IF Blocking(c, s) THEN 1 ELSE 0) /\ Going(s) = (IF Popping(c, s) THEN 1 ELSE 0)
         /\ Coming(s)' = (IF Blocking(c, s)' THEN 1 ELSE 0) /\ Going(s)' = (IF Popping(c, s)' THEN 1 ELSE 0)
<1>1. /\ (\E d \in Cores : Blocking(d, s)) <=> Blocking(c, s)
      /\ (\E d \in Cores : Popping(d, s)) <=> Popping(c, s)
      /\ (\E d \in Cores : Blocking(d, s)') <=> Blocking(c, s)'
      /\ (\E d \in Cores : Popping(d, s)') <=> Popping(c, s)'
  BY Zenon
<1> QED BY <1>1, Zenon DEF Coming, Going

(* The labels the count depends on, and the steps that pass none of them   *)
(* and change nothing that is counted.                                     *)
Marked == {"idle_unlock", "up_pop", "panic", "unreachable", "freed"}

Quiet(c) ==
  /\ counter' = counter /\ q' = q /\ to_queue' = to_queue /\ to_add_to' = to_add_to
  /\ pc[c] \notin Marked /\ pc'[c] \notin Marked

(* Most steps are quiet. *)
LEMMA QuietSteps ==
  ASSUME TypeOK, NEW c \in Cores, Control(c), HeldFrames(c), Step(c)
  PROVE  \/ Quiet(c)
         \/ DownBlock(c) \/ DownPass(c) \/ UpInc(c) \/ UpPop(c) \/ IdleEnqueue(c) \/ IdleUnlock(c)
<1> USE DEF TypeOK, Quiet, Marked, Goto, percore, sems, regs
<1>1. CASE SwitchSave(c)
  BY <1>1, Zenon DEF SwitchSave
<1>2. CASE SwitchLoad(c)
  BY <1>2, LoadTarget, Zenon DEF SwitchLoad
<1>3. CASE GoMake(c)
  BY <1>3, Zenon DEF GoMake, Call
<1>4. CASE GoSchedule(c)
  BY <1>4, Zenon DEF GoSchedule
<1>5. CASE Yield(c)
  BY <1>5, Zenon DEF Yield, Call, BeginSwitch
<1>6. CASE Stop(c)
  BY <1>6, Zenon DEF Stop, BeginSwitch
<1>7. CASE IdleEnter(c)
  BY <1>7, Zenon DEF IdleEnter
<1>8. CASE IdleNext(c)
  BY <1>8, Zenon DEF IdleNext, BeginSwitch
<1>9. CASE IdlePoll(c)
  BY <1>9, Zenon DEF IdlePoll, vars
<1>10. CASE IdleDelete(c)
  BY <1>10, Zenon DEF IdleDelete
<1>11. CASE IdleNoQueue(c)
  BY <1>11, Zenon DEF IdleNoQueue
<1>12. CASE IdleReschedule(c)
  BY <1>12, Zenon DEF IdleReschedule
<1>13. CASE SemDown(c)
  BY <1>13, Zenon DEF SemDown, Call
<1>14. CASE SemUp(c)
  BY <1>14, Zenon DEF SemUp, Call
<1>15. CASE MutexLock(c)
  BY <1>15, Zenon DEF MutexLock, Call
<1>16. CASE MutexUnlock(c)
  BY <1>16, Zenon DEF MutexUnlock
<1>17. CASE DownLock(c)
  BY <1>17, Zenon DEF DownLock, Acquire
<1>18. CASE DownUnlock(c)
  BY <1>18, Zenon DEF DownUnlock, ReturnToUser
<1>19. CASE DownReturn(c)
  BY <1>19, Zenon DEF DownReturn, ReturnToUser
<1>20. CASE UpLock(c)
  BY <1>20, Zenon DEF UpLock, Acquire
<1>21. CASE UpSchedule(c)
  BY <1>21, Zenon DEF UpSchedule
<1>22. CASE UpUnlock(c)
  BY <1>22, Zenon DEF UpUnlock, ReturnToUser
<1> QED BY <1>1, <1>2, <1>3, <1>4, <1>5, <1>6, <1>7, <1>8, <1>9, <1>10, <1>11, <1>12, <1>13, <1>14, <1>15,
           <1>16, <1>17, <1>18, <1>19, <1>20, <1>21, <1>22, Zenon DEF Step, Idle, Thread, Semaphore

(* At these labels the core is in a semaphore whose lock it has. *)
LEMMA InCritical ==
  ASSUME IInv, NEW c \in Cores, pc[c] \in {"down_dec", "up_inc", "up_pop"}
  PROVE  /\ this[c] \in Sems /\ Holds(c, this[c]) /\ curr[c] = on[c] /\ on[c] \in Threads
         /\ \A s \in Sems : ~Blocking(c, s)
<1>0. TypeOK /\ Control(c)
  BY Zenon DEF IInv, ControlOK
<1>1. this[c] \in Sems /\ NoSlots(c) /\ curr[c] = on[c] /\ on[c] \in Threads
  BY <1>0, InSemaphore, Zenon DEF SemLabels, CriticalLabels
<1>2. Holds(c, this[c])
  BY Zenon DEF Holds, CriticalLabels
<1> QED BY <1>1, <1>2, KernelAssumption, Zenon DEF NoSlots, NoWait, Blocking

(* What the steps that are not quiet do: core c, which has the lock of r,  *)
(* changes r's counter and queue, whom it is blocking and whom it is waking*)
(* there, and nothing of another semaphore's.                              *)
AtOnly(c, r) ==
  /\ Holds(c, r)
  /\ pc'[c] \notin {"panic", "unreachable", "freed"}
  /\ \A s \in Sems \ {r} : /\ counter'[s] = counter[s] /\ q'[s] = q[s]
                           /\ ~Blocking(c, s) /\ ~Blocking(c, s)'
                           /\ ~Popping(c, s) /\ ~Popping(c, s)'

(* --counter < 0. *)
LEMMA DownBlockEffect ==
  ASSUME IInv, NEW c \in Cores, DownBlock(c), NEW r \in Sems, r = this[c]
  PROVE  /\ AtOnly(c, r)
         /\ counter[r] < 1 /\ counter'[r] = counter[r] - 1 /\ q' = q
         /\ ~Blocking(c, r) /\ Blocking(c, r)' /\ ~Popping(c, r) /\ ~Popping(c, r)'
         /\ to_queue'[c] = on[c] /\ on[c] \in Threads
<1>0. TypeOK
  BY Zenon DEF IInv
<1>1. pc[c] = "down_dec" /\ pc'[c] = "down_sw" /\ counter[r] < 1 /\ q' = q
  BY <1>0 DEF DownBlock, MustBlock, BeginSwitch, Goto, TypeOK
<1>2. Holds(c, r) /\ curr[c] = on[c] /\ on[c] \in Threads /\ \A s \in Sems : ~Blocking(c, s)
  BY <1>1, InCritical, Zenon
<1>3. counter'[r] = counter[r] - 1 /\ \A s \in Sems \ {r} : counter'[s] = counter[s]
  BY <1>0, Zenon DEF DownBlock, TypeOK
<1>4. to_queue'[c] = curr[c] /\ to_add_to'[c] = r
  BY <1>0, Zenon DEF DownBlock, TypeOK
<1>5. \A s \in Sems : (Blocking(c, s)' <=> s = r) /\ ~Popping(c, s) /\ ~Popping(c, s)'
  BY <1>1, <1>2, <1>4, KernelAssumption, Zenon DEF Blocking, Popping, Waiting
<1> QED BY <1>1, <1>2, <1>3, <1>4, <1>5, Zenon DEF AtOnly

(* --counter >= 0. *)
LEMMA DownPassEffect ==
  ASSUME IInv, NEW c \in Cores, DownPass(c), NEW r \in Sems, r = this[c]
  PROVE  /\ AtOnly(c, r)
         /\ counter[r] >= 1 /\ counter'[r] = counter[r] - 1 /\ q' = q
         /\ ~Blocking(c, r) /\ ~Blocking(c, r)' /\ ~Popping(c, r) /\ ~Popping(c, r)'
<1>0. TypeOK
  BY Zenon DEF IInv
<1>1. pc[c] = "down_dec" /\ pc'[c] = "down_unlock" /\ q' = q /\ to_queue' = to_queue /\ to_add_to' = to_add_to
  BY <1>0, Zenon DEF DownPass, Goto, TypeOK, percore
<1>2. Holds(c, r) /\ \A s \in Sems : ~Blocking(c, s)
  BY <1>1, InCritical, Zenon
<1>3. counter'[r] = counter[r] - 1 /\ counter[r] >= 1 /\ \A s \in Sems \ {r} : counter'[s] = counter[s]
  BY <1>0 DEF DownPass, MustBlock, TypeOK
<1>4. \A s \in Sems : ~Blocking(c, s)' /\ ~Popping(c, s) /\ ~Popping(c, s)'
  BY <1>1, <1>2, Zenon DEF Blocking, Popping, Waiting
<1> QED BY <1>1, <1>2, <1>3, <1>4, Zenon DEF AtOnly

(* counter++. *)
LEMMA UpIncEffect ==
  ASSUME IInv, NEW c \in Cores, UpInc(c), NEW r \in Sems, r = this[c]
  PROVE  /\ AtOnly(c, r)
         /\ counter'[r] = counter[r] + 1 /\ q' = q
         /\ ~Blocking(c, r) /\ ~Blocking(c, r)' /\ ~Popping(c, r)
         /\ Popping(c, r)' <=> counter[r] < 0
<1>0. TypeOK
  BY Zenon DEF IInv
<1>1. /\ pc[c] = "up_inc" /\ pc'[c] = IF counter[r] < 0 THEN "up_pop" ELSE "up_unlock"
      /\ q' = q /\ to_queue' = to_queue /\ to_add_to' = to_add_to /\ this' = this
  BY <1>0, Zenon DEF UpInc, Goto, TypeOK, percore
<1>2. Holds(c, r) /\ \A s \in Sems : ~Blocking(c, s)
  BY <1>1, InCritical, Zenon
<1>3. counter'[r] = counter[r] + 1 /\ \A s \in Sems \ {r} : counter'[s] = counter[s]
  BY <1>0, Zenon DEF UpInc, TypeOK
<1>4. \A s \in Sems : /\ ~Blocking(c, s)' /\ ~Popping(c, s)
                      /\ Popping(c, s)' <=> s = r /\ counter[r] < 0
  BY <1>1, <1>2, Zenon DEF Blocking, Popping, Waiting
<1> QED BY <1>1, <1>2, <1>3, <1>4, Zenon DEF AtOnly

(* q.pop(), when there is something to pop. *)
LEMMA UpPopEffect ==
  ASSUME IInv, NEW c \in Cores, UpPop(c), NEW r \in Sems, r = this[c], q[r] # <<>>
  PROVE  /\ AtOnly(c, r)
         /\ counter' = counter /\ q'[r] = Tail(q[r])
         /\ ~Blocking(c, r) /\ ~Blocking(c, r)' /\ Popping(c, r) /\ ~Popping(c, r)'
<1>0. TypeOK
  BY Zenon DEF IInv
<1>1. pc[c] = "up_pop" /\ counter' = counter /\ to_queue' = to_queue /\ to_add_to' = to_add_to
  BY Zenon DEF UpPop, percore
<1>2. Holds(c, r) /\ \A s \in Sems : ~Blocking(c, s)
  BY <1>1, InCritical, Zenon
<1>3. pc'[c] = "up_sched" /\ q' = [q EXCEPT ![r] = Tail(@)]
  BY <1>0, Zenon DEF UpPop, Goto, TypeOK
<1>4. q'[r] = Tail(q[r]) /\ \A s \in Sems \ {r} : q'[s] = q[s]
  BY <1>0, <1>3, Zenon DEF TypeOK
<1>5. \A s \in Sems : ~Blocking(c, s)' /\ (Popping(c, s) <=> s = r) /\ ~Popping(c, s)'
  BY <1>1, <1>2, <1>3, Zenon DEF Blocking, Popping, Waiting
<1> QED BY <1>1, <1>2, <1>3, <1>4, <1>5, Zenon DEF AtOnly

(* q.push() by the idle thread. *)
LEMMA IdleEnqueueEffect ==
  ASSUME IInv, NEW c \in Cores, IdleEnqueue(c)
  PROVE  \E r \in Sems :
           /\ AtOnly(c, r)
           /\ counter' = counter /\ q'[r] = Append(q[r], to_queue[c]) /\ to_queue[c] \in Threads
           /\ Blocking(c, r) /\ ~Blocking(c, r)' /\ ~Popping(c, r) /\ ~Popping(c, r)'
<1>0. TypeOK /\ Control(c) /\ HeldFrames(c)
  BY Zenon DEF IInv, ControlOK, FramesOK
<1>1. PICK r \in Sems : r = to_add_to[c]
  BY <1>0, EnqueueEffect, Zenon
<1>2. /\ to_queue[c] \in Threads /\ to_unlock[c] = r
      /\ q' = [q EXCEPT ![r] = Append(@, to_queue[c])] /\ pc' = [pc EXCEPT ![c] = "idle_unlock"]
  BY <1>0, <1>1, EnqueueEffect, Zenon
<1>3. pc[c] = "idle_queue" /\ counter' = counter /\ to_queue' = to_queue /\ to_add_to' = to_add_to
  BY Zenon DEF IdleEnqueue, percore
<1>4. pc'[c] = "idle_unlock" /\ Holds(c, r)
  BY <1>0, <1>2, Zenon DEF TypeOK, Holds
<1>5. q'[r] = Append(q[r], to_queue[c]) /\ \A s \in Sems \ {r} : q'[s] = q[s]
  BY <1>0, <1>2, Zenon DEF TypeOK
<1>6. \A s \in Sems : /\ Blocking(c, s) <=> s = r
                      /\ ~Blocking(c, s)' /\ ~Popping(c, s) /\ ~Popping(c, s)'
  BY <1>1, <1>2, <1>3, <1>4, KernelAssumption, Zenon DEF Blocking, Popping, Waiting
<1> QED BY <1>1, <1>2, <1>3, <1>4, <1>5, <1>6, Zenon DEF AtOnly

(* Unlocking for a thread that is on the queue by now. *)
LEMMA IdleUnlockEffect ==
  ASSUME IInv, NEW c \in Cores, IdleUnlock(c)
  PROVE  /\ pc'[c] = "idle_resched" /\ counter' = counter /\ q' = q
         /\ \A s \in Sems : ~Blocking(c, s) /\ ~Blocking(c, s)' /\ ~Popping(c, s) /\ ~Popping(c, s)'
<1>1. pc[c] = "idle_unlock" /\ pc'[c] = "idle_resched" /\ counter' = counter /\ q' = q /\ to_queue'[c] = NULL
  BY Zenon DEF IInv, IdleUnlock, Goto, TypeOK
<1> QED BY <1>1, Zenon DEF Blocking, Popping, Waiting

(* No step of a core makes another block or wake a thread. *)
LEMMA OthersBlockSame ==
  ASSUME IInv, NEW c \in Cores, Step(c), NEW d \in Cores \ {c}
  PROVE  /\ pc'[d] = pc[d] /\ to_queue'[d] = to_queue[d]
         /\ \A s \in Sems : (Blocking(d, s)' <=> Blocking(d, s)) /\ (Popping(d, s)' <=> Popping(d, s))
BY OthersSame, Zenon DEF IInv, Same, Blocking, Popping, Waiting

(* up() finds a thread to wake. *)
LEMMA PopFinds ==
  ASSUME IInv, CountInv, NEW c \in Cores, NEW r \in Sems, Popping(c, r)
  PROVE  q[r] # <<>>
<1>1. Holds(c, r) /\ pc[c] = "up_pop" /\ this[c] = r
  BY Zenon DEF Popping, Holds, CriticalLabels
<1>2. \A d \in Cores : ~Blocking(d, r)
  BY <1>1, Alone, InCritical, Zenon DEF CountInv
<1>3. Coming(r) = 0 /\ Going(r) = 1
  BY <1>2, Zenon DEF Coming, Going
<1>4. Counted(r) /\ counter[r] \in Int /\ Len(q[r]) \in Nat
  BY DEF CountInv, IInv, TypeOK
<1>5. Len(q[r]) > 0
  BY <1>3, <1>4 DEF Counted, Deficit
<1> QED BY <1>5

(* Every step keeps the count, and none fails an assertion. *)
LEMMA CountStep ==
  ASSUME IInv, CountInv, NEW c \in Cores, Step(c)
  PROVE  CountInv'
<1>0. TypeOK /\ Control(c) /\ HeldFrames(c) /\ NoPanic
  BY Zenon DEF IInv, ControlOK, FramesOK, CountInv
<1>p. ASSUME pc'[c] \notin {"panic", "unreachable", "freed"} PROVE NoPanic'
  BY <1>0, <1>p, OthersBlockSame, Zenon DEF NoPanic
<1>s. ASSUME NEW s \in Sems, counter'[s] = counter[s], q'[s] = q[s],
             Blocking(c, s)' <=> Blocking(c, s), Popping(c, s)' <=> Popping(c, s)
      PROVE  Counted(s)'
  <2>1. \A d \in Cores : (Blocking(d, s)' <=> Blocking(d, s)) /\ (Popping(d, s)' <=> Popping(d, s))
    BY <1>s, OthersBlockSame, Zenon
  <2> QED BY <1>s, <2>1, CountSame, Zenon DEF CountInv
<1>k. ASSUME NEW r \in Sems, AtOnly(c, r), Counted(r)' PROVE CountInv'
  <2>1. ASSUME NEW s \in Sems \ {r} PROVE Counted(s)'
    BY <1>k, <1>s, ZenonT(40) DEF AtOnly
  <2> QED BY <1>k, <1>p, <2>1, Zenon DEF CountInv, AtOnly
<1>h. ASSUME NEW r \in Sems, AtOnly(c, r)
      PROVE  /\ Coming(r) = (IF Blocking(c, r) THEN 1 ELSE 0) /\ Going(r) = (IF Popping(c, r) THEN 1 ELSE 0)
             /\ Coming(r)' = (IF Blocking(c, r)' THEN 1 ELSE 0) /\ Going(r)' = (IF Popping(c, r)' THEN 1 ELSE 0)
             /\ Counted(r) /\ counter[r] \in Int /\ q[r] \in Seq(Threads) /\ Len(q[r]) \in Nat
  <2>1. \A d \in Cores \ {c} : ~Blocking(d, r) /\ ~Popping(d, r) /\ ~Blocking(d, r)' /\ ~Popping(d, r)'
    BY <1>0, <1>h, Alone, OthersBlockSame, Zenon DEF AtOnly
  <2> QED BY <1>0, <2>1, CountHolder DEF CountInv, TypeOK
<1>1. CASE Quiet(c)
  <2>1. \A s \in Sems : (Blocking(c, s)' <=> Blocking(c, s)) /\ (Popping(c, s)' <=> Popping(c, s))
    BY <1>1, Zenon DEF Quiet, Marked, Blocking, Popping, Waiting
  <2>2. \A s \in Sems : Counted(s)'
    BY <1>1, <1>s, <2>1, Zenon DEF Quiet
  <2> QED BY <1>1, <1>p, <2>2, Zenon DEF Quiet, Marked, CountInv
<1>2. CASE DownBlock(c)
  <2>1. PICK r \in Sems : r = this[c]
    BY <1>2, InCritical, Zenon DEF DownBlock
  <2>2. /\ AtOnly(c, r) /\ counter[r] < 1 /\ counter'[r] = counter[r] - 1 /\ q' = q
        /\ ~Blocking(c, r) /\ Blocking(c, r)' /\ ~Popping(c, r) /\ ~Popping(c, r)'
    BY <1>2, <2>1, DownBlockEffect, ZenonT(40)
  <2>3. Counted(r)'
    BY <1>h, <2>2 DEF Counted, Deficit
  <2> QED BY <1>k, <2>2, <2>3, Zenon
<1>3. CASE DownPass(c)
  <2>1. PICK r \in Sems : r = this[c]
    BY <1>3, InCritical, Zenon DEF DownPass
  <2>2. /\ AtOnly(c, r) /\ counter[r] >= 1 /\ counter'[r] = counter[r] - 1 /\ q' = q
        /\ ~Blocking(c, r) /\ ~Blocking(c, r)' /\ ~Popping(c, r) /\ ~Popping(c, r)'
    BY <1>3, <2>1, DownPassEffect, Zenon
  <2>3. Counted(r)'
    BY <1>h, <2>2 DEF Counted, Deficit
  <2> QED BY <1>k, <2>2, <2>3, Zenon
<1>4. CASE UpInc(c)
  <2>1. PICK r \in Sems : r = this[c]
    BY <1>4, InCritical, Zenon DEF UpInc
  <2>2. /\ AtOnly(c, r) /\ counter'[r] = counter[r] + 1 /\ q' = q
        /\ ~Blocking(c, r) /\ ~Blocking(c, r)' /\ ~Popping(c, r)
        /\ Popping(c, r)' <=> counter[r] < 0
    BY <1>4, <2>1, UpIncEffect, Zenon
  <2>3. Counted(r)'
    <3>0. /\ Coming(r) = 0 /\ Coming(r)' = 0 /\ Going(r) = 0 /\ Going(r)' = (IF counter[r] < 0 THEN 1 ELSE 0)
          /\ Counted(r) /\ counter[r] \in Int /\ Len(q[r]) \in Nat
      BY <1>h, <2>2, Zenon
    <3>1. CASE counter[r] < 0
      BY <2>2, <3>0, <3>1 DEF Counted, Deficit
    <3>2. CASE ~(counter[r] < 0)
      BY <2>2, <3>0, <3>2 DEF Counted, Deficit
    <3> QED BY <3>1, <3>2, Zenon
  <2> QED BY <1>k, <2>2, <2>3, Zenon
<1>5. CASE UpPop(c)
  <2>1. PICK r \in Sems : r = this[c]
    BY <1>5, InCritical, Zenon DEF UpPop
  <2>2. q[r] # <<>>
    BY <1>5, <2>1, PopFinds, Zenon DEF UpPop, Popping
  <2>3. /\ AtOnly(c, r) /\ counter' = counter /\ q'[r] = Tail(q[r])
        /\ ~Blocking(c, r) /\ ~Blocking(c, r)' /\ Popping(c, r) /\ ~Popping(c, r)'
    BY <1>5, <2>1, <2>2, UpPopEffect, Zenon
  <2>4. Len(q'[r]) = Len(q[r]) - 1
    BY <1>h, <2>2, <2>3
  <2>5. Counted(r)'
    BY <1>h, <2>3, <2>4 DEF Counted, Deficit
  <2> QED BY <1>k, <2>3, <2>5, Zenon
<1>6. CASE IdleEnqueue(c)
  <2>1. PICK r \in Sems :
          /\ AtOnly(c, r)
          /\ counter' = counter /\ q'[r] = Append(q[r], to_queue[c]) /\ to_queue[c] \in Threads
          /\ Blocking(c, r) /\ ~Blocking(c, r)' /\ ~Popping(c, r) /\ ~Popping(c, r)'
    BY <1>6, IdleEnqueueEffect, Zenon
  <2>2. Len(q'[r]) = Len(q[r]) + 1
    BY <1>h, <2>1
  <2>3. Counted(r)'
    BY <1>h, <2>1, <2>2 DEF Counted, Deficit
  <2> QED BY <1>k, <2>1, <2>3, Zenon
<1>7. CASE IdleUnlock(c)
  <2>1. \A s \in Sems : Counted(s)'
    BY <1>7, <1>s, IdleUnlockEffect, Zenon
  <2> QED BY <1>7, <1>p, <2>1, IdleUnlockEffect, ZenonT(40) DEF CountInv
<1> QED BY <1>0, <1>1, <1>2, <1>3, <1>4, <1>5, <1>6, <1>7, QuietSteps, Zenon

-----------------------------------------------------------------------------
(* The threads blocked in down(), as a sequence.                           *)

(* Blocked(s) without its choice of a core: only one core can be on the    *)
(* way to the queue, or about to pop it.                                   *)
BlockedForm(s) ==
  /\ \A c \in Cores : Blocking(c, s) => Blocked(s) = Append(q[s], to_queue[c])
  /\ \A c \in Cores : Popping(c, s) => Blocked(s) = Tail(q[s])
  /\ (\A c \in Cores : ~Blocking(c, s) /\ ~Popping(c, s)) => Blocked(s) = q[s]

BlockedForms == IInv /\ NoPanic => \A s \in Sems : BlockedForm(s)

(* This is what Blocked(s) is, now ... *)
LEMMA FormNow == BlockedForms
<1> SUFFICES ASSUME IInv, NoPanic, NEW s \in Sems PROVE BlockedForm(s)
  BY Zenon DEF BlockedForms
<1>0. q[s] \in Seq(Threads)
  BY Zenon DEF IInv, TypeOK
<1>1. ASSUME NEW c \in Cores, Blocking(c, s) PROVE Blocked(s) = Append(q[s], to_queue[c])
  <2>1. Holds(c, s) /\ pc[c] # "up_pop" /\ to_queue[c] \in Threads
    BY <1>1, BlockingHolds, Zenon DEF Queueing
  <2>2. \A d \in Cores : ~Popping(d, s) /\ (Blocking(d, s) => d = c)
    BY <2>1, Alone, Zenon DEF Popping
  <2>3. c = CHOOSE d \in Cores : Blocking(d, s)
    BY <1>1, <2>2, Zenon
  <2>4. Blocked(s) = q[s] \o <<to_queue[c]>>
    BY <1>1, <2>2, <2>3, Zenon DEF Blocked
  <2> QED BY <1>0, <2>1, <2>4
<1>2. ASSUME NEW c \in Cores, Popping(c, s) PROVE Blocked(s) = Tail(q[s])
  <2>1. Holds(c, s) /\ pc[c] = "up_pop" /\ this[c] = s
    BY <1>2, Zenon DEF Popping, Holds, CriticalLabels
  <2>2. \A d \in Cores : ~Blocking(d, s)
    BY <2>1, Alone, InCritical, Zenon
  <2>3. Blocked(s) = Tail(q[s] \o <<>>)
    BY <1>2, <2>2, Zenon DEF Blocked
  <2> QED BY <1>0, <2>3
<1>3. ASSUME \A c \in Cores : ~Blocking(c, s) /\ ~Popping(c, s) PROVE Blocked(s) = q[s]
  <2>1. Blocked(s) = q[s] \o <<>>
    BY <1>3, Zenon DEF Blocked
  <2> QED BY <1>0, <2>1
<1> QED BY <1>1, <1>2, <1>3, Zenon DEF BlockedForm

(* ... and after a step. *)
LEMMA FormNext == BlockedForms'
BY FormNow, PTL

(* The threads blocked in down() are as many as the count says. *)
LEMMA BlockedCounted ==
  ASSUME IInv, CountInv, NEW s \in Sems
  PROVE  Len(Blocked(s)) = Deficit(s)
<1>0. /\ q[s] \in Seq(Threads) /\ Len(q[s]) \in Nat /\ counter[s] \in Int /\ Counted(s) /\ NoPanic
      /\ BlockedForm(s)
  <2>1. q[s] \in Seq(Threads) /\ counter[s] \in Int
    BY Zenon DEF IInv, TypeOK
  <2>2. Counted(s) /\ NoPanic /\ BlockedForm(s)
    BY FormNow, Zenon DEF CountInv, BlockedForms
  <2> QED BY <2>1, <2>2
<1>1. CASE \E c \in Cores : Blocking(c, s)
  <2>1. PICK c \in Cores : Blocking(c, s)
    BY <1>1, Zenon
  <2>2. Holds(c, s) /\ pc[c] # "up_pop" /\ to_queue[c] \in Threads
    BY <1>0, <2>1, BlockingHolds, Zenon DEF Queueing
  <2>3. ~\E d \in Cores : Popping(d, s)
    BY <1>0, <2>2, Alone, Zenon DEF Popping
  <2>4. Coming(s) = 1 /\ Going(s) = 0 /\ Blocked(s) = Append(q[s], to_queue[c])
    BY <1>0, <1>1, <2>1, <2>3, Zenon DEF Coming, Going, BlockedForm
  <2> QED BY <1>0, <2>2, <2>4 DEF Counted
<1>2. CASE \E c \in Cores : Popping(c, s)
  <2>1. PICK c \in Cores : Popping(c, s)
    BY <1>2, Zenon
  <2>2. Holds(c, s) /\ pc[c] = "up_pop" /\ this[c] = s
    BY <2>1, Zenon DEF Popping, Holds, CriticalLabels
  <2>3. ~\E d \in Cores : Blocking(d, s)
    BY <1>0, <2>2, Alone, InCritical, Zenon
  <2>4. Coming(s) = 0 /\ Going(s) = 1 /\ Blocked(s) = Tail(q[s]) /\ q[s] # <<>>
    BY <1>0, <2>1, <2>3, PopFinds, Zenon DEF Coming, Going, BlockedForm
  <2> QED BY <1>0, <2>4 DEF Counted
<1>3. CASE \A c \in Cores : ~Blocking(c, s) /\ ~Popping(c, s)
  <2>1. Coming(s) = 0 /\ Going(s) = 0 /\ Blocked(s) = q[s]
    BY <1>0, <1>3, Zenon DEF Coming, Going, BlockedForm
  <2> QED BY <1>0, <2>1 DEF Counted
<1> QED BY <1>1, <1>2, <1>3, ZenonT(40)

(* How a step changes it: not at all, ... *)
LEMMA BlockedFixed ==
  ASSUME IInv, CountInv, IInv', CountInv', NEW s \in Sems, q'[s] = q[s],
         \A d \in Cores : /\ Blocking(d, s)' <=> Blocking(d, s)
                          /\ Popping(d, s)' <=> Popping(d, s)
                          /\ Blocking(d, s) => to_queue'[d] = to_queue[d]
  PROVE  Blocked(s)' = Blocked(s)
<1>0. BlockedForm(s) /\ BlockedForm(s)'
  BY FormNow, FormNext, ZenonT(40) DEF BlockedForms, CountInv
<1>2. ASSUME NEW d \in Cores, Blocking(d, s) PROVE Blocked(s)' = Blocked(s)
  <2>1. Blocked(s) = Append(q[s], to_queue[d])
    BY <1>0, <1>2, Zenon DEF BlockedForm
  <2>2. Blocked(s)' = Append(q'[s], to_queue'[d])
    BY <1>0, <1>2, Zenon DEF BlockedForm
  <2> QED BY <1>2, <2>1, <2>2, Zenon
<1>3. ASSUME NEW d \in Cores, Popping(d, s) PROVE Blocked(s)' = Blocked(s)
  <2>1. Blocked(s) = Tail(q[s])
    BY <1>0, <1>3, Zenon DEF BlockedForm
  <2>2. Blocked(s)' = Tail(q'[s])
    BY <1>0, <1>3, Zenon DEF BlockedForm
  <2> QED BY <2>1, <2>2, Zenon
<1>4. ASSUME \A d \in Cores : ~Blocking(d, s) /\ ~Popping(d, s) PROVE Blocked(s)' = Blocked(s)
  BY <1>0, <1>4, Zenon DEF BlockedForm
<1> QED BY <1>2, <1>3, <1>4, Zenon

(* The same, of a step that leaves core c's part in s alone.               *)
LEMMA BlockedKept ==
  ASSUME IInv, CountInv, IInv', CountInv', NEW c \in Cores, Step(c), NEW s \in Sems, q'[s] = q[s],
         Blocking(c, s)' <=> Blocking(c, s), Popping(c, s)' <=> Popping(c, s),
         Blocking(c, s) => to_queue'[c] = to_queue[c]
  PROVE  Blocked(s)' = Blocked(s)
BY OthersBlockSame, BlockedFixed, Zenon

(* ... because only the core that has the lock can change it, ... *)
LEMMA BlockedHolder ==
  ASSUME IInv, CountInv, IInv', CountInv', NEW c \in Cores, Step(c), NEW r \in Sems, AtOnly(c, r)
  PROVE  /\ Blocking(c, r) => Blocked(r) = Append(q[r], to_queue[c])
         /\ Popping(c, r) => Blocked(r) = Tail(q[r])
         /\ ~Blocking(c, r) /\ ~Popping(c, r) => Blocked(r) = q[r]
         /\ Blocking(c, r)' => Blocked(r)' = Append(q'[r], to_queue'[c])
         /\ Popping(c, r)' => Blocked(r)' = Tail(q'[r])
         /\ ~Blocking(c, r)' /\ ~Popping(c, r)' => Blocked(r)' = q'[r]
<1>0. BlockedForm(r) /\ BlockedForm(r)'
  BY FormNow, FormNext, Zenon DEF BlockedForms, CountInv
<1>1. \A d \in Cores \ {c} : ~Blocking(d, r) /\ ~Popping(d, r) /\ ~Blocking(d, r)' /\ ~Popping(d, r)'
  BY Alone, OthersBlockSame, ZenonT(40) DEF AtOnly, CountInv
<1> QED BY <1>0, <1>1, Zenon DEF BlockedForm

(* ... unless a thread joins ... *)
LEMMA BlockedAppends ==
  ASSUME IInv, CountInv, NEW c \in Cores, Step(c), DownBlock(c), NEW r \in Sems, r = this[c]
  PROVE  Blocked(r)' = Append(Blocked(r), on[c])
<1>1. IInv' /\ CountInv'
  BY IInvStep, CountStep, Zenon
<1> QED BY <1>1, DownBlockEffect, BlockedHolder

(* ... or up() wakes the first. *)
LEMMA BlockedPops ==
  ASSUME IInv, CountInv, NEW c \in Cores, Step(c), UpInc(c), NEW r \in Sems, r = this[c], counter[r] < 0
  PROVE  Blocked(r) = q[r] /\ Blocked(r)' = Tail(Blocked(r)) /\ Blocked(r) # <<>>
<1>1. IInv' /\ CountInv'
  BY IInvStep, CountStep, Zenon
<1>2. Blocked(r) = q[r] /\ Blocked(r)' = Tail(q[r])
  BY <1>1, UpIncEffect, BlockedHolder, Zenon
<1>3. Len(Blocked(r)) = Deficit(r) /\ counter[r] \in Int
  BY BlockedCounted, Zenon DEF IInv, TypeOK
<1>4. Len(Blocked(r)) > 0
  BY <1>3 DEF Deficit
<1> QED BY <1>2, <1>4

(* No other step changes it. *)
LEMMA BlockedSame ==
  ASSUME IInv, CountInv, NEW c \in Cores, Step(c), NEW s \in Sems,
         ~(DownBlock(c) /\ s = this[c]), ~(UpInc(c) /\ s = this[c] /\ counter[s] < 0)
  PROVE  Blocked(s)' = Blocked(s)
<1>0. TypeOK /\ Control(c) /\ HeldFrames(c) /\ NoPanic /\ IInv' /\ CountInv'
  BY IInvStep, CountStep, Zenon DEF IInv, ControlOK, FramesOK, CountInv
<1>e. ASSUME NEW r \in Sems, AtOnly(c, r), s # r PROVE Blocked(s)' = Blocked(s)
  BY <1>0, <1>e, BlockedKept, Zenon DEF AtOnly
<1>1. CASE Quiet(c)
  <2>1. (Blocking(c, s)' <=> Blocking(c, s)) /\ (Popping(c, s)' <=> Popping(c, s))
    BY <1>1, ZenonT(40) DEF Quiet, Marked, Blocking, Popping, Waiting
  <2> QED BY <1>0, <1>1, <2>1, BlockedKept, Zenon DEF Quiet
<1>2. CASE DownBlock(c)
  <2>1. PICK r \in Sems : r = this[c]
    BY <1>2, InCritical, Zenon DEF DownBlock
  <2> QED BY <1>2, <1>e, <2>1, DownBlockEffect, Zenon
<1>3. CASE DownPass(c)
  <2>1. PICK r \in Sems : r = this[c]
    BY <1>3, InCritical, Zenon DEF DownPass
  <2>2. CASE s = r
    BY <1>0, <1>3, <2>1, <2>2, DownPassEffect, BlockedKept, ZenonT(40)
  <2> QED BY <1>3, <1>e, <2>1, <2>2, DownPassEffect, Zenon
<1>4. CASE UpInc(c)
  <2>1. PICK r \in Sems : r = this[c]
    BY <1>4, InCritical, Zenon DEF UpInc
  <2>2. CASE s = r
    BY <1>0, <1>4, <2>1, <2>2, UpIncEffect, BlockedKept, ZenonT(40)
  <2> QED BY <1>4, <1>e, <2>1, <2>2, UpIncEffect, Zenon
<1>5. CASE UpPop(c)
  <2>1. PICK r \in Sems : r = this[c]
    BY <1>5, InCritical, Zenon DEF UpPop
  <2>2. q[r] # <<>>
    BY <1>5, <2>1, PopFinds, Zenon DEF UpPop, Popping
  <2>3. CASE s = r
    BY <1>0, <1>5, <2>1, <2>2, <2>3, UpPopEffect, BlockedHolder, ZenonT(40)
  <2> QED BY <1>5, <1>e, <2>1, <2>2, <2>3, UpPopEffect, Zenon
<1>6. CASE IdleEnqueue(c)
  <2>1. PICK r \in Sems :
          /\ AtOnly(c, r)
          /\ counter' = counter /\ q'[r] = Append(q[r], to_queue[c]) /\ to_queue[c] \in Threads
          /\ Blocking(c, r) /\ ~Blocking(c, r)' /\ ~Popping(c, r) /\ ~Popping(c, r)'
    BY <1>6, IdleEnqueueEffect, Zenon
  <2>2. CASE s = r
    BY <1>0, <2>1, <2>2, BlockedHolder, Zenon
  <2> QED BY <1>e, <2>1, <2>2, Zenon
<1>7. CASE IdleUnlock(c)
  BY <1>0, <1>7, IdleUnlockEffect, BlockedKept, Zenon
<1> QED BY <1>0, <1>1, <1>2, <1>3, <1>4, <1>5, <1>6, <1>7, QuietSteps, Zenon

(* Who is in it: threads that are in q, or on the way there. *)
LEMMA BlockedWhere ==
  ASSUME IInv, CountInv, NEW s \in Sems, NEW t \in Range(Blocked(s))
  PROVE  t \in Range(q[s]) \/ \E d \in Cores : Blocking(d, s) /\ t = to_queue[d]
<1>0. BlockedForm(s) /\ NoPanic /\ q[s] \in Seq(Threads)
  BY FormNow, ZenonT(40) DEF BlockedForms, CountInv, IInv, TypeOK
<1>1. ASSUME NEW d \in Cores, Blocking(d, s) PROVE t \in Range(q[s]) \/ t = to_queue[d]
  <2>1. to_queue[d] \in Threads
    BY <1>0, <1>1, BlockingHolds, Zenon DEF Queueing
  <2>2. Range(Append(q[s], to_queue[d])) = Range(q[s]) \cup {to_queue[d]}
    BY <1>0, <2>1, RangeAppend
  <2>3. Blocked(s) = Append(q[s], to_queue[d])
    BY <1>0, <1>1, Zenon DEF BlockedForm
  <2> QED BY <2>2, <2>3, Zenon
<1>2. ASSUME NEW d \in Cores, Popping(d, s) PROVE t \in Range(q[s])
  <2>1. q[s] # <<>>
    BY <1>2, PopFinds, Zenon
  <2>2. Range(q[s]) = Range(Tail(q[s])) \cup {Head(q[s])}
    BY <1>0, <2>1, RangeTail, Zenon
  <2> QED BY <1>0, <1>2, <2>2, Zenon DEF BlockedForm
<1>3. ASSUME \A d \in Cores : ~Blocking(d, s) /\ ~Popping(d, s) PROVE t \in Range(q[s])
  BY <1>0, <1>3, Zenon DEF BlockedForm
<1> QED BY <1>1, <1>2, <1>3, ZenonT(40)

(* A thread that a core runs, or is about to run, is blocked nowhere. *)
LEMMA RunningNotBlocked ==
  ASSUME IInv, CountInv, NEW c \in Cores, NEW t \in Pointers(c), to_queue[c] = NULL, NEW s \in Sems
  PROVE  t \notin Range(Blocked(s))
<1>1. t \notin Range(q[s])
  BY Zenon DEF IInv, OnePlace, Mine
<1>2. ASSUME NEW d \in Cores, Blocking(d, s) PROVE t # to_queue[d]
  <2>1. d # c
    BY <1>2, Zenon DEF Blocking, Waiting
  <2>2. to_queue[d] \in Pointers(d)
    BY <1>2, BlockingHolds, Zenon DEF CountInv, Queueing, Pointers, Blocking, Waiting
  <2>3. Mine(c) \cap Mine(d) = {}
    BY <2>1, ZenonT(40) DEF IInv, OnePlace
  <2> QED BY <2>2, <2>3, Zenon DEF Mine
<1> QED BY <1>1, <1>2, BlockedWhere, Zenon

-----------------------------------------------------------------------------
(* The threads down() has let through.                                     *)

(* The steps that save, load, create or free no frame, switch no stack and *)
(* do not bring a core to or from the end of down().                       *)
Calm(c) ==
  /\ on' = on /\ sp' = sp /\ alive' = alive
  /\ pc[c] \notin {"down_unlock", "down_ret"}
  /\ pc'[c] \notin {"down_unlock", "down_ret", "load", "idle_ret"}

(* Most steps are calm. *)
LEMMA CalmSteps ==
  ASSUME TypeOK, NEW c \in Cores, Step(c), pc'[c] # "panic"
  PROVE  \/ Calm(c)
         \/ SwitchSave(c) \/ SwitchLoad(c) \/ GoMake(c) \/ IdleDelete(c)
         \/ DownPass(c) \/ DownUnlock(c) \/ DownReturn(c)
<1> USE DEF TypeOK, Calm, Goto, tcbs, regs
<1>1. CASE IdleEnqueue(c)
  BY <1>1, Zenon DEF IdleEnqueue
<1>2. CASE IdleUnlock(c)
  BY <1>2, Zenon DEF IdleUnlock
<1>3. CASE DownBlock(c)
  BY <1>3, Zenon DEF DownBlock, BeginSwitch
<1>4. CASE GoSchedule(c)
  BY <1>4, Zenon DEF GoSchedule
<1>5. CASE Yield(c)
  BY <1>5, Zenon DEF Yield, Call, BeginSwitch
<1>6. CASE Stop(c)
  BY <1>6, Zenon DEF Stop, BeginSwitch
<1>7. CASE IdleEnter(c)
  BY <1>7, Zenon DEF IdleEnter
<1>8. CASE IdleNext(c)
  BY <1>8, Zenon DEF IdleNext, BeginSwitch
<1>9. CASE IdlePoll(c)
  BY <1>9, Zenon DEF IdlePoll, vars
<1>10. CASE UpInc(c)
  BY <1>10, Zenon DEF UpInc
<1>11. CASE IdleNoQueue(c)
  BY <1>11, Zenon DEF IdleNoQueue
<1>12. CASE IdleReschedule(c)
  BY <1>12, Zenon DEF IdleReschedule
<1>13. CASE SemDown(c)
  BY <1>13, Zenon DEF SemDown, Call
<1>14. CASE SemUp(c)
  BY <1>14, Zenon DEF SemUp, Call
<1>15. CASE MutexLock(c)
  BY <1>15, Zenon DEF MutexLock, Call
<1>16. CASE MutexUnlock(c)
  BY <1>16, Zenon DEF MutexUnlock
<1>17. CASE DownLock(c)
  BY <1>17, Zenon DEF DownLock, Acquire
<1>18. CASE UpPop(c)
  BY <1>18, Zenon DEF UpPop
<1>19. CASE UpLock(c)
  BY <1>19, Zenon DEF UpLock, Acquire
<1>20. CASE UpSchedule(c)
  BY <1>20, Zenon DEF UpSchedule
<1>21. CASE UpUnlock(c)
  BY <1>21, Zenon DEF UpUnlock, ReturnToUser
<1> QED BY <1>1, <1>2, <1>3, <1>4, <1>5, <1>6, <1>7, <1>8, <1>9, <1>10, <1>11, <1>12, <1>13, <1>14, <1>15,
           <1>16, <1>17, <1>18, <1>19, <1>20, <1>21, ZenonT(40) DEF Step, Idle, Thread, Semaphore

(* A thread that has stopped is not taken for one that waits in down(). *)
Gone(c) ==
  pc[c] # "stop_sw" /\ to_delete[c] \in Threads => \A s \in Sems : ~InDown(to_delete[c], s)

GoneInv == \A c \in Cores : Gone(c)

(* At boot no thread has stopped. *)
LEMMA GoneInit == Init => GoneInv
BY KernelAssumption, Zenon DEF Init, GoneInv, Gone

(* A core that has a stopped thread is on its way to freeing it. *)
LEMMA StoppedWhere ==
  ASSUME IInv, NoPanic, NEW c \in Cores, to_delete[c] \in Threads
  PROVE  pc[c] \in {"stop_sw", "load", "idle_ret"} /\ Stopping(c)
<1>0. Control(c) /\ pc[c] \in Labels /\ pc[c] \notin {"panic", "unreachable", "freed"} /\ to_delete[c] # NULL
  BY KernelAssumption, Zenon DEF IInv, ControlOK, TypeOK, NoPanic
<1>1. pc[c] \notin BootLabels \cup ThreadLabels \cup {"yield_sw", "down_sw", "idle_sw"}
  BY <1>0, Zenon DEF Control, NoSlots, Yielding, Queueing
<1>2. pc[c] \notin {"idle_loop", "idle_next", "idle_queue", "idle_unlock", "idle_resched"}
  BY <1>0, Zenon DEF Control, NoSlots, Yielding, Queueing
<1>3. pc[c] \in {"stop_sw", "load", "idle_ret"}
  BY <1>0, <1>1, <1>2, Zenon DEF Labels, LeaveLabels, IdleLabels
<1>4. Queueing(c) \/ Yielding(c) \/ Stopping(c) \/ NoSlots(c)
  BY <1>0, <1>3, Zenon DEF Control, Leaving
<1> QED BY <1>0, <1>3, <1>4, Zenon DEF NoSlots, Yielding, Queueing

StoppedInv == IInv /\ NoPanic =>
  \A c \in Cores : to_delete[c] \in Threads => pc[c] \in {"stop_sw", "load", "idle_ret"} /\ Stopping(c)

(* The same after a step. *)
LEMMA StoppedNext == StoppedInv'
<1>1. StoppedInv
  BY StoppedWhere, Zenon DEF StoppedInv
<1> QED BY <1>1, PTL

(* Every step keeps that. *)
LEMMA GoneStep ==
  ASSUME IInv, CountInv, GoneInv, NEW c \in Cores, Step(c)
  PROVE  GoneInv'
<1>0. IInv' /\ NoPanic' /\ NoPanic /\ TypeOK /\ Control(c) /\ Stable /\ OnePlace
  BY IInvStep, CountStep, Zenon DEF CountInv, IInv, ControlOK, Stable
<1>1. ASSUME NEW d \in Cores \ {c} PROVE Gone(d)'
  <2>1. pc'[d] = pc[d] /\ to_delete'[d] = to_delete[d]
    BY <1>0, OthersSame, Zenon DEF Same
  <2>2. ASSUME to_delete[d] \in Threads PROVE sp'[to_delete[d]] = sp[to_delete[d]]
    <3>1. to_delete[d] \in Mine(d)
      BY <2>2, Zenon DEF Mine, Pointers
    <3>2. to_delete[d] \in alive /\ to_delete[d] \notin Mine(c) \cup {c}
      BY <1>0, <2>2, <3>1, KernelAssumption DEF OnePlace
    <3> QED BY <1>0, <3>2, FrameUntouched, Zenon
  <2> QED BY <2>1, <2>2, Zenon DEF GoneInv, Gone, InDown
<1>2. Gone(c)'
  <2>1. SUFFICES ASSUME pc'[c] # "stop_sw", to_delete'[c] \in Threads, NEW s \in Sems
                 PROVE  ~InDown(to_delete[c], s)' /\ to_delete'[c] = to_delete[c]
    BY Zenon DEF Gone, InDown
  <2>2. pc'[c] \in {"load", "idle_ret"}
    BY <1>0, <2>1, StoppedNext, Zenon DEF StoppedInv
  <2>3. SwitchSave(c) \/ SwitchLoad(c)
    <3>1. ~Calm(c) /\ pc'[c] # "panic"
      BY <2>2, Zenon DEF Calm
    <3>2. ~GoMake(c) /\ ~IdleDelete(c) /\ ~DownPass(c)
      BY <1>0, <2>2, ZenonT(40) DEF GoMake, IdleDelete, DownPass, Goto, TypeOK
    <3>3. ~DownUnlock(c) /\ ~DownReturn(c)
      BY <1>0, <2>2, Zenon DEF DownUnlock, DownReturn, ReturnToUser, Goto, TypeOK
    <3> QED BY <1>0, <3>1, <3>2, <3>3, CalmSteps, Zenon
  <2>4. CASE SwitchLoad(c)
    <3>1. sp' = sp /\ to_delete' = to_delete /\ pc[c] = "load"
      BY <2>4, Zenon DEF SwitchLoad, tcbs, percore
    <3>2. pc[c] # "stop_sw" /\ to_delete[c] \in Threads /\ to_delete'[c] = to_delete[c]
      BY <2>1, <3>1, Zenon
    <3>3. ~InDown(to_delete[c], s)
      BY <3>2, ZenonT(40) DEF GoneInv, Gone
    <3> QED BY <3>1, <3>2, <3>3, Zenon DEF InDown
  <2>5. CASE SwitchSave(c)
    <3>1. to_delete' = to_delete /\ sp' = [t \in TCB |-> IF t = prev[c]
                             THEN SavedFrame(ReturnAddress[pc[c]], this[c]) ELSE sp[t]]
      BY <2>5, Zenon DEF SwitchSave, percore
    <3>2. to_delete[c] \in Threads /\ pc[c] = "stop_sw"
      <4>1. to_delete[c] \in Threads
        BY <2>1, <3>1, Zenon
      <4> QED BY <1>0, <2>5, <4>1, StoppedWhere, Zenon DEF SwitchSave
    <3>3. to_delete[c] = prev[c]
      <4>1. on[c] \in Threads /\ prev[c] = on[c]
        BY <1>0, <3>2, KernelAssumption, Zenon DEF Control, Leaving, LeaveLabels, NoSlots
      <4>2. on[c] \in Pointers(c) /\ to_delete[c] \in Pointers(c)
        BY <3>2, <4>1, ZenonT(40) DEF Pointers
      <4> QED BY <1>0, <4>1, <4>2, Zenon DEF OnePlace
    <3>4. sp'[to_delete[c]].x30 = "unreachable"
      BY <3>1, <3>2, <3>3 DEF TCB, SavedFrame, ReturnAddress
    <3>5. InDown(to_delete[c], s)' => sp'[to_delete'[c]].x30 = "down_ret"
      BY DEF InDown, SavedFrame
    <3> QED BY <3>1, <3>4, <3>5, Zenon
  <2> QED BY <2>3, <2>4, <2>5, Zenon
<1> QED BY <1>1, <1>2, Zenon DEF GoneInv

(* The two ways to be let through: still in down() on a core, or off every *)
(* core with the frame of a down() whose queue the thread has left.        *)
AtDown(t, s) == \E c \in Cores : on[c] = t /\ pc[c] \in {"down_unlock", "down_ret"} /\ this[c] = s
Off(t) == \A c \in Cores : on[c] # t
Let(t, s) == t \in alive /\ (AtDown(t, s) \/ (Off(t) /\ InDown(t, s) /\ t \notin Range(Blocked(s))))

(* That is what Granted says. *)
LEMMA GrantedIs ==
  ASSUME NEW s, NEW t
  PROVE  (t \in Granted(s) <=> Let(t, s)) /\ ((t \in Granted(s))' <=> Let(t, s)')
BY Zenon DEF Granted, Let, AtDown, Off

(* If each thread is let through as before, nothing changes. *)
LEMMA GrantedKept ==
  ASSUME NEW s, \A t : Let(t, s)' <=> Let(t, s)
  PROVE  Granted(s)' = Granted(s)
<1>1. \A t : (t \in Granted(s))' <=> t \in Granted(s)
  BY GrantedIs, Zenon
<1> QED BY <1>1, Zenon

(* Only core c's own position can change. *)
LEMMA OthersAtDown ==
  ASSUME IInv, NEW c \in Cores, Step(c), NEW d \in Cores \ {c}
  PROVE  on'[d] = on[d] /\ pc'[d] = pc[d] /\ this'[d] = this[d]
BY OthersSame, Zenon DEF IInv, Same

(* A calm step lets through only whom up() takes off the queue. *)
LEMMA LetCalm ==
  ASSUME IInv, NEW c \in Cores, Step(c), Calm(c), NEW s \in Sems, NEW t
  PROVE  /\ alive' = alive /\ (AtDown(t, s)' <=> AtDown(t, s))
         /\ (Off(t)' <=> Off(t)) /\ (InDown(t, s)' <=> InDown(t, s))
<1>1. \A d \in Cores : on'[d] = on[d] /\ (d # c => pc'[d] = pc[d] /\ this'[d] = this[d])
  BY OthersAtDown, Zenon DEF Calm
<1>2. AtDown(t, s)' <=> AtDown(t, s)
  BY <1>1, ZenonT(40) DEF Calm, AtDown
<1> QED BY <1>2, Zenon DEF Calm, Off, InDown

(* A thread on some core is in no down() but that core's. *)
LEMMA OnOnce ==
  ASSUME IInv, NEW c \in Cores, on[c] \in Threads, NEW d \in Cores, on[d] = on[c]
  PROVE  d = c
BY Zenon DEF IInv, OnePlace, Mine, Pointers

(* Neither a core that saves a frame, ... *)
LEMMA LetSave ==
  ASSUME IInv, CountInv, NEW c \in Cores, Step(c), SwitchSave(c), NEW s \in Sems, NEW t
  PROVE  Let(t, s)' <=> Let(t, s)
<1>0. TypeOK /\ Control(c)
  BY Zenon DEF IInv, ControlOK
<1>1. /\ on' = on /\ alive' = alive /\ pc'[c] = "load"
      /\ pc[c] \in {"yield_sw", "stop_sw", "down_sw", "idle_sw"}
      /\ sp' = [u \in TCB |-> IF u = prev[c]
                              THEN SavedFrame(ReturnAddress[pc[c]], this[c]) ELSE sp[u]]
  BY <1>0, Zenon DEF SwitchSave, Goto, TypeOK
<1>2. AtDown(t, s)' <=> AtDown(t, s)
  BY <1>1, OthersAtDown, Zenon DEF AtDown
<1>3. Off(t)' <=> Off(t)
  BY <1>1, Zenon DEF Off
<1>4. Blocked(s)' = Blocked(s)
  BY <1>1, BlockedSame, Zenon DEF DownBlock, UpInc
<1>5. ASSUME t \in alive, Off(t) PROVE InDown(t, s)' <=> InDown(t, s)
  <2>1. t \in Threads /\ t # on[c]
    BY <1>0, <1>5, Zenon DEF TypeOK, Off
  <2>2. prev[c] # t
    BY <1>0, <1>1, <2>1, KernelAssumption, Zenon DEF Control, Leaving, LeaveLabels
  <2> QED BY <1>1, <2>1, <2>2, Zenon DEF InDown, TCB
<1> QED BY <1>1, <1>2, <1>3, <1>4, <1>5, Zenon DEF Let

(* ... nor one that creates a thread, ... *)
LEMMA LetMake ==
  ASSUME IInv, CountInv, NEW c \in Cores, Step(c), GoMake(c), NEW s \in Sems, NEW t
  PROVE  Let(t, s)' <=> Let(t, s)
<1>0. TypeOK /\ OnePlace
  BY Zenon DEF IInv
<1>1. PICK u \in Threads \ alive : alive' = alive \cup {u} /\ sp' = [sp EXCEPT ![u] = SavedFrame("user", NULL)]
  BY Zenon DEF GoMake
<1>2. on' = on /\ pc[c] \in {"user", "boot_go"} /\ pc'[c] = "go_sched"
  BY <1>0, Zenon DEF GoMake, Call, Goto, TypeOK
<1>3. AtDown(t, s)' <=> AtDown(t, s)
  BY <1>2, OthersAtDown, Zenon DEF AtDown
<1>4. Off(t)' <=> Off(t)
  BY <1>2, Zenon DEF Off
<1>5. Blocked(s)' = Blocked(s)
  BY <1>2, BlockedSame, Zenon DEF DownBlock, UpInc
<1>6. CASE t = u
  <2>1. t \notin alive /\ ~AtDown(t, s)
    <3>1. \A d \in Cores : on[d] \in Threads => on[d] \in alive
      BY <1>0, Zenon DEF OnePlace, Mine, Pointers
    <3> QED BY <1>1, <1>6, <3>1, Zenon DEF AtDown
  <2>2. sp'[t] = SavedFrame("user", NULL)
    BY <1>0, <1>1, <1>6, Zenon DEF TypeOK, TCB
  <2>3. ~InDown(t, s)'
    BY <2>2 DEF InDown, SavedFrame
  <2> QED BY <1>3, <2>1, <2>3, Zenon DEF Let
<1>7. CASE t # u
  <2>1. t \in alive' <=> t \in alive
    BY <1>1, <1>7, Zenon
  <2>2. t \in alive => sp'[t] = sp[t]
    BY <1>0, <1>1, <1>7, Zenon DEF TypeOK, TCB
  <2> QED BY <1>3, <1>4, <1>5, <2>1, <2>2, Zenon DEF Let, InDown
<1> QED BY <1>6, <1>7, Zenon

(* ... nor one that frees a thread lets any through. *)
LEMMA LetDelete ==
  ASSUME IInv, CountInv, GoneInv, NEW c \in Cores, Step(c), IdleDelete(c), NEW s \in Sems, NEW t
  PROVE  Let(t, s)' <=> Let(t, s)
<1>0. TypeOK /\ OnePlace /\ Control(c)
  BY Zenon DEF IInv, ControlOK
<1>1. /\ on' = on /\ pc[c] = "idle_ret" /\ pc'[c] = "idle_queue" /\ alive' = alive \ {to_delete[c]}
      /\ sp' = [u \in TCB |-> IF u = to_delete[c] THEN Freed ELSE sp[u]]
  BY <1>0, Zenon DEF IdleDelete, Goto, TypeOK
<1>3. AtDown(t, s)' <=> AtDown(t, s)
  BY <1>1, OthersAtDown, Zenon DEF AtDown
<1>4. Off(t)' <=> Off(t)
  BY <1>1, Zenon DEF Off
<1>5. Blocked(s)' = Blocked(s)
  BY <1>1, BlockedSame, Zenon DEF DownBlock, UpInc
<1>6. CASE t = to_delete[c] /\ t \in Threads
  <2>1. ~InDown(t, s)
    BY <1>1, <1>6, Zenon DEF GoneInv, Gone
  <2>2. ~AtDown(t, s)
    <3>1. on[c] # t
      BY <1>0, <1>1, <1>6, KernelAssumption, Zenon DEF Control, IdleLabels, AtIdle
    <3>2. t \in Mine(c) /\ \A d \in Cores \ {c} : on[d] = t => t \in Mine(d)
      BY <1>6, Zenon DEF Mine, Pointers
    <3>3. \A d \in Cores : on[d] # t
      BY <1>0, <3>1, <3>2, Zenon DEF OnePlace
    <3> QED BY <3>3, Zenon DEF AtDown
  <2> QED BY <1>1, <1>6, <2>1, <2>2, Zenon DEF Let
<1>7. CASE ~(t = to_delete[c] /\ t \in Threads)
  <2>1. t \in alive' <=> t \in alive
    BY <1>0, <1>1, <1>7, Zenon DEF TypeOK
  <2>2. t \in alive => sp'[t] = sp[t]
    BY <1>0, <1>1, <1>7, Zenon DEF TypeOK, TCB
  <2> QED BY <1>3, <1>4, <1>5, <2>1, <2>2, Zenon DEF Let, InDown
<1> QED BY <1>6, <1>7, Zenon

(* Switching stacks lets nobody through: a thread that leaves its core is  *)
(* on the way to a queue, ready or stopped, and one that comes back from   *)
(* down() had been let through before.                                     *)
LEMMA LetLoad ==
  ASSUME IInv, CountInv, GoneInv, NEW c \in Cores, Step(c), SwitchLoad(c), NEW s \in Sems, NEW t
  PROVE  Let(t, s)' <=> Let(t, s)
<1>0. TypeOK /\ OnePlace /\ Control(c) /\ HeldFrames(c) /\ NoPanic
  BY Zenon DEF IInv, ControlOK, FramesOK, CountInv
<1>1. /\ pc[c] = "load" /\ on'[c] = curr[c] /\ this'[c] = sp[curr[c]].this /\ pc'[c] = sp[curr[c]].x30
      /\ alive' = alive /\ sp' = sp
  BY <1>0, Zenon DEF SwitchLoad, Goto, TypeOK, tcbs
<1>2. Blocked(s)' = Blocked(s)
  BY <1>1, BlockedSame, Zenon DEF DownBlock, UpInc
<1>3. ASSUME t # on[c], t # curr[c]
      PROVE  (AtDown(t, s)' <=> AtDown(t, s)) /\ (Off(t)' <=> Off(t))
  BY <1>1, <1>3, OthersAtDown, ZenonT(40) DEF AtDown, Off
<1>4. ASSUME Leaving(c), t = on[c], t \in Threads PROVE ~Let(t, s) /\ ~Let(t, s)'
  <2>1. ~AtDown(t, s) /\ ~Off(t)
    BY <1>1, <1>4, OnOnce, Zenon DEF AtDown, Off
  <2>2. \A d \in Cores : on'[d] # t
    <3>1. on'[c] # t
      BY <1>1, <1>4, KernelAssumption, Zenon DEF Leaving
    <3>2. \A d \in Cores \ {c} : on'[d] # t
      BY <1>4, OnOnce, OthersAtDown, Zenon
    <3> QED BY <3>1, <3>2, Zenon
  <2>3. InDown(t, s) => t \in Range(Blocked(s))
    <3>1. ASSUME Stopping(c) PROVE ~InDown(t, s)
      <4>1. to_delete[c] = t
        BY <1>0, <1>4, <3>1, Zenon DEF OnePlace, Pointers, Stopping
      <4> QED BY <1>1, <3>1, <4>1, Zenon DEF GoneInv, Gone, Stopping
    <3>2. ASSUME Yielding(c) PROVE ~InDown(t, s)
      <4>1. to_reschedule[c] = t
        BY <1>0, <1>4, <3>2, Zenon DEF OnePlace, Pointers, Yielding
      <4>2. sp[t] = SavedFrame("user", NULL)
        BY <1>0, <1>1, <3>2, <4>1, Zenon DEF HeldFrames, Yielding
      <4> QED BY <4>2 DEF InDown, SavedFrame
    <3>3. ASSUME Queueing(c), InDown(t, s) PROVE t \in Range(Blocked(s))
      <4>1. to_queue[c] = t /\ Waiting(c) = t
        BY <1>0, <1>1, <1>4, <3>3, Zenon DEF OnePlace, Pointers, Queueing, Waiting
      <4>2. InDown(t, to_add_to[c])
        BY <1>0, <1>1, <1>4, <4>1, Zenon DEF HeldFrames
      <4>3. to_add_to[c] = s
        BY <3>3, <4>2 DEF InDown, SavedFrame
      <4>4. Blocking(c, s)
        BY <1>4, <4>1, <4>3, KernelAssumption, Zenon DEF Blocking
      <4>5. Blocked(s) = Append(q[s], t) /\ q[s] \in Seq(Threads)
        BY <1>0, <4>1, <4>4, FormNow, Zenon DEF BlockedForms, BlockedForm, TypeOK
      <4>6. Range(Append(q[s], t)) = Range(q[s]) \cup {t}
        BY <1>4, <4>5, RangeAppend
      <4> QED BY <4>5, <4>6, Zenon
    <3> QED BY <1>4, <3>1, <3>2, <3>3, KernelAssumption, Zenon DEF Leaving
  <2> QED BY <1>1, <1>2, <2>1, <2>2, <2>3, Zenon DEF Let, AtDown, InDown
<1>5. ASSUME on[c] = c, curr[c] \in Threads, NoSlots(c), t = curr[c] PROVE Let(t, s)' <=> Let(t, s)
  <2>1. t \in Pointers(c) /\ t \in alive /\ t # c
    <3>1. t \in Pointers(c)
      BY <1>5, ZenonT(40) DEF Pointers
    <3>2. Mine(c) \subseteq alive /\ t \in Threads /\ c \notin Threads
      BY <1>0, <1>5, KernelAssumption, ZenonT(40) DEF OnePlace
    <3> QED BY <3>1, <3>2, ZenonT(40) DEF Mine
  <2>2. Off(t)
    <3>1. \A d \in Cores \ {c} : on[d] # t
      BY <1>0, <1>5, <2>1, Zenon DEF OnePlace, Mine, Pointers
    <3> QED BY <1>5, <2>1, <3>1, Zenon DEF Off
  <2>3. ~AtDown(t, s)
    BY <2>2, Zenon DEF AtDown, Off
  <2>4. ~Off(t)'
    BY <1>1, <1>5, Zenon DEF Off
  <2>5. t \notin Range(Blocked(s))
    BY <1>5, <2>1, RunningNotBlocked, Zenon DEF NoSlots, NoWait
  <2>6. Resumable(t)
    BY <1>0, <1>1, <1>5, Zenon DEF HeldFrames
  <2>7. AtDown(t, s)' <=> (pc'[c] \in {"down_unlock", "down_ret"} /\ this'[c] = s)
    BY <1>1, <1>5, <2>2, OthersAtDown, Zenon DEF AtDown, Off
  <2>8. (pc'[c] \in {"down_unlock", "down_ret"} /\ this'[c] = s) <=> InDown(t, s)
    <3>1. CASE sp[t] = SavedFrame("user", NULL)
      BY <1>1, <1>5, <3>1 DEF InDown, SavedFrame
    <3>2. CASE \E r \in Sems : InDown(t, r)
      BY <1>1, <1>5, <3>2 DEF InDown, SavedFrame
    <3> QED BY <2>6, <3>1, <3>2, ZenonT(40) DEF Resumable
  <2> QED BY <1>1, <2>1, <2>2, <2>3, <2>4, <2>5, <2>7, <2>8, Zenon DEF Let
<1>6. CASE t \in Threads
  <2>1. CASE Leaving(c)
    <3>1. t # curr[c]
      BY <1>6, <2>1, KernelAssumption, Zenon DEF Leaving
    <3>2. CASE t = on[c]
      BY <1>4, <1>6, <2>1, <3>2, Zenon
    <3>3. CASE t # on[c]
      BY <1>1, <1>2, <1>3, <3>1, <3>3, ZenonT(40) DEF Let, InDown
    <3> QED BY <3>2, <3>3, Zenon
  <2>2. CASE on[c] = c /\ curr[c] \in Threads /\ NoSlots(c)
    <3>1. t # on[c]
      BY <1>6, <2>2, KernelAssumption, Zenon
    <3>2. CASE t = curr[c]
      BY <1>5, <2>2, <3>2, Zenon
    <3>3. CASE t # curr[c]
      BY <1>1, <1>2, <1>3, <3>1, <3>3, Zenon DEF Let, InDown
    <3> QED BY <3>2, <3>3, Zenon
  <2> QED BY <1>0, <1>1, <2>1, <2>2, Zenon DEF Control
<1>7. CASE t \notin Threads
  BY <1>0, <1>1, <1>7, Zenon DEF Let, TypeOK
<1> QED BY <1>6, <1>7, Zenon

(* down() lets its own thread through, ... *)
LEMMA GrantedPass ==
  ASSUME IInv, CountInv, NEW c \in Cores, Step(c), DownPass(c), NEW r \in Sems, r = this[c], NEW s \in Sems
  PROVE  Granted(s)' = IF s = r THEN Granted(s) \cup {on[c]} ELSE Granted(s)
<1>0. TypeOK /\ OnePlace
  BY Zenon DEF IInv
<1>1. /\ on' = on /\ sp' = sp /\ alive' = alive /\ this' = this
      /\ pc[c] = "down_dec" /\ pc'[c] = "down_unlock"
  BY <1>0, Zenon DEF DownPass, Goto, tcbs, TypeOK
<1>2. on[c] \in alive
  BY <1>0, <1>1, InCritical, Zenon DEF OnePlace, Mine, Pointers
<1>3. Blocked(s)' = Blocked(s)
  BY <1>1, BlockedSame, Zenon DEF DownPass, DownBlock, UpInc
<1>4. ASSUME NEW t PROVE Let(t, s)' <=> Let(t, s) \/ (s = r /\ t = on[c])
  <2>1. AtDown(t, s)' <=> AtDown(t, s) \/ (s = r /\ t = on[c])
    BY <1>1, OthersAtDown, Zenon DEF AtDown
  <2> QED BY <1>1, <1>2, <1>3, <2>1, Zenon DEF Let, Off, InDown
<1>5. \A t : (t \in Granted(s))' <=> t \in Granted(s) \/ (s = r /\ t = on[c])
  BY <1>4, GrantedIs, Zenon
<1> QED BY <1>5, Zenon

(* ... which is through when down() returns, ... *)
LEMMA GrantedReturn ==
  ASSUME IInv, CountInv, NEW c \in Cores, Step(c), DownUnlock(c) \/ DownReturn(c),
         NEW r \in Sems, r = this[c], NEW s \in Sems
  PROVE  /\ Granted(s)' = IF s = r THEN Granted(s) \ {on[c]} ELSE Granted(s)
         /\ on[c] \in Granted(r) /\ on[c] \in Threads
<1>0. TypeOK /\ OnePlace /\ Control(c)
  BY Zenon DEF IInv, ControlOK
<1>1. /\ on' = on /\ sp' = sp /\ alive' = alive
      /\ pc[c] \in {"down_unlock", "down_ret"} /\ pc'[c] = "user"
  BY <1>0, Zenon DEF DownUnlock, DownReturn, ReturnToUser, Goto, tcbs, TypeOK
<1>2. on[c] \in Threads /\ on[c] \in alive
  <2>1. on[c] \in Threads
    BY <1>0, <1>1, InSemaphore, Zenon DEF SemLabels, CriticalLabels
  <2> QED BY <1>0, <2>1, Zenon DEF OnePlace, Mine, Pointers
<1>3. Blocked(s)' = Blocked(s)
  BY <1>1, BlockedSame, Zenon DEF DownBlock, UpInc
<1>4. ASSUME NEW t PROVE Let(t, s)' <=> Let(t, s) /\ ~(s = r /\ t = on[c])
  <2>1. CASE t = on[c]
    <3>1. ~AtDown(t, s)'
      BY <1>1, <1>2, <2>1, OnOnce, OthersAtDown, Zenon DEF AtDown
    <3>2. AtDown(t, s) <=> s = r
      BY <1>1, <1>2, <2>1, OnOnce, Zenon DEF AtDown
    <3>3. ~Off(t) /\ ~Off(t)'
      BY <1>1, <2>1, Zenon DEF Off
    <3> QED BY <1>1, <2>1, <3>1, <3>2, <3>3, Zenon DEF Let
  <2>2. CASE t # on[c]
    <3>1. AtDown(t, s)' <=> AtDown(t, s)
      BY <1>1, <2>2, OthersAtDown, Zenon DEF AtDown
    <3> QED BY <1>1, <1>3, <2>2, <3>1, Zenon DEF Let, Off, InDown
  <2> QED BY <2>1, <2>2, Zenon
<1>5. \A t : (t \in Granted(s))' <=> t \in Granted(s) /\ ~(s = r /\ t = on[c])
  BY <1>4, GrantedIs, Zenon
<1>6. on[c] \in Granted(r)
  BY <1>1, <1>2, GrantedIs, Zenon DEF Let, AtDown
<1> QED BY <1>2, <1>5, <1>6, Zenon

(* ... and up() the thread that has waited longest.                        *)
LEMMA GrantedWake ==
  ASSUME IInv, CountInv, NEW c \in Cores, Step(c), UpInc(c), Calm(c), NEW r \in Sems, r = this[c], counter[r] < 0
  PROVE  /\ Granted(r)' = Granted(r) \cup {Head(Blocked(r))}
         /\ Head(Blocked(r)) \in Threads /\ Head(Blocked(r)) \notin Granted(r)
<1>0. q[r] \in Seq(Threads) /\ IsInjective(q[r]) /\ Range(q[r]) \subseteq alive
  BY Zenon DEF IInv, TypeOK, OnePlace
<1>1. Blocked(r) = q[r] /\ Blocked(r)' = Tail(q[r]) /\ q[r] # <<>>
  BY BlockedPops, Zenon
<1>2. PICK h : h = Head(q[r])
  BY Zenon
<1>3. /\ h \in Threads /\ Range(q[r]) = Range(Tail(q[r])) \cup {h}
      /\ h \notin Range(Tail(q[r]))
  BY <1>0, <1>1, <1>2, RangeTail, Zenon
<1>4. h \in alive /\ InDown(h, r) /\ Off(h)
  BY <1>0, <1>3, Zenon DEF IInv, FramesOK, QueuedIsSaved, Off
<1>5. ASSUME NEW t PROVE Let(t, r)' <=> Let(t, r) \/ t = h
  <2>1. /\ alive' = alive /\ (AtDown(t, r)' <=> AtDown(t, r))
        /\ (Off(t)' <=> Off(t)) /\ (InDown(t, r)' <=> InDown(t, r))
    BY LetCalm, Zenon
  <2>2. (t \in Range(Blocked(r)))' <=> t \in Range(Blocked(r)) /\ t # h
    BY <1>1, <1>3, Zenon
  <2> QED BY <1>4, <2>1, <2>2, Zenon DEF Let
<1>6. \A t : (t \in Granted(r))' <=> t \in Granted(r) \/ t = h
  BY <1>5, GrantedIs, Zenon
<1>7. h \notin Granted(r)
  <2>1. ~AtDown(h, r)
    BY <1>4, Zenon DEF AtDown, Off
  <2>2. h \in Range(Blocked(r))
    BY <1>1, <1>3, Zenon
  <2> QED BY <2>1, <2>2, GrantedIs, Zenon DEF Let
<1> QED BY <1>1, <1>2, <1>3, <1>6, <1>7, ZenonT(40)

(* A thread about to block finds nobody else on the way to q.              *)
LEMMA DownBlockQueue ==
  ASSUME IInv, CountInv, NEW c \in Cores, Step(c), DownBlock(c), NEW r \in Sems, r = this[c]
  PROVE  on[c] \in Threads /\ Blocked(r) = q[r]
<1>1. IInv' /\ CountInv'
  BY IInvStep, CountStep, Zenon
<1> QED BY <1>1, DownBlockEffect, BlockedHolder, Zenon

(* Who is about to return from down() is a thread, and in a semaphore.     *)
LEMMA AtReturn ==
  ASSUME IInv, NEW c \in Cores, pc[c] \in {"down_unlock", "down_ret"}
  PROVE  this[c] \in Sems /\ on[c] \in Threads
BY InSemaphore, Zenon DEF IInv, ControlOK, SemLabels, CriticalLabels

(* Nobody else is let through, and nobody's down() returns otherwise.      *)
LEMMA GrantedSame ==
  ASSUME IInv, CountInv, GoneInv, NEW c \in Cores, Step(c), NEW s \in Sems,
         ~(DownPass(c) /\ s = this[c]), ~((DownUnlock(c) \/ DownReturn(c)) /\ s = this[c]),
         ~(UpInc(c) /\ s = this[c] /\ counter[s] < 0)
  PROVE  Granted(s)' = Granted(s)
<1>0. TypeOK /\ pc'[c] # "panic"
  BY CountStep, Zenon DEF IInv, CountInv, NoPanic
<1>1. CASE Calm(c)
  <2>1. ASSUME NEW t PROVE Let(t, s)' <=> Let(t, s)
    <3>1. /\ alive' = alive /\ (AtDown(t, s)' <=> AtDown(t, s))
          /\ (Off(t)' <=> Off(t)) /\ (InDown(t, s)' <=> InDown(t, s))
      BY <1>1, LetCalm, Zenon
    <3>2. CASE DownBlock(c) /\ s = this[c]
      <4>1. Blocked(s)' = Append(Blocked(s), on[c])
        BY <3>2, BlockedAppends, Zenon
      <4>2. on[c] \in Threads /\ Blocked(s) = q[s] /\ q[s] \in Seq(Threads)
        <5>1. q[s] \in Seq(Threads)
          BY <1>0, Zenon DEF TypeOK
        <5> QED BY <3>2, <5>1, DownBlockQueue, Zenon
      <4>3. Range(Append(Blocked(s), on[c])) = Range(Blocked(s)) \cup {on[c]}
        BY <4>2, RangeAppend
      <4>4. Off(t) => ((t \in Range(Blocked(s)))' <=> t \in Range(Blocked(s)))
        BY <4>1, <4>3, Zenon DEF Off
      <4> QED BY <3>1, <4>4, Zenon DEF Let
    <3>3. CASE ~(DownBlock(c) /\ s = this[c])
      <4>1. Blocked(s)' = Blocked(s)
        BY <3>3, BlockedSame, Zenon
      <4> QED BY <3>1, <4>1, Zenon DEF Let
    <3> QED BY <3>2, <3>3, ZenonT(40)
  <2> QED BY <2>1, GrantedKept, Zenon
<1>2. CASE SwitchSave(c)
  BY <1>2, LetSave, GrantedKept, Zenon
<1>3. CASE SwitchLoad(c)
  BY <1>3, LetLoad, GrantedKept, Zenon
<1>4. CASE GoMake(c)
  BY <1>4, LetMake, GrantedKept, Zenon
<1>5. CASE IdleDelete(c)
  BY <1>5, LetDelete, GrantedKept, Zenon
<1>6. CASE DownPass(c)
  <2>1. PICK r \in Sems : r = this[c]
    BY <1>6, InCritical, Zenon DEF DownPass
  <2> QED BY <1>6, <2>1, GrantedPass, Zenon
<1>7. CASE DownUnlock(c) \/ DownReturn(c)
  <2>1. PICK r \in Sems : r = this[c]
    BY <1>7, AtReturn, Zenon DEF DownUnlock, DownReturn
  <2> QED BY <1>7, <2>1, GrantedReturn, Zenon
<1> QED BY <1>0, <1>1, <1>2, <1>3, <1>4, <1>5, <1>6, <1>7, CalmSteps, Zenon

(* A thread at down()'s or up()'s access to counter is in no other down(). *)
LEMMA OutsideDown ==
  ASSUME IInv, CountInv, NEW c \in Cores, pc[c] \in {"down_dec", "up_inc"}, NEW s \in Sems
  PROVE  on[c] \notin Granted(s) \cup Range(Blocked(s))
<1>1. on[c] \in Threads /\ on[c] \in Pointers(c) /\ to_queue[c] = NULL
  <2>1. this[c] \in Sems /\ on[c] \in Threads /\ NoSlots(c)
    BY InSemaphore, Zenon DEF IInv, ControlOK, SemLabels, CriticalLabels
  <2> QED BY <2>1, Zenon DEF Pointers, NoSlots, NoWait
<1>2. on[c] \notin Range(Blocked(s))
  BY <1>1, RunningNotBlocked, Zenon
<1>3. ~AtDown(on[c], s) /\ ~Off(on[c])
  BY <1>1, OnOnce, Zenon DEF AtDown, Off
<1>4. on[c] \notin Granted(s)
  BY <1>3, GrantedIs, Zenon DEF Let
<1> QED BY <1>2, <1>4, Zenon

(* Nothing depends on a step that changes nothing.                         *)
LEMMA StutterKeeps ==
  ASSUME IInv, CountInv, UNCHANGED vars
  PROVE  IInv' /\ CountInv'
<1>1. IInv'
  BY IInvStutter, Zenon
<1>2. CountInv'
  <2> USE DEF vars, regs, percore, sems
  <2>1. NoPanic'
    BY Zenon DEF CountInv, NoPanic
  <2>2. ASSUME NEW s \in Sems PROVE Counted(s)'
    <3>1. \A d \in Cores : (Blocking(d, s)' <=> Blocking(d, s)) /\ (Popping(d, s)' <=> Popping(d, s))
      BY Zenon DEF Blocking, Popping, Waiting
    <3> QED BY <3>1, CountSame, Zenon DEF CountInv
  <2> QED BY <2>1, <2>2, Zenon DEF CountInv
<1> QED BY <1>1, <1>2, Zenon

(* What a step of the kernel is, seen as operations on semaphores: each    *)
(* takes effect when counter is counted down or up, or when down() returns.*)
LEMMA StaysSame ==
  ASSUME IInv, CountInv, UNCHANGED vars, NEW s \in Sems
  PROVE  Blocked(s)' = Blocked(s) /\ Granted(s)' = Granted(s) /\ counter' = counter
<1> USE DEF vars, regs, percore, tcbs, sems
<1>1. IInv' /\ CountInv'
  BY StutterKeeps, Zenon
<1>2. \A d \in Cores : /\ Blocking(d, s)' <=> Blocking(d, s)
                       /\ Popping(d, s)' <=> Popping(d, s)
                       /\ Blocking(d, s) => to_queue'[d] = to_queue[d]
  BY Zenon DEF Blocking, Popping, Waiting
<1>3. Blocked(s)' = Blocked(s)
  BY <1>1, <1>2, BlockedFixed, Zenon
<1>4. \A t : Let(t, s)' <=> Let(t, s)
  BY <1>3, Zenon DEF Let, AtDown, Off, InDown
<1> QED BY <1>3, <1>4, GrantedKept, Zenon

(* The state of SemaphoreSpec, and how to update one semaphore of it.      *)
Value(s) == IF counter[s] > 0 THEN counter[s] ELSE 0
Values == [s \in Sems |-> Value(s)]
Waitings == [s \in Sems |-> Blocked(s)]
Grants == [s \in Sems |-> Granted(s)]

(* One value changes, ...                                                  *)
LEMMA ValuesChange ==
  ASSUME NEW r \in Sems, NEW v, \A s \in Sems : Value(s)' = IF s = r THEN v ELSE Value(s)
  PROVE  Values' = [Values EXCEPT ![r] = v]
<1> PICK f, g : f = Values /\ g = Values'
  BY Zenon
<1>1. g = [f EXCEPT ![r] = v]
  BY Zenon DEF Values
<1> QED BY <1>1, Zenon

(* ... one queue of waiters, ...                                           *)
LEMMA WaitingsChange ==
  ASSUME NEW r \in Sems, NEW v, \A s \in Sems : Blocked(s)' = IF s = r THEN v ELSE Blocked(s)
  PROVE  Waitings' = [Waitings EXCEPT ![r] = v]
<1> PICK f, g : f = Waitings /\ g = Waitings'
  OBVIOUS
<1>1. g = [f EXCEPT ![r] = v]
  BY Zenon DEF Waitings
<1> QED BY <1>1, Zenon

(* ... one set of threads let through, ...                                 *)
LEMMA GrantsChange ==
  ASSUME NEW r \in Sems, NEW v, \A s \in Sems : Granted(s)' = IF s = r THEN v ELSE Granted(s)
  PROVE  Grants' = [Grants EXCEPT ![r] = v]
<1> PICK f, g : f = Grants /\ g = Grants'
  OBVIOUS
<1>1. g = [f EXCEPT ![r] = v]
  BY Zenon DEF Grants
<1> QED BY <1>1, Zenon

(* ... or none of them.                                                    *)
LEMMA NoChange ==
  /\ (\A s \in Sems : Value(s)' = Value(s)) => Values' = Values
  /\ (\A s \in Sems : Blocked(s)' = Blocked(s)) => Waitings' = Waitings
  /\ (\A s \in Sems : Granted(s)' = Granted(s)) => Grants' = Grants
BY Zenon DEF Values, Waitings, Grants

(* A thread in no down() of the kernel is in none of SemaphoreSpec.        *)
LEMMA AbstractOutside ==
  ASSUME NEW t, \A s \in Sems : t \notin Granted(s) \cup Range(Blocked(s))
  PROVE  Abstract!Outside(t)
<1>1. \A s \in Sems : Abstract!Range(Blocked(s)) = Range(Blocked(s))
  BY Zenon DEF Abstract!Range, Range
<1> QED BY <1>1, Zenon DEF Abstract!Outside

(* `if (--counter < 0)`, not taken: SemaphoreSpec's DownPass.              *)
LEMMA DownPassRefines ==
  ASSUME IInv, CountInv, GoneInv, NEW c \in Cores, Step(c), DownPass(c)
  PROVE  Abstract!Next
<1>1. PICK r \in Sems : r = this[c]
  BY InCritical, Zenon DEF DownPass
<1>2. PICK t \in Threads : t = on[c]
  BY InCritical, Zenon DEF DownPass
<1>3. \A s \in Sems : /\ Blocked(s)' = Blocked(s)
                      /\ Granted(s)' = IF s = r THEN Granted(r) \cup {t} ELSE Granted(s)
  <2>1. ~DownBlock(c) /\ ~UpInc(c)
    BY Zenon DEF DownPass, DownBlock, UpInc
  <2> QED BY <1>1, <1>2, <2>1, BlockedSame, GrantedPass, Zenon
<1>4. Abstract!Outside(t)
  BY <1>2, OutsideDown, AbstractOutside, ZenonT(40) DEF DownPass
<1>5. counter \in [Sems -> Int] /\ counter[r] > 0 /\ counter' = [counter EXCEPT ![r] = @ - 1]
  BY <1>1 DEF IInv, TypeOK, DownPass, MustBlock
<1>6. Value(r) > 0 /\ \A s \in Sems : Value(s)' = IF s = r THEN Value(r) - 1 ELSE Value(s)
  BY <1>5 DEF Value
<1>7. /\ Values' = [Values EXCEPT ![r] = Value(r) - 1]
      /\ Waitings' = Waitings
      /\ Grants' = [Grants EXCEPT ![r] = Granted(r) \cup {t}]
  BY <1>3, <1>6, ValuesChange, GrantsChange, NoChange, Zenon
<1>8. Abstract!DownPass(t, r)
  BY <1>4, <1>6, <1>7, Zenon DEF Abstract!DownPass, Values, Value, Waitings, Grants
<1> QED BY <1>8, Zenon DEF Abstract!Next

(* up()'s access to counter moves no thread.                               *)
LEMMA UpIncCalm ==
  ASSUME IInv, CountInv, NEW c \in Cores, Step(c), UpInc(c)
  PROVE  Calm(c)
BY Zenon DEF UpInc, Calm, Goto, IInv, TypeOK, tcbs

(* With no thread counted, none is blocked.                                *)
LEMMA UpIncNone ==
  ASSUME IInv, CountInv, NEW c \in Cores, Step(c), UpInc(c), NEW r \in Sems, r = this[c], Len(Blocked(r)) = 0
  PROVE  Blocked(r) = <<>>
<1>1. IInv' /\ CountInv'
  BY IInvStep, CountStep, Zenon
<1>2. Blocked(r) = q[r] /\ q[r] \in Seq(Threads)
  <2>1. q[r] \in Seq(Threads)
    BY Zenon DEF IInv, TypeOK
  <2> QED BY <1>1, <2>1, UpIncEffect, BlockedHolder, ZenonT(40)
<1> QED BY <1>2

(* counter is touched by one access of down() and one of up().             *)
LEMMA OnlyTheseCount ==
  ASSUME NEW c \in Cores, Step(c), ~DownPass(c), ~DownBlock(c), ~UpInc(c)
  PROVE  counter' = counter
<1>1. CASE SwitchSave(c) \/ SwitchLoad(c)
  BY <1>1, Zenon DEF SwitchSave, SwitchLoad, sems
<1>2. CASE Idle(c)
  BY <1>2, Zenon DEF Idle, IdleEnter, IdleNext, IdlePoll, IdleDelete, IdleEnqueue, IdleUnlock,
              IdleNoQueue, IdleReschedule, sems, vars
<1>3. CASE Thread(c)
  BY <1>3, ZenonT(40) DEF Thread, GoMake, GoSchedule, Yield, Stop, SemDown, SemUp, MutexLock, MutexUnlock, sems
<1>4. CASE DownLock(c) \/ DownUnlock(c) \/ DownReturn(c) \/ UpLock(c)
  BY <1>4, Zenon DEF DownLock, UpLock, Acquire, DownUnlock, DownReturn, sems
<1>5. CASE UpPop(c) \/ UpSchedule(c) \/ UpUnlock(c)
  BY <1>5, Zenon DEF UpPop, UpSchedule, UpUnlock, sems
<1> QED BY <1>1, <1>2, <1>3, <1>4, <1>5, ZenonT(40) DEF Step, Semaphore

(* `if (--counter < 0)`, taken: DownBlock.                                 *)
LEMMA DownBlockRefines ==
  ASSUME IInv, CountInv, GoneInv, NEW c \in Cores, Step(c), DownBlock(c)
  PROVE  Abstract!Next
<1>1. PICK r \in Sems : r = this[c]
  BY InCritical, ZenonT(40) DEF DownBlock
<1>2. PICK t \in Threads : t = on[c]
  BY InCritical, Zenon DEF DownBlock
<1>3. ~DownPass(c) /\ ~DownUnlock(c) /\ ~DownReturn(c) /\ ~UpInc(c)
  BY Zenon DEF DownPass, DownBlock, DownUnlock, DownReturn, UpInc
<1>4. \A s \in Sems : /\ Blocked(s)' = IF s = r THEN Append(Blocked(r), t) ELSE Blocked(s)
                      /\ Granted(s)' = Granted(s)
  BY <1>1, <1>2, <1>3, BlockedSame, BlockedAppends, GrantedSame, Zenon
<1>5. Abstract!Outside(t)
  BY <1>2, OutsideDown, AbstractOutside, ZenonT(40) DEF DownBlock
<1>6. counter \in [Sems -> Int] /\ counter[r] < 1 /\ counter' = [counter EXCEPT ![r] = @ - 1]
  BY <1>1 DEF IInv, TypeOK, DownBlock, MustBlock
<1>7. Value(r) = 0 /\ \A s \in Sems : Value(s)' = Value(s)
  BY <1>6 DEF Value
<1>8. /\ Values' = Values
      /\ Waitings' = [Waitings EXCEPT ![r] = Append(Blocked(r), t)]
      /\ Grants' = Grants
  BY <1>4, <1>7, WaitingsChange, NoChange, Zenon
<1>9. Abstract!DownBlock(t, r)
  BY <1>5, <1>7, <1>8, Zenon DEF Abstract!DownBlock, Values, Value, Waitings, Grants
<1> QED BY <1>9, Zenon DEF Abstract!Next

(* down() returns, whether it had blocked or not: DownReturn.              *)
LEMMA DownReturnRefines ==
  ASSUME IInv, CountInv, GoneInv, NEW c \in Cores, Step(c), DownUnlock(c) \/ DownReturn(c)
  PROVE  Abstract!Next
<1>0. pc[c] \in {"down_unlock", "down_ret"} /\ counter' = counter
  BY Zenon DEF DownUnlock, DownReturn, sems
<1>1. PICK r \in Sems : r = this[c]
  BY <1>0, AtReturn, Zenon
<1>2. PICK t \in Threads : t = on[c]
  BY <1>0, AtReturn, ZenonT(40)
<1>3. ~DownBlock(c) /\ ~UpInc(c)
  BY <1>0, Zenon DEF DownBlock, UpInc
<1>4. /\ t \in Granted(r)
      /\ \A s \in Sems : /\ Blocked(s)' = Blocked(s)
                         /\ Granted(s)' = IF s = r THEN Granted(r) \ {t} ELSE Granted(s)
  BY <1>1, <1>2, <1>3, BlockedSame, GrantedReturn, Zenon
<1>5. \A s \in Sems : Value(s)' = Value(s)
  BY <1>0, Zenon DEF Value
<1>6. /\ Values' = Values /\ Waitings' = Waitings
      /\ Grants' = [Grants EXCEPT ![r] = Granted(r) \ {t}]
  BY <1>4, <1>5, GrantsChange, NoChange, Zenon
<1>7. Abstract!DownReturn(t, r)
  BY <1>4, <1>6, Zenon DEF Abstract!DownReturn, Values, Value, Waitings, Grants
<1> QED BY <1>7, Zenon DEF Abstract!Next

(* `counter++ < 0`: UpWake, or UpFree when nobody waits.                   *)
LEMMA UpRefines ==
  ASSUME IInv, CountInv, GoneInv, NEW c \in Cores, Step(c), UpInc(c)
  PROVE  Abstract!Next
<1>1. PICK r \in Sems : r = this[c]
  BY InCritical, Zenon DEF UpInc
<1>2. ~DownBlock(c) /\ ~DownPass(c) /\ ~DownUnlock(c) /\ ~DownReturn(c)
  BY Zenon DEF DownPass, DownBlock, DownUnlock, DownReturn, UpInc
<1>3. counter \in [Sems -> Int] /\ counter' = [counter EXCEPT ![r] = @ + 1]
  BY <1>1, Zenon DEF IInv, TypeOK, UpInc
<1>4. Len(Blocked(r)) = Deficit(r)
  BY BlockedCounted, Zenon
<1>5. CASE counter[r] < 0
  <2>0. Calm(c)
    BY <1>2, UpIncCalm, Zenon
  <2>1. PICK h : h = Head(Blocked(r))
    BY Zenon
  <2>2. Blocked(r)' = Tail(Blocked(r)) /\ Blocked(r) # <<>> /\ Granted(r)' = Granted(r) \cup {h}
    BY <1>1, <1>5, <2>0, <2>1, BlockedPops, GrantedWake, Zenon
  <2>3. \A s \in Sems : /\ Blocked(s)' = IF s = r THEN Tail(Blocked(r)) ELSE Blocked(s)
                        /\ Granted(s)' = IF s = r THEN Granted(r) \cup {h} ELSE Granted(s)
    BY <1>1, <1>2, <2>2, BlockedSame, GrantedSame, Zenon
  <2>4. \A s \in Sems : Value(s)' = Value(s)
    BY <1>3, <1>5 DEF Value
  <2>5. /\ Values' = Values
        /\ Waitings' = [Waitings EXCEPT ![r] = Tail(Blocked(r))]
        /\ Grants' = [Grants EXCEPT ![r] = Granted(r) \cup {h}]
    BY <2>3, <2>4, WaitingsChange, GrantsChange, NoChange, Zenon
  <2>6. Abstract!UpWake(r)
    BY <2>1, <2>2, <2>5, Zenon DEF Abstract!UpWake, Values, Value, Waitings, Grants
  <2> QED BY <2>6, Zenon DEF Abstract!Next
<1>6. CASE ~(counter[r] < 0)
  <2>1. \A s \in Sems : Blocked(s)' = Blocked(s) /\ Granted(s)' = Granted(s)
    BY <1>1, <1>2, <1>6, BlockedSame, GrantedSame, Zenon
  <2>2. \A s \in Sems : Value(s)' = IF s = r THEN Value(r) + 1 ELSE Value(s)
    BY <1>3, <1>6 DEF Value
  <2>3. Blocked(r) = <<>>
    BY <1>1, <1>3, <1>4, <1>6, UpIncNone, Zenon DEF Deficit
  <2>4. Values' = [Values EXCEPT ![r] = Value(r) + 1] /\ Waitings' = Waitings /\ Grants' = Grants
    BY <2>1, <2>2, ValuesChange, NoChange, Zenon
  <2>5. Abstract!UpFree(r)
    BY <2>3, <2>4, Zenon DEF Abstract!UpFree, Values, Value, Waitings, Grants
  <2> QED BY <2>5, Zenon DEF Abstract!Next
<1> QED BY <1>5, <1>6, Zenon

(* Every other step is invisible to the callers.                           *)
LEMMA OtherStepsRefine ==
  ASSUME IInv, CountInv, GoneInv, NEW c \in Cores, Step(c),
         ~DownPass(c), ~DownBlock(c), ~DownUnlock(c), ~DownReturn(c), ~UpInc(c)
  PROVE  UNCHANGED Abstract!vars
<1>1. \A s \in Sems : Blocked(s)' = Blocked(s) /\ Granted(s)' = Granted(s)
  BY BlockedSame, GrantedSame, Zenon
<1>2. counter' = counter
  BY OnlyTheseCount, Zenon
<1>3. \A s \in Sems : Value(s)' = Value(s)
  BY <1>2, Zenon DEF Value
<1>4. Values' = Values /\ Waitings' = Waitings /\ Grants' = Grants
  BY <1>1, <1>3, NoChange, Zenon
<1> QED BY <1>4, Zenon DEF Abstract!vars, Values, Value, Waitings, Grants

-----------------------------------------------------------------------------
(* Mutual exclusion.  A thread owns a mutex from the moment lock() gets it *)
(* to the moment unlock() gives it back.                                   *)
Unlocking(t, m) == \E c \in Cores : on[c] = t /\ pc[c] \in {"up_lock", "up_inc"} /\ this[c] = m
Owns(t, m) == t \in Granted(m) \/ (t \in Threads /\ m \in held[t]) \/ Unlocking(t, m)

OneOwner(m) ==
  /\ \A t, u : Owns(t, m) /\ Owns(u, m) => t = u
  /\ counter[m] < 2
  /\ counter[m] = 1 => \A t : ~Owns(t, m)
  /\ \A t \in Threads : Unlocking(t, m) => m \notin held[t]

OwnerInv == \A m \in Mutexes : OneOwner(m)

(* At boot every mutex is free.                                            *)
LEMMA OwnerInit == Init => OwnerInv
<1> SUFFICES ASSUME Init, NEW m \in Mutexes PROVE OneOwner(m)
  BY Zenon DEF OwnerInv
<1>1. \A t : ~Owns(t, m) /\ ~Unlocking(t, m)
  BY Zenon DEF Init, Owns, Unlocking, Granted
<1>2. counter[m] = 1
  BY KernelAssumption, Zenon DEF Init
<1> QED BY <1>1, <1>2 DEF OneOwner

(* What a step may do to the threads' mutexes.                             *)
HeldAfter(c) ==
  \/ held' = held
  \/ MutexUnlock(c)
  \/ (DownUnlock(c) \/ DownReturn(c)) /\ this[c] \in Mutexes

(* A step changes them only in unlock() or at the end of lock().           *)
LEMMA HeldSteps ==
  ASSUME NEW c \in Cores, Step(c)
  PROVE  HeldAfter(c)
<1> USE DEF HeldAfter
<1>1. CASE SwitchSave(c) \/ SwitchLoad(c)
  BY <1>1, Zenon DEF SwitchSave, SwitchLoad, client
<1>2. CASE Idle(c)
  BY <1>2, Zenon DEF Idle, IdleEnter, IdleNext, IdlePoll, IdleDelete, IdleEnqueue, IdleUnlock,
              IdleNoQueue, IdleReschedule, client, vars
<1>3. CASE Thread(c)
  BY <1>3, Zenon DEF Thread, GoMake, GoSchedule, Yield, Stop, SemDown, SemUp, MutexLock, client
<1>4. CASE DownLock(c) \/ UpLock(c) \/ DownBlock(c) \/ DownPass(c)
  BY <1>4, Zenon DEF DownLock, UpLock, Acquire, DownBlock, DownPass, client
<1>5. CASE UpInc(c) \/ UpPop(c) \/ UpSchedule(c) \/ UpUnlock(c)
  BY <1>5, Zenon DEF UpInc, UpPop, UpSchedule, UpUnlock, client
<1>6. CASE DownUnlock(c) \/ DownReturn(c)
  BY <1>6, Zenon DEF DownUnlock, DownReturn, Locked
<1> QED BY <1>1, <1>2, <1>3, <1>4, <1>5, <1>6, Zenon DEF Step, Semaphore

(* ... and how a core gets to be in unlock().                              *)
LEMMA UnlockSteps ==
  ASSUME IInv, NEW c \in Cores, Step(c), pc'[c] \in {"up_lock", "up_inc"}, NEW m \in Mutexes, this'[c] = m
  PROVE  /\ on'[c] = on[c]
         /\ \/ MutexUnlock(c)
            \/ UpLock(c) /\ pc[c] = "up_lock" /\ this[c] = m /\ held' = held
<1>0. TypeOK /\ Control(c) /\ HeldFrames(c)
  BY Zenon DEF IInv, ControlOK, FramesOK
<1>1. CASE SwitchSave(c)
  BY <1>0, <1>1, Zenon DEF SwitchSave, Goto, TypeOK
<1>2. CASE SwitchLoad(c)
  BY <1>0, <1>2, LoadTarget, Zenon
<1>3. CASE Idle(c)
  BY <1>0, <1>3, Zenon DEF Idle, IdleEnter, IdleNext, IdlePoll, IdleDelete, IdleEnqueue, IdleUnlock,
              IdleNoQueue, IdleReschedule, vars, regs, BeginSwitch, Goto, TypeOK
<1>4. CASE GoMake(c) \/ GoSchedule(c) \/ Yield(c) \/ Stop(c) \/ SemDown(c) \/ MutexLock(c)
  BY <1>0, <1>4, Zenon DEF GoMake, GoSchedule, Yield, Stop, SemDown, MutexLock, BeginSwitch, Goto, TypeOK
<1>5. CASE SemUp(c)
  BY <1>0, <1>5, Zenon DEF SemUp, TypeOK
<1>6. CASE MutexUnlock(c)
  BY <1>6, Zenon DEF MutexUnlock
<1>7. CASE UpLock(c)
  BY <1>7, Zenon DEF UpLock, Acquire, client
<1>8. CASE DownLock(c) \/ DownBlock(c) \/ DownPass(c) \/ DownUnlock(c) \/ DownReturn(c)
  BY <1>0, <1>8, Zenon DEF DownLock, Acquire, DownBlock, DownPass, DownUnlock, DownReturn, ReturnToUser,
              BeginSwitch, Goto, TypeOK
<1>9. CASE UpInc(c) \/ UpPop(c) \/ UpSchedule(c) \/ UpUnlock(c)
  BY <1>0, <1>9, Zenon DEF UpInc, UpPop, UpSchedule, UpUnlock, ReturnToUser, Goto, TypeOK
<1> QED BY <1>1, <1>2, <1>3, <1>4, <1>5, <1>6, <1>7, <1>8, <1>9, Zenon DEF Step, Thread, Semaphore

(* Nobody comes to own a mutex but in down()'s and up()'s accesses to its  *)
(* counter, and a thread that unlocks it no longer has it locked.          *)
LEMMA OwnersKept ==
  ASSUME IInv, CountInv, GoneInv, NEW c \in Cores, Step(c), NEW m \in Mutexes, OneOwner(m),
         ~(DownPass(c) /\ this[c] = m), ~(UpInc(c) /\ this[c] = m)
  PROVE  /\ \A t : Owns(t, m)' => Owns(t, m)
         /\ \A t \in Threads : Unlocking(t, m)' => m \notin held'[t]
<1>0. TypeOK /\ Control(c) /\ m \in Sems /\ held \in [Threads -> SUBSET Mutexes]
  BY KernelAssumption, Zenon DEF IInv, ControlOK, TypeOK
<1>1. ASSUME NEW t, Unlocking(t, m)'
      PROVE  Unlocking(t, m) \/ (MutexUnlock(c) /\ t = on[c] /\ this'[c] = m)
  <2>1. PICK d \in Cores : on'[d] = t /\ pc'[d] \in {"up_lock", "up_inc"} /\ this'[d] = m
    BY <1>1, Zenon DEF Unlocking
  <2>2. CASE d # c
    <3>1. on[d] = t /\ pc[d] \in {"up_lock", "up_inc"} /\ this[d] = m
      BY <2>1, <2>2, OthersAtDown, ZenonT(40)
    <3> QED BY <3>1, Zenon DEF Unlocking
  <2>3. CASE d = c
    <3>1. on'[c] = on[c] /\ (MutexUnlock(c) \/ (pc[c] = "up_lock" /\ this[c] = m))
      BY <2>1, <2>3, UnlockSteps, Zenon
    <3> QED BY <2>1, <2>3, <3>1, Zenon DEF Unlocking
  <2> QED BY <2>2, <2>3, Zenon
<1>2. ASSUME MutexUnlock(c)
      PROVE  /\ on[c] \in Threads
             /\ \E l \in held[on[c]] : /\ this'[c] = l
                                       /\ held' = [held EXCEPT ![on[c]] = @ \ {l}]
  <2>1. on[c] \in Threads
    BY <1>0, <1>2, Zenon DEF MutexUnlock, Control, ThreadLabels
  <2>2. PICK l \in held[on[c]] : /\ this' = [this EXCEPT ![c] = l]
                                  /\ held' = [held EXCEPT ![on[c]] = @ \ {l}]
    BY <1>2, Zenon DEF MutexUnlock
  <2>3. this'[c] = l
    BY <1>0, <2>2, Zenon DEF TypeOK
  <2> QED BY <2>1, <2>2, <2>3, Zenon
<1>3. ASSUME DownUnlock(c) \/ DownReturn(c), this[c] \in Mutexes
      PROVE  /\ on[c] \in Threads /\ on[c] \in Granted(this[c])
             /\ held' = [held EXCEPT ![on[c]] = @ \cup {this[c]}]
             /\ pc'[c] = "user"
  <2>1. PICK r \in Sems : r = this[c]
    BY <1>3, KernelAssumption, Zenon
  <2>2. on[c] \in Threads /\ on[c] \in Granted(r)
    BY <1>3, <2>1, GrantedReturn, ZenonT(40)
  <2>3. held' = [held EXCEPT ![on[c]] = @ \cup {this[c]}] /\ pc'[c] = "user"
    BY <1>0, <1>3, Zenon DEF DownUnlock, DownReturn, Locked, ReturnToUser, Goto, TypeOK
  <2> QED BY <2>1, <2>2, <2>3, Zenon
<1>4. ASSUME NEW t \in Threads, m \in held'[t], m \notin held[t]
      PROVE  (DownUnlock(c) \/ DownReturn(c)) /\ this[c] = m /\ t = on[c]
  <2>1. ~MutexUnlock(c)
    BY <1>0, <1>2, <1>4, Zenon
  <2>2. (DownUnlock(c) \/ DownReturn(c)) /\ this[c] \in Mutexes
    BY <1>4, <2>1, HeldSteps, Zenon DEF HeldAfter
  <2> QED BY <1>0, <1>3, <1>4, <2>2, Zenon
<1>5. \A t : (t \in Granted(m))' => t \in Granted(m)
  <2>1. CASE (DownUnlock(c) \/ DownReturn(c)) /\ this[c] = m
    <3>1. Granted(m)' = Granted(m) \ {on[c]}
      BY <1>0, <2>1, GrantedReturn, Zenon
    <3> QED BY <3>1, Zenon
  <2>2. CASE ~((DownUnlock(c) \/ DownReturn(c)) /\ this[c] = m)
    <3>1. Granted(m)' = Granted(m)
      BY <1>0, <2>2, GrantedSame, Zenon
    <3> QED BY <3>1, Zenon
  <2> QED BY <2>1, <2>2, Zenon
<1>6. ASSUME NEW t, Owns(t, m)' PROVE Owns(t, m)
  <2>1. CASE (t \in Granted(m))'
    BY <1>5, <2>1, Zenon DEF Owns
  <2>2. CASE t \in Threads /\ m \in held'[t]
    BY <1>3, <1>4, <2>2, Zenon DEF Owns
  <2>3. CASE Unlocking(t, m)'
    BY <1>1, <1>2, <2>3, Zenon DEF Owns
  <2> QED BY <1>6, <2>1, <2>2, <2>3, Zenon DEF Owns
<1>7. ASSUME NEW t \in Threads, Unlocking(t, m)' PROVE m \notin held'[t]
  <2>1. CASE MutexUnlock(c) /\ t = on[c] /\ this'[c] = m
    BY <1>0, <1>2, <2>1, Zenon
  <2>2. CASE Unlocking(t, m)
    <3>1. m \notin held[t]
      BY <2>2, Zenon DEF OneOwner
    <3>2. CASE m \in held'[t]
      <4>1. t = on[c] /\ (DownUnlock(c) \/ DownReturn(c)) /\ this[c] = m
        BY <1>4, <3>1, <3>2, Zenon
      <4>2. pc'[c] = "user" /\ on[c] \in Threads /\ pc[c] \in {"down_unlock", "down_ret"}
        BY <1>3, <4>1, Zenon DEF DownUnlock, DownReturn
      <4>3. PICK d \in Cores : on[d] = t /\ pc[d] \in {"up_lock", "up_inc"}
        BY <2>2, Zenon DEF Unlocking
      <4> QED BY <4>1, <4>2, <4>3, OnOnce, ZenonT(40)
    <3> QED BY <3>2, Zenon
  <2> QED BY <1>1, <1>7, <2>1, <2>2, Zenon
<1> QED BY <1>6, <1>7, ZenonT(40)

(* A counter of a mutex that is taken. *)
LEMMA BelowOne ==
  ASSUME NEW n \in Int, n < 2, n # 1
  PROVE  n < 1
OBVIOUS

(* Each step keeps the owners apart.                                       *)
LEMMA OwnerStep ==
  ASSUME IInv, CountInv, GoneInv, OwnerInv, NEW c \in Cores, Step(c)
  PROVE  OwnerInv'
<1> SUFFICES ASSUME NEW m \in Mutexes PROVE OneOwner(m)'
  BY Zenon DEF OwnerInv
<1>0. m \in Sems /\ counter \in [Sems -> Int] /\ OneOwner(m)
  BY KernelAssumption, ZenonT(40) DEF IInv, TypeOK, OwnerInv
<1>1. CASE DownPass(c) /\ this[c] = m
  <2>1. counter[m] = 1 /\ counter'[m] = 0
    <3>1. ~(counter[m] - 1 < 0) /\ counter'[m] = counter[m] - 1 /\ counter[m] < 2 /\ counter[m] \in Int
      BY <1>0, <1>1, ZenonT(40) DEF DownPass, MustBlock, OneOwner
    <3> QED BY <3>1
  <2>2. Granted(m)' = Granted(m) \cup {on[c]}
    BY <1>0, <1>1, GrantedPass, Zenon
  <2>3. \A t : ~Owns(t, m)
    BY <1>0, <2>1, Zenon DEF OneOwner
  <2>4. held' = held /\ pc'[c] = "down_unlock"
    BY <1>1, Zenon DEF DownPass, client, Goto, IInv, TypeOK
  <2>5. ASSUME NEW t PROVE ~Unlocking(t, m)'
    <3>1. ~Unlocking(t, m)
      BY <2>3, Zenon DEF Owns
    <3> QED BY <2>4, <3>1, OthersAtDown, Zenon DEF Unlocking
  <2>6. ASSUME NEW t, Owns(t, m)' PROVE t = on[c]
    <3>1. t \notin Granted(m) /\ ~(t \in Threads /\ m \in held[t])
      BY <2>3, Zenon DEF Owns
    <3>2. (t \in Granted(m))'
      BY <2>4, <2>5, <2>6, <3>1, Zenon DEF Owns
    <3> QED BY <2>2, <3>1, <3>2, Zenon
  <2>7. counter'[m] < 2 /\ counter'[m] # 1
    BY <2>1
  <2> QED BY <2>5, <2>6, <2>7, ZenonT(40) DEF OneOwner
<1>2. CASE UpInc(c) /\ this[c] = m
  <2>1. pc[c] = "up_inc" /\ Unlocking(on[c], m) /\ Owns(on[c], m) /\ on[c] \in Threads
    <3>1. pc[c] = "up_inc"
      BY <1>2, Zenon DEF UpInc
    <3> QED BY <1>2, <3>1, InCritical, Zenon DEF Unlocking, Owns
  <2>2. counter[m] < 1 /\ counter'[m] = counter[m] + 1
    <3>1. counter' = [counter EXCEPT ![m] = @ + 1]
      BY <1>2, ZenonT(40) DEF UpInc
    <3>2. counter'[m] = counter[m] + 1
      BY <1>0, <3>1, ZenonT(40)
    <3>3. counter[m] # 1 /\ counter[m] < 2
      BY <1>0, <2>1, ZenonT(40) DEF OneOwner
    <3> QED BY <1>0, <3>2, <3>3, BelowOne, ZenonT(40)
  <2>3. held' = held /\ pc'[c] \notin {"up_lock", "up_inc"} /\ on' = on
    BY <1>2, Zenon DEF UpInc, client, Goto, IInv, TypeOK
  <2>4. ASSUME NEW t PROVE ~Unlocking(t, m)'
    <3>1. SUFFICES ASSUME NEW d \in Cores, d # c, on[d] = t, pc[d] \in {"up_lock", "up_inc"}, this[d] = m
                   PROVE  FALSE
      BY <2>3, OthersAtDown, Zenon DEF Unlocking
    <3>2. Owns(t, m)
      BY <3>1, Zenon DEF Owns, Unlocking
    <3>3. t = on[c]
      BY <1>0, <2>1, <3>2, Zenon DEF OneOwner
    <3> QED BY <2>1, <3>1, <3>3, OnOnce, Zenon
  <2>5. \A t : t \notin Granted(m) /\ ~(t \in Threads /\ m \in held[t])
    <3>1. on[c] \notin Granted(m) /\ m \notin held[on[c]]
      BY <1>0, <2>1, OutsideDown, Zenon DEF OneOwner
    <3> QED BY <1>0, <2>1, <3>1, Zenon DEF OneOwner, Owns
  <2>6. \A t : Owns(t, m)' <=> (t \in Granted(m))'
    BY <2>3, <2>4, <2>5, Zenon DEF Owns
  <2>7. CASE counter[m] < 0
    <3>1. PICK h : h = Head(Blocked(m))
      BY Zenon
    <3>2. Granted(m)' = Granted(m) \cup {h}
      BY <1>0, <1>2, <2>7, <3>1, UpIncCalm, GrantedWake, Zenon
    <3>3. \A t : Owns(t, m)' => t = h
      BY <2>5, <2>6, <3>2, Zenon
    <3>4. counter'[m] < 2 /\ counter'[m] # 1
      BY <1>0, <2>2, <2>7
    <3> QED BY <2>4, <3>3, <3>4, Zenon DEF OneOwner
  <2>8. CASE ~(counter[m] < 0)
    <3>1. Granted(m)' = Granted(m)
      <4>1. ~DownPass(c) /\ ~DownUnlock(c) /\ ~DownReturn(c)
        BY <2>1, Zenon DEF DownPass, DownUnlock, DownReturn
      <4> QED BY <1>0, <2>8, <4>1, GrantedSame, Zenon
    <3>2. \A t : ~Owns(t, m)'
      BY <2>5, <2>6, <3>1, Zenon
    <3>3. counter'[m] = 1
      BY <1>0, <2>2, <2>8
    <3> QED BY <2>4, <3>2, <3>3 DEF OneOwner
  <2> QED BY <2>7, <2>8, Zenon
<1>3. CASE ~(DownPass(c) /\ this[c] = m) /\ ~(UpInc(c) /\ this[c] = m)
  <2>1. counter'[m] \in Int /\ counter'[m] <= counter[m]
    <3>1. CASE DownBlock(c) \/ DownPass(c) \/ UpInc(c)
      <4>1. \/ counter' = [counter EXCEPT ![this[c]] = @ - 1]
            \/ counter' = [counter EXCEPT ![this[c]] = @ + 1] /\ this[c] # m
        BY <1>3, <3>1, Zenon DEF DownBlock, DownPass, UpInc
      <4> QED BY <1>0, <4>1
    <3>2. CASE ~(DownBlock(c) \/ DownPass(c) \/ UpInc(c))
      BY <1>0, <3>2, OnlyTheseCount
    <3> QED BY <3>1, <3>2, Zenon
  <2>2. /\ \A t : Owns(t, m)' => Owns(t, m)
        /\ \A t \in Threads : Unlocking(t, m)' => m \notin held'[t]
    BY <1>0, <1>3, OwnersKept, Zenon
  <2>3. counter'[m] < 2 /\ (counter'[m] = 1 => counter[m] = 1)
    BY <1>0, <2>1 DEF OneOwner
  <2> QED BY <1>0, <2>2, <2>3, Zenon DEF OneOwner
<1> QED BY <1>1, <1>2, <1>3, Zenon

-----------------------------------------------------------------------------
(* The theorems.                                                           *)

(* The count is kept for ever. *)
THEOREM Counting == Spec => []CountInv
<1>1. IInv /\ CountInv /\ [Next]_vars => CountInv'
  <2> SUFFICES ASSUME IInv, CountInv, [Next]_vars PROVE CountInv'
    BY Zenon
  <2>1. CASE UNCHANGED vars
    BY <2>1, StutterKeeps, Zenon
  <2> QED BY <2>1, CountStep, Zenon DEF Next
<1> QED BY <1>1, CountInit, Invariance, PTL DEF Spec

(* No assertion of the thread layer ever fails: up() always finds the      *)
(* thread it decided to wake, idle_loop() always knows which semaphore to  *)
(* queue on, and no core resumes a stopped or freed thread.                *)
THEOREM NoAssertionFails == Spec => []NoPanic
BY Counting, PTL DEF CountInv

(* semaphore.hpp's promise about `counter`, at every moment and for every  *)
(* number of cores and threads.                                            *)
THEOREM CounterIsRight == Spec => []CounterCountsBlocked
<1>1. IInv /\ CountInv => CounterCountsBlocked
  BY BlockedCounted, Zenon DEF CountInv, CounterCountsBlocked, Deficit
<1> QED BY <1>1, Invariance, Counting, PTL

(* A thread that is about to be freed is in no down(). *)
THEOREM StoppedNotInDown == Spec => []GoneInv
<1>1. IInv /\ CountInv /\ GoneInv /\ [Next]_vars => GoneInv'
  <2> SUFFICES ASSUME IInv, CountInv, GoneInv, [Next]_vars PROVE GoneInv'
    BY Zenon
  <2>1. CASE UNCHANGED vars
    BY <2>1, Zenon DEF vars, regs, percore, tcbs, GoneInv, Gone, InDown
  <2> QED BY <2>1, GoneStep, Zenon DEF Next
<1> QED BY <1>1, GoneInit, Invariance, Counting, PTL DEF Spec

(* down() and up(), spread over two stacks and a dozen steps, are counting *)
(* semaphores with first-come-first-served waiters: every behaviour of the *)
(* kernel is one of SemaphoreSpec.                                         *)
THEOREM SemaphoresImplemented == Spec => ImplementsSemaphores
<1>1. Init => Abstract!Init
  <2> SUFFICES ASSUME Init PROVE Abstract!Init
    BY Zenon
  <2>1. \A s \in Sems : Blocked(s) = <<>> /\ Granted(s) = {} /\ Value(s) = InitCount[s]
    <3>1. ASSUME NEW s \in Sems PROVE Blocked(s) = <<>> \o <<>>
      BY KernelAssumption, Zenon DEF Init, Blocked, Blocking, Popping, Waiting
    <3> QED BY <3>1, KernelAssumption DEF Init, Granted, Value
  <2> QED BY <2>1, KernelAssumption, Zenon DEF Init, Abstract!Init, Value
<1>2. IInv /\ CountInv /\ GoneInv /\ [Next]_vars => [Abstract!Next]_(Abstract!vars)
  <2> SUFFICES ASSUME IInv, CountInv, GoneInv, [Next]_vars PROVE [Abstract!Next]_(Abstract!vars)
    BY Zenon
  <2>1. CASE UNCHANGED vars
    <3>1. \A s \in Sems : Blocked(s)' = Blocked(s) /\ Granted(s)' = Granted(s) /\ counter' = counter
      BY <2>1, StaysSame, Zenon
    <3>2. Values' = Values /\ Waitings' = Waitings /\ Grants' = Grants
      BY <3>1, NoChange, Zenon DEF Value
    <3> QED BY <3>2, Zenon DEF Abstract!vars, Values, Value, Waitings, Grants
  <2>2. ASSUME NEW c \in Cores, Step(c) PROVE [Abstract!Next]_(Abstract!vars)
    BY <2>2, DownPassRefines, DownBlockRefines, DownReturnRefines, UpRefines, OtherStepsRefine, Zenon
  <2> QED BY <2>1, <2>2, Zenon DEF Next
<1> QED BY <1>1, <1>2, Invariance, Counting, StoppedNotInDown, PTL DEF Spec, ImplementsSemaphores, Abstract!Spec

(* Mutex gives mutual exclusion: at most one thread is between its lock()  *)
(* and its unlock().                                                       *)
THEOREM MutualExclusion == Spec => []MutexExclusive
<1>1. IInv /\ CountInv /\ GoneInv /\ OwnerInv /\ [Next]_vars => OwnerInv'
  <2> SUFFICES ASSUME IInv, CountInv, GoneInv, OwnerInv, [Next]_vars PROVE OwnerInv'
    BY Zenon
  <2>1. CASE UNCHANGED vars
    <3>1. ASSUME NEW m \in Mutexes PROVE OneOwner(m)'
      <4>1. Granted(m)' = Granted(m)
        BY <2>1, StaysSame, KernelAssumption, Zenon
      <4>2. \A t : (Owns(t, m)' <=> Owns(t, m)) /\ (Unlocking(t, m)' <=> Unlocking(t, m))
        BY <2>1, <4>1, Zenon DEF Owns, Unlocking, vars, regs, client
      <4> QED BY <2>1, <4>2, Zenon DEF OwnerInv, OneOwner, vars, sems, client
    <3> QED BY <3>1, Zenon DEF OwnerInv
  <2> QED BY <2>1, OwnerStep, Zenon DEF Next
<1>2. OwnerInv => MutexExclusive
  BY Zenon DEF OwnerInv, OneOwner, Owns, MutexExclusive
<1> QED BY <1>1, <1>2, OwnerInit, Invariance, Counting, StoppedNotInDown, PTL DEF Spec
=============================================================================
