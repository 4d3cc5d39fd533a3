---------------------------- MODULE SemaphoreSpec ----------------------------
(***************************************************************************)
(* What semaphore.hpp promises its callers: counting semaphores whose      *)
(* waiters are served first come, first served, and whose value is never   *)
(* given to one thread while an earlier one waits for it.                  *)
(***************************************************************************)
EXTENDS Integers, Sequences, Functions

CONSTANTS Threads, Sems, InitCount

VARIABLES
  value,    \* how many down()s of each semaphore would not block
  waiting,  \* the threads blocked in down(), oldest first
  granted   \* the threads let through, whose down() has yet to return

vars == <<value, waiting, granted>>

Init ==
  /\ value = InitCount
  /\ waiting = [s \in Sems |-> <<>>]
  /\ granted = [s \in Sems |-> {}]

(* A thread is inside at most one down(). *)
Outside(t) == \A s \in Sems : t \notin granted[s] \cup Range(waiting[s])

DownPass(t, s) ==
  /\ Outside(t)
  /\ value[s] > 0
  /\ value' = [value EXCEPT ![s] = @ - 1]
  /\ granted' = [granted EXCEPT ![s] = @ \cup {t}]
  /\ UNCHANGED waiting

DownBlock(t, s) ==
  /\ Outside(t)
  /\ value[s] = 0
  /\ waiting' = [waiting EXCEPT ![s] = Append(@, t)]
  /\ UNCHANGED <<value, granted>>

DownReturn(t, s) ==
  /\ t \in granted[s]
  /\ granted' = [granted EXCEPT ![s] = @ \ {t}]
  /\ UNCHANGED <<value, waiting>>

UpFree(s) ==
  /\ waiting[s] = <<>>
  /\ value' = [value EXCEPT ![s] = @ + 1]
  /\ UNCHANGED <<waiting, granted>>

UpWake(s) ==
  /\ waiting[s] # <<>>
  /\ granted' = [granted EXCEPT ![s] = @ \cup {Head(waiting[s])}]
  /\ waiting' = [waiting EXCEPT ![s] = Tail(@)]
  /\ UNCHANGED value

Next == \E s \in Sems :
  \/ UpFree(s)
  \/ UpWake(s)
  \/ \E t \in Threads : DownPass(t, s) \/ DownBlock(t, s) \/ DownReturn(t, s)

Spec == Init /\ [][Next]_vars
=============================================================================
