-------------------------------- MODULE Fifo --------------------------------
(***************************************************************************)
(* What spin_queue.hpp promises: a first-in-first-out queue that several   *)
(* cores can push() to, pop() from and look at with empty() at once, each  *)
(* call taking effect at one instant between its call and its return.      *)
(***************************************************************************)
EXTENDS Sequences

CONSTANTS Procs, Values, None, Empty, Filled

VARIABLES
  queue,   \* the values in it, oldest first
  ret      \* what the pop() or empty() of each core that is in one will return, or None

vars == <<queue, ret>>

Init == queue = <<>> /\ ret = [p \in Procs |-> None]

Push == \E v \in Values : queue' = Append(queue, v) /\ UNCHANGED ret

PopValue(p) ==
  /\ queue # <<>>
  /\ ret[p] = None
  /\ ret' = [ret EXCEPT ![p] = Head(queue)]
  /\ queue' = Tail(queue)

PopEmpty(p) ==
  /\ queue = <<>>
  /\ ret[p] = None
  /\ ret' = [ret EXCEPT ![p] = Empty]
  /\ UNCHANGED queue

Look(p) ==
  /\ ret[p] = None
  /\ ret' = [ret EXCEPT ![p] = IF queue = <<>> THEN Empty ELSE Filled]
  /\ UNCHANGED queue

Return(p) ==
  /\ ret[p] # None
  /\ ret' = [ret EXCEPT ![p] = None]
  /\ UNCHANGED queue

Next == Push \/ \E p \in Procs : PopValue(p) \/ PopEmpty(p) \/ Look(p) \/ Return(p)

Spec == Init /\ [][Next]_vars
=============================================================================
