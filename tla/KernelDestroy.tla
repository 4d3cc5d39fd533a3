--------------------------- MODULE KernelDestroy ---------------------------
(***************************************************************************)
(* The kernel's threads when one of them also destroys a semaphore.  Once  *)
(* one is destroyed nothing else is of interest, so everything stops.      *)
(***************************************************************************)
EXTENDS Kernel

VARIABLE destroyed   \* the semaphores whose destructor has run

DestroyInit == Init /\ destroyed = {}

(* ~Semaphore(): ASSERT(q.empty()).                                        *)
Destroy(c) ==
  /\ pc[c] = "user"
  /\ \E s \in Sems \ Mutexes :
       IF q[s] = <<>>
       THEN destroyed' = {s} /\ UNCHANGED pc
       ELSE Goto(c, "panic") /\ UNCHANGED destroyed
  /\ UNCHANGED <<this, on, tmp, percore, ready, tcbs, sems, client>>

DestroyNext ==
  /\ destroyed = {}
  /\ \/ Next /\ UNCHANGED destroyed
     \/ \E c \in Cores : Destroy(c)

DestroySpec == DestroyInit /\ [][DestroyNext]_<<vars, destroyed>>

(* "Asserts no thread is blocked in down()", says semaphore.hpp of the     *)
(* destructor: where it gets past the assertion none is.                   *)
DestroyedWhenNoneBlocked == \A s \in destroyed : Blocked(s) = <<>>
=============================================================================
