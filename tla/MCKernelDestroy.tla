-------------------------- MODULE MCKernelDestroy --------------------------
(* KernelDestroy for TLC: two cores, two threads, one semaphore of 0.      *)
EXTENDS KernelDestroy

CONSTANTS c1, c2, t1, t2, s1

MCCores == {c1, c2}
MCThreads == {t1, t2}
MCSems == {s1}
MCCount == [s \in MCSems |-> 0]
=============================================================================
