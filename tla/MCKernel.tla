------------------------------ MODULE MCKernel ------------------------------
(* Kernel on small instances.                                              *)
EXTENDS Kernel, TLC

CONSTANTS c1, c2, t1, t2, t3, m1, s1

MCCores == {c1, c2}
MCThreads == {t1, t2, t3}
MCSems == {m1, s1}
MCMutexes == {m1}
MCCount == m1 :> 1 @@ s1 :> 0

MCTwoThreads == {t1, t2}

ThreadSymmetry == Permutations(MCThreads)

=============================================================================
