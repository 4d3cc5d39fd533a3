---------------------------- MODULE MCSpinQueue ----------------------------
(* SpinQueue for TLC: two cores, as many nodes as they can hold and one    *)
(* more.  No symmetry, since liveness is checked.                          *)
EXTENDS SpinQueue
=============================================================================
