------------------------------- MODULE MCBoot -------------------------------
(* Boot for TLC: three cores, one of which may panic; sixteen addresses. *)
EXTENDS Boot

MCImages == {[physical_base |-> 3, virtual_base |-> 14]}
=============================================================================
