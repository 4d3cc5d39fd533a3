---------------------------- MODULE MCDiskReader ----------------------------
(* DiskReader for TLC: indices and sector numbers of two bits: the indices *)
(* wrap in the course of two reads.                                        *)
EXTENDS DiskReader

Good(low, high) ==
  [magic |-> TRUE, version |-> 2, device_id |-> 2, version_1 |-> TRUE, agrees |-> TRUE,
   queue_num_max |-> 8, config |-> <<low, high>>]

Disk == Good(1, 1)

(* What find_device() passes over, and what init_device() turns down.      *)
Others == <<[Disk EXCEPT !.magic = FALSE], [Disk EXCEPT !.version = 1], [Disk EXCEPT !.device_id = 1]>>

Bad == {[Disk EXCEPT !.version_1 = FALSE], [Disk EXCEPT !.agrees = FALSE], [Disk EXCEPT !.queue_num_max = 7]}

MCBuses == {Append(Others, Disk), Others} \cup {<<b, Disk>> : b \in Bad} \cup {<<Good(0, 0), Disk>>}

LateBuses == {<<Disk>>}
=============================================================================
