---------------------------- MODULE ConsoleSpec ----------------------------
(***************************************************************************)
(* What console.hpp promises of print(): it is safe to call from several   *)
(* cores, and each call is atomic.  What a core prints by several calls    *)
(* comes out in the order of the calls, with whole calls of other cores in *)
(* between.                                                                *)
(***************************************************************************)
EXTENDS Sequences

CONSTANTS
  Cores,
  Shown(_)   \* what the console shows of a string

VARIABLES
  calls,   \* the strings each core has yet to print
  out      \* the console's output

Init == calls = [c \in Cores |-> <<>>] /\ out = <<>>

(* A core has nothing left to print and goes on to code that prints again. *)
Call(c) ==
  /\ calls[c] = <<>>
  /\ calls' = [calls EXCEPT ![c] = calls'[c]]
  /\ UNCHANGED out

Write(c) ==
  /\ calls[c] # <<>>
  /\ out' = out \o Shown(Head(calls[c]))
  /\ calls' = [calls EXCEPT ![c] = Tail(@)]

Next == \E c \in Cores : Call(c) \/ Write(c)

Spec == Init /\ [][Next]_<<calls, out>>
=============================================================================
