------------------------------- MODULE MCHeap -------------------------------
(* Heap for TLC: an arena of eight tags, and three sizes: no bytes, and    *)
(* what needs a block of three and of four tags.                           *)
EXTENDS Heap
=============================================================================
