------------------------------ MODULE Allocator ------------------------------
(***************************************************************************)
(* What heap.hpp promises its callers: malloc() gives a caller an aligned  *)
(* region of at least the bytes it asked for that no other caller owns,    *)
(* and what a caller keeps there stays until the caller changes it.        *)
(***************************************************************************)
EXTENDS Integers

CONSTANTS kArenaSize, kAlignment, Sizes

VARIABLES
  owned,    \* the regions handed out: [ptr, size]
  content   \* what each aligned address of those regions holds

vars == <<owned, content>>

(* The aligned addresses of the bytes [ptr, ptr + size).                   *)
Cells(x) == {a \in 0 .. kArenaSize - 1 : a % kAlignment = 0 /\ a >= x.ptr /\ a < x.ptr + x.size}

Init == owned = {} /\ content = <<>>

Malloc(x) ==
  /\ x.ptr % kAlignment = 0
  /\ x.ptr + x.size <= kArenaSize
  /\ \A y \in owned : x.ptr + x.size <= y.ptr \/ y.ptr + y.size <= x.ptr
  /\ owned' = owned \cup {x}
  /\ DOMAIN content' = DOMAIN content \cup Cells(x)
  /\ \A a \in DOMAIN content : content'[a] = content[a]

Write(x) ==
  /\ UNCHANGED owned
  /\ DOMAIN content' = DOMAIN content
  /\ \A a \in DOMAIN content \ Cells(x) : content'[a] = content[a]

Free(x) ==
  /\ owned' = owned \ {x}
  /\ content' = [a \in DOMAIN content \ Cells(x) |-> content[a]]

Next ==
  \/ \E x \in [ptr : 0 .. kArenaSize - 1, size : Sizes] : Malloc(x)
  \/ \E x \in owned : Write(x) \/ Free(x)

Spec == Init /\ [][Next]_vars
=============================================================================
