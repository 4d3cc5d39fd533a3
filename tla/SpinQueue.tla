------------------------------ MODULE SpinQueue ------------------------------
(***************************************************************************)
(* spin_queue.cpp: a singly linked list under a spinlock.  Nodes come from *)
(* the heap and go back to it, so a node freed by one core may be the next *)
(* one another core allocates.  One action is one access to the lock, the  *)
(* list or the heap; the fields of a node, and `node`, are what the code   *)
(* has them be, freed or not.                                              *)
(***************************************************************************)
EXTENDS Naturals, Sequences, FiniteSets

CONSTANTS
  Procs,   \* cores
  Nodes,   \* the nodes that fit in the heap
  Values,  \* what is pushed; opaque to the queue
  NULL, None, Empty, Filled

ASSUME QueueAssumption ==
  /\ IsFiniteSet(Nodes)
  /\ NULL \notin Nodes
  /\ {None, Empty, Filled} \cap Values = {} /\ None # Empty /\ None # Filled

VARIABLES
  lock_, head_, tail_,  \* the SpinQueue
  value, next,          \* the fields of each node
  used,                 \* the nodes that are allocated
  pc, node, out,        \* each core: where it is, `node`, what pop() or empty() found
  alive                 \* the SpinQueue has been constructed, not destroyed

queue == <<head_, tail_>>
heap  == <<value, next, used>>
vars  == <<lock_, queue, heap, pc, node, out, alive>>

Init ==
  /\ lock_ = FALSE /\ head_ = NULL /\ tail_ = NULL
  /\ value \in [Nodes -> Values]
  /\ next = [n \in Nodes |-> NULL]
  /\ used = {}
  /\ pc = [p \in Procs |-> "idle"]
  /\ node = [p \in Procs |-> NULL]
  /\ out = [p \in Procs |-> None]
  /\ alive = TRUE

Goto(p, from, to) == pc[p] = from /\ pc' = [pc EXCEPT ![p] = to]

Lock(p, from, to) ==
  /\ Goto(p, from, to)
  /\ ~lock_
  /\ lock_' = TRUE
  /\ UNCHANGED <<queue, heap, node, out, alive>>

(* Spinlock::lock(): a test-and-set that finds the lock taken, and tries   *)
(* again.                                                                  *)
Spin(p) == pc[p] \in {"push_lock", "pop_lock"} /\ lock_ /\ UNCHANGED vars

Unlock(p, from, to) ==
  /\ Goto(p, from, to)
  /\ lock_' = FALSE
  /\ UNCHANGED <<queue, heap, node, out, alive>>

-----------------------------------------------------------------------------
(* push(): new Node{value, nullptr}, outside the lock; then link it.       *)

PushNew(p) ==
  /\ Goto(p, "idle", "push_lock")
  /\ alive
  /\ \E n \in Nodes \ used, v \in Values :
       /\ used' = used \cup {n}
       /\ value' = [value EXCEPT ![n] = v]
       /\ next' = [next EXCEPT ![n] = NULL]
       /\ node' = [node EXCEPT ![p] = n]
  /\ UNCHANGED <<lock_, queue, out, alive>>

PushLock(p) == Lock(p, "push_lock", "push_link")

PushLink(p) ==
  /\ Goto(p, "push_link", "push_tail")
  /\ IF tail_ = NULL
     THEN head_' = node[p] /\ UNCHANGED next
     ELSE next' = [next EXCEPT ![tail_] = node[p]] /\ UNCHANGED head_
  /\ UNCHANGED <<lock_, tail_, value, used, node, out, alive>>

PushTail(p) ==
  /\ Goto(p, "push_tail", "push_unlock")
  /\ tail_' = node[p]
  /\ node' = [node EXCEPT ![p] = NULL]
  /\ UNCHANGED <<lock_, head_, heap, out, alive>>

PushUnlock(p) == Unlock(p, "push_unlock", "idle")

-----------------------------------------------------------------------------
(* pop(): unlink the head under the lock, then read and delete it.         *)

PopCall(p) ==
  /\ Goto(p, "idle", "pop_lock")
  /\ alive
  /\ UNCHANGED <<lock_, queue, heap, node, out, alive>>

(* Faulty: looks at head_ without taking the lock.                         *)
PopLockSkips(p) ==
  /\ Goto(p, "pop_lock", "pop_unlink")
  /\ UNCHANGED <<lock_, queue, heap, node, out, alive>>

PopLock(p) == Lock(p, "pop_lock", "pop_unlink")

(* Faulty: leaves tail_ pointing at the node it takes, when it is the last.*)
PopUnlinkKeepsTail(p) ==
  /\ Goto(p, "pop_unlink", "pop_unlock")
  /\ node' = [node EXCEPT ![p] = head_]
  /\ head_' = IF head_ = NULL THEN NULL ELSE next[head_]
  /\ UNCHANGED <<lock_, tail_, heap, out, alive>>

PopUnlink(p) ==
  /\ Goto(p, "pop_unlink", "pop_unlock")
  /\ node' = [node EXCEPT ![p] = head_]
  /\ head_' = IF head_ = NULL THEN NULL ELSE next[head_]
  /\ tail_' = IF head_' = NULL THEN NULL ELSE tail_
  /\ UNCHANGED <<lock_, heap, out, alive>>

PopUnlock(p) == Unlock(p, "pop_unlock", "pop_read")

(* Faulty: deletes the node before reading its value.                      *)
PopReadAfterDelete(p) ==
  /\ Goto(p, "pop_read", IF node[p] = NULL THEN "pop_ret" ELSE "pop_delete")
  /\ used' = used \ {node[p]}
  /\ out' = [out EXCEPT ![p] = IF node[p] = NULL THEN Empty ELSE value[node[p]]]
  /\ UNCHANGED <<lock_, queue, value, next, node, alive>>

(* node == nullptr: return false.  Otherwise *out = node->value.           *)
PopRead(p) ==
  /\ Goto(p, "pop_read", IF node[p] = NULL THEN "pop_ret" ELSE "pop_delete")
  /\ out' = [out EXCEPT ![p] = IF node[p] = NULL THEN Empty ELSE value[node[p]]]
  /\ UNCHANGED <<lock_, queue, heap, node, alive>>

PopDelete(p) ==
  /\ Goto(p, "pop_delete", "pop_ret")
  /\ used' = used \ {node[p]}
  /\ node' = [node EXCEPT ![p] = NULL]
  /\ UNCHANGED <<lock_, queue, value, next, out, alive>>

(* Back to the caller; for ~SpinQueue(), once more round its loop.         *)
PopReturn(p) ==
  /\ Goto(p, "pop_ret", IF alive THEN "idle" ELSE IF out[p] = Empty THEN "dead" ELSE "pop_lock")
  /\ out' = [out EXCEPT ![p] = None]
  /\ UNCHANGED <<lock_, queue, heap, node, alive>>

-----------------------------------------------------------------------------
(* empty(): a look at head_ under the lock.                                *)
EmptyLock(p) == alive /\ Lock(p, "idle", "empty_read")

EmptyRead(p) ==
  /\ Goto(p, "empty_read", "empty_unlock")
  /\ out' = [out EXCEPT ![p] = IF head_ = NULL THEN Empty ELSE Filled]
  /\ UNCHANGED <<lock_, queue, heap, node, alive>>

(* Gives the lock back, and returns is_empty.                              *)
EmptyUnlock(p) ==
  /\ Goto(p, "empty_unlock", "idle")
  /\ lock_' = FALSE
  /\ out' = [out EXCEPT ![p] = None]
  /\ UNCHANGED <<queue, heap, node, alive>>

(* ~SpinQueue(), by the last core to use it: pop() until it is empty.  The *)
(* memory may then hold another SpinQueue.                                 *)
Destroy(p) ==
  /\ alive
  /\ \A r \in Procs : pc[r] = "idle"
  /\ alive' = FALSE
  /\ pc' = [pc EXCEPT ![p] = "pop_lock"]
  /\ UNCHANGED <<lock_, queue, heap, node, out>>

Construct(p) ==
  /\ Goto(p, "dead", "idle")
  /\ alive' = TRUE
  /\ lock_' = FALSE /\ head_' = NULL /\ tail_' = NULL
  /\ UNCHANGED <<heap, node, out>>

-----------------------------------------------------------------------------
Step(p) ==
  \/ PushNew(p) \/ PushLock(p) \/ PushLink(p) \/ PushTail(p) \/ PushUnlock(p)
  \/ PopCall(p) \/ PopLock(p) \/ PopUnlink(p) \/ PopUnlock(p) \/ PopRead(p)
  \/ PopDelete(p) \/ PopReturn(p) \/ EmptyLock(p) \/ EmptyRead(p) \/ EmptyUnlock(p)
  \/ Destroy(p) \/ Construct(p) \/ Spin(p)

Next == \E p \in Procs : Step(p)

Spec == Init /\ [][Next]_vars

-----------------------------------------------------------------------------
Inside == {"push_link", "push_tail", "push_unlock", "pop_unlink", "pop_unlock", "empty_read", "empty_unlock"}

Labels == Inside \cup {"idle", "push_lock", "pop_lock", "pop_read", "pop_delete", "pop_ret", "dead"}

TypeOK ==
  /\ lock_ \in BOOLEAN /\ alive \in BOOLEAN
  /\ head_ \in Nodes \cup {NULL} /\ tail_ \in Nodes \cup {NULL}
  /\ value \in [Nodes -> Values] /\ next \in [Nodes -> Nodes \cup {NULL}]
  /\ used \subseteq Nodes
  /\ pc \in [Procs -> Labels]
  /\ node \in [Procs -> Nodes \cup {NULL}]
  /\ out \in [Procs -> Values \cup {None, Empty, Filled}]

(* The nodes from head_ on, in order.                                      *)
Walk[i \in 0..Cardinality(Nodes)] ==
  IF i = 0 THEN head_ ELSE IF Walk[i - 1] = NULL THEN NULL ELSE next[Walk[i - 1]]

Length == Cardinality({i \in 0..Cardinality(Nodes) : Walk[i] # NULL})

List == [i \in 1..Length |-> Walk[i - 1]]

Linked == {List[i] : i \in 1..Length}

(* The state is well typed and, whenever nobody holds the lock, the list is*)
(* sound: it ends, at tail_, and tail_ is null exactly when head_ is.      *)
ListSound ==
  /\ TypeOK
  /\ ~lock_ => /\ Length <= Cardinality(Nodes)
               /\ IF head_ = NULL THEN tail_ = NULL ELSE tail_ = List[Length]

(* Every allocated node is in the list, or is the `node` of one core that  *)
(* will link it or delete it: none is freed while linked and none leaks,   *)
(* and a destroyed SpinQueue has given every node back.                    *)
NodesOwned ==
  /\ used = Linked \cup ({node[p] : p \in Procs} \ {NULL})
  /\ \A p, r \in Procs : p # r /\ node[p] # NULL => node[p] # node[r]
  /\ \A p \in Procs :
       pc[p] \in {"push_lock", "push_link", "pop_unlock", "pop_read", "pop_delete"} => node[p] \notin Linked
  /\ (\E p \in Procs : pc[p] = "dead") => used = {}

(* The list, under its lock, is a first-in-first-out queue: push() takes   *)
(* effect when it links its node, pop() when it unlinks one, empty() when  *)
(* it reads head_.                                                         *)
Ret(p) ==
  IF pc[p] \in {"pop_unlock", "pop_read"}
  THEN IF node[p] = NULL THEN Empty ELSE value[node[p]]
  ELSE out[p]

Abstract == INSTANCE Fifo WITH
  queue <- [i \in 1..Length |-> value[List[i]]],
  ret   <- [p \in Procs |-> Ret(p)]

ImplementsFifo == Abstract!Spec
=============================================================================
