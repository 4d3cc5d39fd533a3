-------------------------- MODULE SpinQueueProofs --------------------------
(***************************************************************************)
(* Proofs about SpinQueue: for any number of cores and nodes the list is   *)
(* sound, its nodes are owned, and it is a first-in-first-out queue.       *)
(***************************************************************************)
EXTENDS SpinQueue, TLAPS, FiniteSetTheorems

-----------------------------------------------------------------------------
(* Induction over the naturals, for sets of them.                          *)

(* A set of naturals that is not empty has a least element. *)
LEMMA Least ==
  ASSUME NEW T, T \subseteq Nat, T # {}
  PROVE  \E n \in T : \A m \in T : n <= m
<1> DEFINE R == OpToRel(<, Nat)
<1>1. IsWellFoundedOn(R, Nat)
  BY NatLessThanWellFounded, Zenon
<1>2. \A a, b \in Nat : a < b => <<a, b>> \in R
  BY Zenon DEF OpToRel
<1> HIDE DEF R
<1>3. PICK x \in T : \A y \in T : ~ (<<y, x>> \in R)
  BY <1>1, WFMin, Zenon
<1>4. ASSUME NEW y \in T PROVE x <= y
  <2>1. ~ (y < x)
    BY <1>2, <1>3, Zenon
  <2> QED BY <2>1
<1> QED BY <1>4, Zenon

(* A set with 0 in it and with every successor of its elements holds all   *)
(* naturals.                                                               *)
LEMMA Induction ==
  ASSUME NEW T, 0 \in T, \A n \in Nat : n \in T => n + 1 \in T
  PROVE  \A n \in Nat : n \in T
<1> SUFFICES ASSUME Nat \ T # {} PROVE FALSE
  OBVIOUS
<1>1. PICK n \in Nat \ T : \A m \in Nat \ T : n <= m
  BY Least, Zenon
<1>2. n # 0 /\ n - 1 \in Nat
  BY <1>1
<1>3. n - 1 \in T
  BY <1>1, <1>2
<1> QED BY <1>1, <1>2, <1>3

-----------------------------------------------------------------------------
(* The list that the links make.                                           *)

(* L is the nodes from head_ on: no node twice, each linked to the next,   *)
(* the last to nothing.                                                    *)
IsList(L) ==
  /\ L \in Seq(Nodes)
  /\ \A i, j \in 1 .. Len(L) : L[i] = L[j] => i = j
  /\ head_ = IF Len(L) = 0 THEN NULL ELSE L[1]
  /\ \A i \in 1 .. Len(L) : next[L[i]] = IF i = Len(L) THEN NULL ELSE L[i + 1]

(* A list is not longer than there are nodes. *)
LEMMA ListFits ==
  ASSUME NEW L, IsList(L)
  PROVE  Len(L) \in Nat /\ Cardinality(Nodes) \in Nat /\ Len(L) <= Cardinality(Nodes)
<1>0. L \in Seq(Nodes) /\ Len(L) \in Nat /\ L \in [1 .. Len(L) -> Nodes]
  BY DEF IsList
<1>1. Cardinality(Nodes) \in Nat /\ IsFiniteSet(Nodes)
  BY FS_CardinalityType, QueueAssumption, Zenon
<1>2. IsFiniteSet(1 .. Len(L)) /\ Cardinality(1 .. Len(L)) = Len(L)
  <2>1. 1 \in Int /\ Len(L) \in Int
    BY <1>0
  <2>2. Cardinality(1 .. Len(L)) = IF 1 > Len(L) THEN 0 ELSE Len(L) - 1 + 1
    BY <2>1, FS_Interval, Zenon
  <2>3. IsFiniteSet(1 .. Len(L))
    BY <2>1, FS_Interval, Zenon
  <2>4. Len(L) \in Nat
    BY <1>0, Zenon
  <2>5. (IF 1 > Len(L) THEN 0 ELSE Len(L) - 1 + 1) = Len(L)
    BY <2>4
  <2> QED BY <2>2, <2>3, <2>5
<1>3. ~(Cardinality(Nodes) < Len(L))
  <2> SUFFICES ASSUME Cardinality(Nodes) < Cardinality(1 .. Len(L)) PROVE FALSE
    BY <1>2, Zenon
  <2>1. \E x, y \in 1 .. Len(L) : x # y /\ L[x] = L[y]
    BY <1>0, <1>1, <1>2, FS_PigeonHole, Zenon
  <2> QED BY <2>1, Zenon DEF IsList
<1> QED BY <1>0, <1>1, <1>3

(* Walk solves the recursion that defines it, and visits the list. *)
LEMMA WalkIsList ==
  ASSUME NEW L, IsList(L), NEW k \in 0 .. Cardinality(Nodes)
  PROVE  Walk[k] = IF k < Len(L) THEN L[k + 1] ELSE NULL
<1> DEFINE N == Cardinality(Nodes)
           w == [i \in 0 .. N |-> IF i < Len(L) THEN L[i + 1] ELSE NULL]
<1>0. Len(L) \in Nat /\ N \in Nat /\ Len(L) <= N /\ L \in [1 .. Len(L) -> Nodes]
  BY ListFits DEF IsList
<1>n. Len(L) \in Nat /\ N \in Nat /\ Len(L) <= N
  BY <1>0, Zenon
<1>w. \A i \in 0 .. N : w[i] = IF i < Len(L) THEN L[i + 1] ELSE NULL
  OBVIOUS
<1>1. w = [i \in 0 .. N |-> IF i = 0 THEN head_ ELSE IF w[i - 1] = NULL THEN NULL ELSE next[w[i - 1]]]
  <2> SUFFICES ASSUME NEW i \in 0 .. N
               PROVE  w[i] = IF i = 0 THEN head_ ELSE IF w[i - 1] = NULL THEN NULL ELSE next[w[i - 1]]
    OBVIOUS
  <2> HIDE DEF w
  <2>1. CASE i = 0
    <3>1. w[0] = IF 0 < Len(L) THEN L[0 + 1] ELSE NULL
      BY <1>0, <1>w
    <3>2. head_ = IF Len(L) = 0 THEN NULL ELSE L[1]
      BY Zenon DEF IsList
    <3>3. CASE Len(L) = 0
      BY <2>1, <3>1, <3>2, <3>3
    <3>4. CASE 0 < Len(L)
      BY <2>1, <3>1, <3>2, <3>4
    <3> QED BY <1>0, <3>3, <3>4
  <2>2. CASE i # 0 /\ i - 1 < Len(L)
    <3>1. i - 1 \in 0 .. N /\ i \in 1 .. Len(L) /\ (i - 1) + 1 = i
      BY <1>0, <2>2
    <3>2. w[i - 1] = L[i]
      BY <1>0, <1>w, <2>2, <3>1, Zenon
    <3>3. L[i] # NULL
      BY <1>0, <3>1, QueueAssumption, Zenon
    <3>4. next[L[i]] = IF i = Len(L) THEN NULL ELSE L[i + 1]
      BY <3>1, Zenon DEF IsList
    <3>5. w[i] = IF i = Len(L) THEN NULL ELSE L[i + 1]
      <4>1. CASE i = Len(L)
        BY <1>n, <1>w, <4>1
      <4>2. CASE i < Len(L)
        BY <1>n, <1>w, <4>2
      <4>3. i = Len(L) \/ i < Len(L)
        BY <1>n, <3>1
      <4> QED BY <4>1, <4>2, <4>3, Zenon
    <3> QED BY <2>2, <3>2, <3>3, <3>4, <3>5, Zenon
  <2>3. CASE i # 0 /\ ~(i - 1 < Len(L))
    <3>1. i - 1 \in 0 .. N /\ ~(i < Len(L))
      BY <1>0, <2>3
    <3> QED BY <1>w, <2>3, <3>1, Zenon
  <2> QED BY <2>1, <2>2, <2>3, Zenon
<1> HIDE DEF w
<1>2. Walk = [i \in 0 .. N |-> IF i = 0 THEN head_ ELSE IF Walk[i - 1] = NULL THEN NULL ELSE next[Walk[i - 1]]]
  BY <1>1, Zenon DEF Walk
<1> HIDE DEF N
<1> DEFINE T == {i \in Nat : i <= N => Walk[i] = w[i]}
<1>3. 0 \in T
  BY <1>0, <1>1, <1>2
<1>4. ASSUME NEW i \in Nat, i \in T PROVE i + 1 \in T
  <2> SUFFICES ASSUME i + 1 <= N PROVE Walk[i + 1] = w[i + 1]
    OBVIOUS
  <2>1. i + 1 \in 0 .. N /\ i + 1 # 0 /\ (i + 1) - 1 = i /\ Walk[i] = w[i]
    BY <1>0, <1>4
  <2>2. Walk[i + 1] = IF Walk[i] = NULL THEN NULL ELSE next[Walk[i]]
    BY <1>2, <2>1, Zenon
  <2>3. w[i + 1] = IF w[i] = NULL THEN NULL ELSE next[w[i]]
    BY <1>1, <2>1, Zenon
  <2> QED BY <2>1, <2>2, <2>3, Zenon
<1> HIDE DEF T
<1>5. k \in Nat /\ k <= N
  BY <1>0 DEF N
<1>6. k \in T
  BY <1>3, <1>4, <1>5, Induction
<1>7. Walk[k] = w[k]
  BY <1>5, <1>6, Zenon DEF T
<1> QED BY <1>7, Zenon DEF w, N

(* The list that Walk finds is L. *)
LEMMA ListIsL ==
  ASSUME NEW L, IsList(L)
  PROVE  Length = Len(L) /\ List = L
<1> DEFINE N == Cardinality(Nodes)
           S == {i \in 0 .. N : Walk[i] # NULL}
<1>0. Len(L) \in Nat /\ N \in Nat /\ Len(L) <= N /\ L \in [1 .. Len(L) -> Nodes] /\ L \in Seq(Nodes)
  BY ListFits DEF IsList
<1>1. S = 0 .. Len(L) - 1
  <2>1. ASSUME NEW i \in 0 .. N PROVE Walk[i] # NULL <=> i < Len(L)
    <3>1. Walk[i] = IF i < Len(L) THEN L[i + 1] ELSE NULL
      BY WalkIsList, Zenon
    <3>2. ASSUME i < Len(L) PROVE L[i + 1] # NULL
      BY <1>0, <3>2, QueueAssumption
    <3> QED BY <3>1, <3>2, Zenon
  <2> QED BY <1>0, <2>1
<1>2. Cardinality(S) = Len(L)
  <2> DEFINE m == Len(L) - 1
  <2>1. m \in Int /\ Len(L) = m + 1 /\ m >= -1
    BY <1>0
  <2> HIDE DEF m
  <2>2. Cardinality(0 .. m) = IF 0 > m THEN 0 ELSE m - 0 + 1
    BY <2>1, FS_Interval
  <2>3. S = 0 .. m
    BY <1>1, Zenon DEF m
  <2> HIDE DEF S
  <2> QED BY <2>1, <2>2, <2>3
<1>3. Length = Len(L)
  BY <1>2, Zenon DEF Length
<1>4. ASSUME NEW i \in 1 .. Len(L) PROVE Walk[i - 1] = L[i]
  <2>1. i - 1 \in 0 .. N /\ i - 1 < Len(L) /\ (i - 1) + 1 = i
    BY <1>0
  <2> QED BY <2>1, WalkIsList, Zenon
<1>5. List = [i \in 1 .. Len(L) |-> Walk[i - 1]]
  BY <1>3, Zenon DEF List
<1>6. List = L
  BY <1>0, <1>4, <1>5
<1> QED BY <1>3, <1>6, Zenon

(* List is the list, as one formula. *)
LEMMA ListNow == \A L : IsList(L) => Length = Len(L) /\ List = L
BY ListIsL, Zenon

(* The same after a step. *)
LEMMA ListNext == (\A L : IsList(L) => Length = Len(L) /\ List = L)'
BY ListNow, PTL

-----------------------------------------------------------------------------
(* The inductive invariant.                                                *)

(* One core at a time is between lock and unlock.                          *)
Locking ==
  /\ \A p \in Procs : pc[p] \in Inside => lock_
  /\ \A p, r \in Procs : pc[p] \in Inside /\ pc[r] \in Inside => p = r

Last(L) == IF Len(L) = 0 THEN NULL ELSE L[Len(L)]

(* tail_ is the last node, except while push() has linked its node and not *)
(* yet moved tail_.                                                        *)
Tails ==
  /\ (\A p \in Procs : pc[p] # "push_tail") => tail_ = Last(List)
  /\ \A p \in Procs : pc[p] = "push_tail" => node[p] = Last(List)

(* What a core has in hand at each place.                                  *)
Holding == {"push_lock", "push_link", "push_tail", "pop_unlock", "pop_read", "pop_delete"}

InHand ==
  /\ \A p \in Procs : pc[p] \notin Holding => node[p] = NULL
  /\ \A p \in Procs : pc[p] \in {"push_lock", "push_link", "push_tail", "pop_delete"} => node[p] # NULL
  /\ \A p \in Procs : pc[p] \in {"push_lock", "push_link"} => next[node[p]] = NULL
  /\ \A p \in Procs : pc[p] \in Holding \ {"push_tail"} => \A i \in 1 .. Len(List) : node[p] # List[i]
  /\ \A p, r \in Procs : p # r /\ node[p] # NULL => node[p] # node[r]
  /\ \A n : n \in used <=> n # NULL /\ ((\E i \in 1 .. Len(List) : n = List[i]) \/ \E p \in Procs : n = node[p])

(* What pop() or empty() has found.                                        *)
Found ==
  /\ \A p \in Procs : pc[p] \notin {"pop_delete", "pop_ret", "empty_unlock"} => out[p] = None
  /\ \A p \in Procs : pc[p] \in {"pop_delete", "pop_ret", "empty_unlock"} => out[p] # None
  /\ \A p \in Procs : pc[p] = "pop_delete" => out[p] \in Values

(* Destruction: one core pops, nobody pushes, and empty means empty.       *)
Dying ==
  /\ ~alive => \A p, r \in Procs : pc[p] # "idle" /\ pc[r] # "idle" => p = r
  /\ ~alive => \A p \in Procs : pc[p] \in
       {"idle", "pop_lock", "pop_unlink", "pop_unlock", "pop_read", "pop_delete", "pop_ret", "dead"}
  /\ ~alive => \A p \in Procs : pc[p] \in {"pop_unlock", "pop_read"} /\ node[p] = NULL => List = <<>>
  /\ ~alive => \A p \in Procs : pc[p] = "pop_ret" /\ out[p] = Empty => List = <<>>
  /\ \A p \in Procs : pc[p] = "dead" => ~alive /\ List = <<>>

QInv == TypeOK /\ IsList(List) /\ Locking /\ Tails /\ InHand /\ Found /\ Dying

(* A new queue is empty. *)
LEMMA QInit == Init => QInv
<1> SUFFICES ASSUME Init PROVE QInv
  OBVIOUS
<1>1. IsList(<<>>)
  BY DEF Init, IsList
<1>2. List = <<>>
  BY <1>1, ListIsL, Zenon
<1>3. TypeOK
  BY Zenon DEF Init, TypeOK, Labels, Inside
<1>4. Locking
  BY Zenon DEF Init, Locking, Inside
<1>5. Tails
  BY <1>2 DEF Init, Tails, Last
<1>6. InHand
  BY <1>2 DEF Init, InHand, Holding
<1>7. Found
  BY Zenon DEF Init, Found
<1>8. Dying
  BY Zenon DEF Init, Dying
<1> QED BY <1>1, <1>2, <1>3, <1>4, <1>5, <1>6, <1>7, <1>8, Zenon DEF QInv

(* A step that does not touch the links leaves the list as it is. *)
LEMMA SameList ==
  ASSUME IsList(List), head_' = head_, \A i \in 1 .. Len(List) : next'[List[i]] = next[List[i]]
  PROVE  List' = List /\ IsList(List)'
<1>1. PICK L : L = List
  OBVIOUS
<1>2. IsList(L)
  BY <1>1, Zenon
<1>3. \A i \in 1 .. Len(L) : next'[L[i]] = next[L[i]]
  BY <1>1, Zenon
<1>4. IsList(L)'
  BY <1>2, <1>3, Zenon DEF IsList
<1>5. List' = L
  BY <1>4, ListNext, Zenon
<1> QED BY <1>1, <1>4, <1>5, Zenon

(* The list's elements are nodes. *)
LEMMA ListNodes ==
  ASSUME IsList(List)
  PROVE  Len(List) \in Nat /\ \A i \in 1 .. Len(List) : List[i] \in Nodes /\ List[i] # NULL
BY QueueAssumption DEF IsList

(* As far as nodes in hand go, a core is in the same place.                 *)
SamePlace(r) ==
  /\ pc'[r] \in Holding <=> pc[r] \in Holding
  /\ pc'[r] \in Holding \ {"push_tail"} <=> pc[r] \in Holding \ {"push_tail"}
  /\ pc'[r] \in {"push_lock", "push_link", "push_tail", "pop_delete"}
       <=> pc[r] \in {"push_lock", "push_link", "push_tail", "pop_delete"}
  /\ pc'[r] \in {"push_lock", "push_link"} <=> pc[r] \in {"push_lock", "push_link"}

(* A step that moves no node keeps what is known of the nodes in hand. *)
LEMMA SameInHand ==
  ASSUME InHand, List' = List, UNCHANGED <<next, used, node>>, \A r \in Procs : SamePlace(r)
  PROVE  InHand'
<1> USE DEF InHand, SamePlace
<1>1. \A r \in Procs : pc'[r] \notin Holding => node'[r] = NULL
  BY Zenon
<1>2. \A r \in Procs : pc'[r] \in {"push_lock", "push_link", "push_tail", "pop_delete"} => node'[r] # NULL
  BY Zenon
<1>3. \A r \in Procs : pc'[r] \in {"push_lock", "push_link"} => next'[node'[r]] = NULL
  BY Zenon
<1>4. \A r \in Procs : pc'[r] \in Holding \ {"push_tail"} => \A i \in 1 .. Len(List') : node'[r] # List'[i]
  <2> SUFFICES ASSUME NEW r \in Procs, pc'[r] \in Holding \ {"push_tail"}, NEW i \in 1 .. Len(List')
               PROVE  node'[r] # List'[i]
    BY Zenon
  <2>1. pc[r] \in Holding \ {"push_tail"}
    BY Zenon
  <2> QED BY <2>1, Zenon
<1>5. \A r, t \in Procs : r # t /\ node'[r] # NULL => node'[r] # node'[t]
  BY Zenon
<1>6. \A n : n \in used' <=> n # NULL /\ ((\E i \in 1 .. Len(List') : n = List'[i]) \/ \E r \in Procs : n = node'[r])
  <2>1. \A n : n \in used <=> n # NULL /\ ((\E i \in 1 .. Len(List) : n = List[i]) \/ \E r \in Procs : n = node[r])
    BY Zenon
  <2>2. used' = used /\ node' = node /\ List' = List
    BY Zenon
  <2> HIDE DEF InHand
  <2> QED BY <2>1, <2>2
<1> QED BY <1>1, <1>2, <1>3, <1>4, <1>5, <1>6, Zenon

(* Taking the lock. *)
LEMMA LockStep ==
  ASSUME QInv, NEW p \in Procs, NEW from, NEW to, Lock(p, from, to),
         \/ from = "push_lock" /\ to = "push_link"
         \/ from = "pop_lock" /\ to = "pop_unlink"
         \/ from = "idle" /\ to = "empty_read" /\ alive
  PROVE  QInv'
<1> USE DEF QInv
<1>0. /\ pc[p] = from /\ pc' = [pc EXCEPT ![p] = to]
      /\ ~lock_ /\ lock_' = TRUE
      /\ UNCHANGED <<head_, tail_, value, next, used, node, out, alive>>
  BY Zenon DEF Lock, Goto, queue, heap
<1>p. pc'[p] = to /\ \A r \in Procs : r # p => pc'[r] = pc[r]
  BY <1>0, Zenon DEF TypeOK
<1>l. List' = List /\ IsList(List)'
  BY <1>0, SameList, Zenon
<1>1. TypeOK'
  BY <1>0, Zenon DEF TypeOK, Labels, Inside
<1>2. Locking'
  <2>1. \A r \in Procs : r # p => pc'[r] \notin Inside
    BY <1>0, <1>p, Zenon DEF Locking
  <2> QED BY <1>0, <2>1, Zenon DEF Locking
<1>3. Tails'
  <2>1. \A r \in Procs : pc'[r] = "push_tail" <=> pc[r] = "push_tail"
    BY <1>0, <1>p
  <2> QED BY <1>0, <2>1, <1>l, Zenon DEF Tails, Last
<1>4. InHand'
  <2>1. \A r \in Procs : SamePlace(r)
    BY <1>0, <1>p DEF Holding, SamePlace
  <2> QED BY <1>0, <1>l, <2>1, SameInHand, Zenon
<1>5. Found'
  BY <1>0, <1>p, Zenon DEF Found
<1>6. Dying'
  BY <1>0, <1>p, <1>l DEF Dying
<1> QED BY <1>l, <1>1, <1>2, <1>3, <1>4, <1>5, <1>6, Zenon

(* Giving it back. *)
LEMMA UnlockStep ==
  ASSUME QInv, NEW p \in Procs, NEW from, NEW to, Unlock(p, from, to),
         \/ from = "push_unlock" /\ to = "idle"
         \/ from = "pop_unlock" /\ to = "pop_read"
  PROVE  QInv'
<1> USE DEF QInv
<1>0. /\ pc[p] = from /\ pc' = [pc EXCEPT ![p] = to]
      /\ lock_' = FALSE
      /\ UNCHANGED <<head_, tail_, value, next, used, node, out, alive>>
  BY Zenon DEF Unlock, Goto, queue, heap
<1>p. pc'[p] = to /\ \A r \in Procs : r # p => pc'[r] = pc[r]
  BY <1>0 DEF TypeOK
<1>l. List' = List /\ IsList(List)'
  BY <1>0, SameList, Zenon
<1>1. TypeOK'
  BY <1>0, Zenon DEF TypeOK, Labels, Inside
<1>2. Locking'
  <2>1. from \in Inside /\ to \notin Inside
    BY DEF Inside
  <2>2. \A r \in Procs : pc'[r] \notin Inside
    BY <1>0, <1>p, <2>1, Zenon DEF Locking
  <2> QED BY <2>2, Zenon DEF Locking
<1>3. Tails'
  <2>1. \A r \in Procs : pc'[r] = "push_tail" <=> pc[r] = "push_tail"
    BY <1>0, <1>p
  <2> QED BY <1>0, <2>1, <1>l, Zenon DEF Tails, Last
<1>4. InHand'
  <2>1. \A r \in Procs : SamePlace(r)
    BY <1>0, <1>p DEF Holding, SamePlace
  <2> QED BY <1>0, <1>l, <2>1, SameInHand, Zenon
<1>5. Found'
  BY <1>0, <1>p DEF Found
<1>6. Dying'
  BY <1>0, <1>p, <1>l DEF Dying
<1> QED BY <1>l, <1>1, <1>2, <1>3, <1>4, <1>5, <1>6, Zenon

(* pop() is called; the destructor calls it, and once more after a value.  *)
LEMMA PopCallStep ==
  ASSUME QInv, NEW p \in Procs, PopCall(p)
  PROVE  QInv'
<1> USE DEF QInv
<1>0. /\ pc[p] = "idle" /\ pc' = [pc EXCEPT ![p] = "pop_lock"] /\ alive
      /\ UNCHANGED <<lock_, head_, tail_, value, next, used, node, out, alive>>
  BY Zenon DEF PopCall, Goto, queue, heap
<1>p. pc'[p] = "pop_lock" /\ \A r \in Procs : r # p => pc'[r] = pc[r]
  BY <1>0 DEF TypeOK
<1>l. List' = List /\ IsList(List)'
  BY <1>0, SameList, Zenon
<1>1. TypeOK'
  BY <1>0 DEF TypeOK, Labels, Inside
<1>2. Locking'
  BY <1>0, <1>p DEF Locking, Inside
<1>3. Tails'
  <2>1. \A r \in Procs : pc'[r] = "push_tail" <=> pc[r] = "push_tail"
    BY <1>0, <1>p
  <2> QED BY <1>0, <2>1, <1>l, Zenon DEF Tails, Last
<1>4. InHand'
  <2>1. \A r \in Procs : SamePlace(r)
    BY <1>0, <1>p DEF Holding, SamePlace
  <2> QED BY <1>0, <1>l, <2>1, SameInHand, Zenon
<1>5. Found'
  BY <1>0, <1>p, Zenon DEF Found
<1>6. Dying'
  BY <1>0, <1>p, <1>l, Zenon DEF Dying
<1> QED BY <1>l, <1>1, <1>2, <1>3, <1>4, <1>5, <1>6, Zenon

(* Destruction begins when every core is done with the queue. *)
LEMMA DestroyStep ==
  ASSUME QInv, NEW p \in Procs, Destroy(p)
  PROVE  QInv'
<1> USE DEF QInv
<1>0. /\ \A r \in Procs : pc[r] = "idle"
      /\ pc' = [pc EXCEPT ![p] = "pop_lock"] /\ alive' = FALSE
      /\ UNCHANGED <<lock_, head_, tail_, value, next, used, node, out>>
  BY Zenon DEF Destroy, queue, heap
<1>p. pc'[p] = "pop_lock" /\ \A r \in Procs : r # p => pc'[r] = "idle"
  BY <1>0 DEF TypeOK
<1>l. List' = List /\ IsList(List)'
  BY <1>0, SameList, Zenon
<1>1. TypeOK'
  BY <1>0, Zenon DEF TypeOK, Labels, Inside
<1>2. Locking'
  BY <1>0, <1>p DEF Locking, Inside
<1>3. Tails'
  <2>1. \A r \in Procs : pc'[r] = "push_tail" <=> pc[r] = "push_tail"
    BY <1>0, <1>p
  <2> QED BY <1>0, <2>1, <1>l, Zenon DEF Tails, Last
<1>4. InHand'
  <2>1. \A r \in Procs : SamePlace(r)
    BY <1>0, <1>p DEF Holding, SamePlace
  <2> QED BY <1>0, <1>l, <2>1, SameInHand, Zenon
<1>5. Found'
  BY <1>0, <1>p, Zenon DEF Found
<1>6. Dying'
  BY <1>0, <1>p, <1>l, Zenon DEF Dying
<1> QED BY <1>l, <1>1, <1>2, <1>3, <1>4, <1>5, <1>6, Zenon

(* pop() looks at what it has unlinked. *)
LEMMA PopReadStep ==
  ASSUME QInv, NEW p \in Procs, PopRead(p)
  PROVE  QInv'
<1> USE DEF QInv
<1> DEFINE to == IF node[p] = NULL THEN "pop_ret" ELSE "pop_delete"
           v == IF node[p] = NULL THEN Empty ELSE value[node[p]]
<1>0. /\ pc[p] = "pop_read" /\ pc' = [pc EXCEPT ![p] = to] /\ out' = [out EXCEPT ![p] = v]
      /\ UNCHANGED <<lock_, head_, tail_, value, next, used, node, alive>>
  BY Zenon DEF PopRead, Goto, queue, heap
<1>v. /\ \/ to = "pop_ret" /\ node[p] = NULL /\ v = Empty
         \/ to = "pop_delete" /\ node[p] # NULL /\ v \in Values
      /\ v \in Values \cup {None, Empty, Filled} /\ v # None /\ to \in Labels
  <2>1. node[p] # NULL => value[node[p]] \in Values
    BY Zenon DEF TypeOK
  <2>2. v # None
    BY <2>1, QueueAssumption
  <2>3. to \in Labels
    BY DEF Labels
  <2> QED BY <2>1, <2>2, <2>3, QueueAssumption
<1> HIDE DEF to, v
<1>p. /\ pc'[p] = to /\ \A r \in Procs : r # p => pc'[r] = pc[r]
      /\ out'[p] = v /\ \A r \in Procs : r # p => out'[r] = out[r]
  BY <1>0 DEF TypeOK
<1>l. List' = List /\ IsList(List)'
  BY <1>0, SameList, Zenon
<1>1. TypeOK'
  BY <1>0, <1>v DEF TypeOK
<1>2. Locking'
  BY <1>0, <1>v, <1>p DEF Locking, Inside
<1>3. Tails'
  <2>1. \A r \in Procs : pc'[r] = "push_tail" <=> pc[r] = "push_tail"
    BY <1>0, <1>v, <1>p
  <2> QED BY <1>0, <2>1, <1>l, Zenon DEF Tails, Last
<1>4. InHand'
  <2>0. node' = node /\ next' = next /\ used' = used
    BY <1>0, Zenon
  <2>1. \A r \in Procs : pc'[r] \notin Holding => node'[r] = NULL
    BY <1>0, <1>v, <1>p, ZenonT(40) DEF InHand, Holding
  <2>2. \A r \in Procs : pc'[r] \in {"push_lock", "push_link", "push_tail", "pop_delete"} => node'[r] # NULL
    BY <1>0, <1>v, <1>p DEF InHand, Holding
  <2>3. \A r \in Procs : /\ pc'[r] \in {"push_lock", "push_link"} => pc[r] \in {"push_lock", "push_link"}
                         /\ pc'[r] \in Holding \ {"push_tail"} => pc[r] \in Holding \ {"push_tail"}
    BY <1>0, <1>v, <1>p, Zenon DEF Holding
  <2>4. \A r \in Procs : pc'[r] \in {"push_lock", "push_link"} => next'[node'[r]] = NULL
    BY <2>0, <2>3, Zenon DEF InHand
  <2>5. \A r \in Procs : pc'[r] \in Holding \ {"push_tail"} => \A i \in 1 .. Len(List') : node'[r] # List'[i]
    BY <1>l, <2>0, <2>3, ZenonT(40) DEF InHand
  <2>6. \A r, t \in Procs : r # t /\ node'[r] # NULL => node'[r] # node'[t]
    BY <2>0, Zenon DEF InHand
  <2>7. \A n : n \in used' <=> n # NULL /\ ((\E i \in 1 .. Len(List') : n = List'[i]) \/ \E r \in Procs : n = node'[r])
    BY <1>l, <2>0, Zenon DEF InHand
  <2> QED BY <2>1, <2>2, <2>4, <2>5, <2>6, <2>7, Zenon DEF InHand
<1>5. Found'
  BY <1>0, <1>v, <1>p DEF Found
<1>6. Dying'
  <2>1. ASSUME ~alive, out'[p] = Empty, to = "pop_ret" PROVE List = <<>>
    BY <1>0, <1>v, <2>1, Zenon DEF Dying
  <2> QED BY <1>0, <1>v, <1>p, <1>l, <2>1, QueueAssumption, ZenonT(40) DEF Dying, Found
<1> QED BY <1>l, <1>1, <1>2, <1>3, <1>4, <1>5, <1>6, Zenon

(* pop() gives the node back to the heap. *)
LEMMA PopDeleteStep ==
  ASSUME QInv, NEW p \in Procs, PopDelete(p)
  PROVE  QInv'
<1> USE DEF QInv
<1>0. /\ pc[p] = "pop_delete" /\ pc' = [pc EXCEPT ![p] = "pop_ret"]
      /\ used' = used \ {node[p]} /\ node' = [node EXCEPT ![p] = NULL]
      /\ UNCHANGED <<lock_, head_, tail_, value, next, out, alive>>
  BY Zenon DEF PopDelete, Goto, queue
<1>p. /\ pc'[p] = "pop_ret" /\ \A r \in Procs : r # p => pc'[r] = pc[r]
      /\ node'[p] = NULL /\ \A r \in Procs : r # p => node'[r] = node[r]
  BY <1>0, Zenon DEF TypeOK
<1>d. \A r, t \in Procs : r # t /\ node[r] # NULL => node[r] # node[t]
  BY Zenon DEF InHand
<1>n. node[p] # NULL /\ \A i \in 1 .. Len(List) : node[p] # List[i]
  BY <1>0, Zenon DEF InHand, Holding
<1>l. List' = List /\ IsList(List)'
  BY <1>0, SameList, Zenon
<1>1. TypeOK'
  BY <1>0 DEF TypeOK, Labels
<1>2. Locking'
  BY <1>0, <1>p DEF Locking, Inside
<1>3. Tails'
  <2>1. \A r \in Procs : (pc'[r] = "push_tail" <=> pc[r] = "push_tail") /\ (pc[r] = "push_tail" => node'[r] = node[r])
    BY <1>0, <1>p
  <2> QED BY <1>0, <2>1, <1>l, Zenon DEF Tails, Last
<1>4. InHand'
  <2>1. \A r \in Procs : pc'[r] \notin Holding => node'[r] = NULL
    BY <1>p DEF InHand
  <2>2. \A r \in Procs : pc'[r] \in {"push_lock", "push_link", "push_tail", "pop_delete"} => node'[r] # NULL
    BY <1>p DEF InHand
  <2>3. \A r \in Procs : pc'[r] \in {"push_lock", "push_link"} => next'[node'[r]] = NULL
    BY <1>0, <1>p DEF InHand
  <2>4. \A r \in Procs : pc'[r] \in Holding \ {"push_tail"} => \A i \in 1 .. Len(List') : node'[r] # List'[i]
    BY <1>p, <1>l DEF InHand, Holding
  <2>5. \A r, t \in Procs : r # t /\ node'[r] # NULL => node'[r] # node'[t]
    BY <1>p, <1>d
  <2>6. ASSUME NEW n
        PROVE  n \in used' <=> n # NULL /\ ((\E i \in 1 .. Len(List') : n = List'[i]) \/ \E r \in Procs : n = node'[r])
    <3>1. CASE n = node[p]
      <4>1. n \notin used' /\ \A i \in 1 .. Len(List') : n # List'[i]
        BY <1>0, <1>n, <1>l, <3>1, ZenonT(40)
      <4>2. \A r \in Procs : n # node'[r]
        BY <1>n, <1>p, <1>d, <3>1
      <4> QED BY <4>1, <4>2, Zenon
    <3>2. CASE n # node[p]
      <4>1. n \in used' <=> n \in used
        BY <1>0, <3>2, Zenon
      <4>2. n # NULL => ((\E r \in Procs : n = node'[r]) <=> (\E r \in Procs : n = node[r]))
        BY <1>p, <3>2, Zenon
      <4> QED BY <1>l, <4>1, <4>2, ZenonT(40) DEF InHand
    <3> QED BY <3>1, <3>2, Zenon
  <2> QED BY <2>1, <2>2, <2>3, <2>4, <2>5, <2>6, Zenon DEF InHand
<1>5. Found'
  BY <1>0, <1>p, Zenon DEF Found
<1>6. Dying'
  BY <1>0, <1>p, <1>l, QueueAssumption, ZenonT(40) DEF Dying, Found
<1> QED BY <1>l, <1>1, <1>2, <1>3, <1>4, <1>5, <1>6, Zenon

(* pop() returns; the destructor goes on until the queue is empty. *)
LEMMA PopReturnStep ==
  ASSUME QInv, NEW p \in Procs, PopReturn(p)
  PROVE  QInv'
<1> USE DEF QInv
<1> DEFINE to == IF alive THEN "idle" ELSE IF out[p] = Empty THEN "dead" ELSE "pop_lock"
<1>0. /\ pc[p] = "pop_ret" /\ pc' = [pc EXCEPT ![p] = to] /\ out' = [out EXCEPT ![p] = None]
      /\ UNCHANGED <<lock_, head_, tail_, value, next, used, node, alive>>
  BY Zenon DEF PopReturn, Goto, queue, heap
<1>t. \/ to = "idle" /\ alive
      \/ to = "dead" /\ ~alive /\ out[p] = Empty
      \/ to = "pop_lock" /\ ~alive
  BY Zenon
<1> HIDE DEF to
<1>p. /\ pc'[p] = to /\ \A r \in Procs : r # p => pc'[r] = pc[r]
      /\ out'[p] = None /\ \A r \in Procs : r # p => out'[r] = out[r]
  BY <1>0, Zenon DEF TypeOK
<1>l. List' = List /\ IsList(List)'
  BY <1>0, SameList, Zenon
<1>1. TypeOK'
  BY <1>0, <1>t DEF TypeOK, Labels
<1>2. Locking'
  BY <1>0, <1>t, <1>p DEF Locking, Inside
<1>3. Tails'
  <2>1. \A r \in Procs : pc'[r] = "push_tail" <=> pc[r] = "push_tail"
    BY <1>0, <1>t, <1>p
  <2> QED BY <1>0, <2>1, <1>l, Zenon DEF Tails, Last
<1>4. InHand'
  <2>1. \A r \in Procs : SamePlace(r)
    BY <1>0, <1>t, <1>p DEF Holding, SamePlace
  <2> QED BY <1>0, <1>l, <2>1, SameInHand, Zenon
<1>5. Found'
  BY <1>0, <1>t, <1>p, Zenon DEF Found
<1>6. Dying'
  <2>1. ASSUME to = "dead" PROVE List = <<>> /\ ~alive
    BY <1>0, <1>t, <2>1, Zenon DEF Dying
  <2> QED BY <1>0, <1>t, <1>p, <1>l, <2>1 DEF Dying
<1> QED BY <1>l, <1>1, <1>2, <1>3, <1>4, <1>5, <1>6, Zenon

(* empty() looks at head_, and returns what it saw. *)
LEMMA EmptyStep ==
  ASSUME QInv, NEW p \in Procs, EmptyRead(p) \/ EmptyUnlock(p)
  PROVE  QInv'
<1> USE DEF QInv
<1> DEFINE v == IF head_ = NULL THEN Empty ELSE Filled
<1>v. v \in {Empty, Filled} /\ Empty # None /\ Filled # None
  BY QueueAssumption
<1>0. PICK to :
        /\ pc' = [pc EXCEPT ![p] = to]
        /\ \/ /\ pc[p] = "empty_read" /\ to = "empty_unlock"
              /\ out' = [out EXCEPT ![p] = v] /\ lock_' = lock_
           \/ /\ pc[p] = "empty_unlock" /\ to = "idle"
              /\ out' = [out EXCEPT ![p] = None] /\ lock_' = FALSE
        /\ UNCHANGED <<head_, tail_, value, next, used, node, alive>>
  <2>1. CASE EmptyRead(p)
    BY <2>1, Zenon DEF EmptyRead, Goto, queue, heap
  <2>2. CASE EmptyUnlock(p)
    BY <2>2, Zenon DEF EmptyUnlock, Goto, queue, heap
  <2> QED BY <2>1, <2>2, Zenon
<1> HIDE DEF v
<1>p. /\ pc'[p] = to /\ \A r \in Procs : r # p => pc'[r] = pc[r]
      /\ to = "empty_unlock" => out'[p] = v
      /\ to = "idle" => out'[p] = None
      /\ \A r \in Procs : r # p => out'[r] = out[r]
  BY <1>0 DEF TypeOK
<1>l. List' = List /\ IsList(List)'
  BY <1>0, SameList, Zenon
<1>1. TypeOK'
  <2>1. to \in Labels /\ lock_' \in BOOLEAN
    BY <1>0, Zenon DEF Labels, Inside, TypeOK
  <2>2. out' \in [Procs -> Values \cup {None, Empty, Filled}]
    BY <1>0, <1>v, Zenon DEF TypeOK
  <2> QED BY <1>0, <2>1, <2>2, Zenon DEF TypeOK
<1>2. Locking'
  <2>1. pc[p] \in Inside
    BY <1>0, Zenon DEF Inside
  <2>2. \A r \in Procs : r # p => pc'[r] \notin Inside
    BY <1>p, <2>1, Zenon DEF Locking
  <2>3. "idle" \notin Inside
    BY DEF Inside
  <2>4. lock_
    BY <2>1, Zenon DEF Locking
  <2>5. pc'[p] \in Inside => lock_'
    BY <1>0, <1>p, <2>3, <2>4, Zenon
  <2> QED BY <2>2, <2>5, Zenon DEF Locking
<1>3. Tails'
  <2>1. \A r \in Procs : pc'[r] = "push_tail" <=> pc[r] = "push_tail"
    BY <1>0, <1>p
  <2> QED BY <1>0, <2>1, <1>l, Zenon DEF Tails, Last
<1>4. InHand'
  <2>1. \A r \in Procs : SamePlace(r)
    BY <1>0, <1>p DEF Holding, SamePlace
  <2> QED BY <1>0, <1>l, <2>1, SameInHand, Zenon
<1>5. Found'
  BY <1>0, <1>v, <1>p DEF Found
<1>6. Dying'
  BY <1>0, <1>p, <1>l DEF Dying
<1> QED BY <1>l, <1>1, <1>2, <1>3, <1>4, <1>5, <1>6, Zenon

(* A new SpinQueue where a destroyed one was. *)
LEMMA ConstructStep ==
  ASSUME QInv, NEW p \in Procs, Construct(p)
  PROVE  QInv' /\ List = <<>> /\ List' = <<>>
<1> USE DEF QInv
<1>0. /\ pc[p] = "dead" /\ pc' = [pc EXCEPT ![p] = "idle"] /\ alive' = TRUE
      /\ lock_' = FALSE /\ head_' = NULL /\ tail_' = NULL
      /\ UNCHANGED <<value, next, used, node, out>>
  BY Zenon DEF Construct, Goto, heap
<1>p. /\ pc'[p] = "idle" /\ \A r \in Procs : pc'[r] = "idle" /\ (r # p => pc[r] = "idle")
  BY <1>0 DEF TypeOK, Dying
<1>e. List = <<>>
  BY <1>0, Zenon DEF Dying
<1>l. List' = <<>> /\ IsList(List)'
  <2>1. IsList(<<>>)'
    <3>1. <<>> \in Seq(Nodes) /\ Len(<<>>) = 0 /\ \A i \in 1 .. Len(<<>>) : FALSE
      OBVIOUS
    <3> QED BY <1>0, <3>1, Zenon DEF IsList
  <2>2. List' = <<>>
    BY <2>1, ListNext, Zenon
  <2> QED BY <2>1, <2>2, Zenon
<1>1. TypeOK'
  BY <1>0, Zenon DEF TypeOK, Labels
<1>2. Locking'
  BY <1>p DEF Locking, Inside
<1>3. Tails'
  BY <1>0, <1>p, <1>l DEF Tails, Last
<1>4. InHand'
  <2>1. \A r \in Procs : SamePlace(r)
    BY <1>0, <1>p DEF Holding, SamePlace
  <2> QED BY <1>0, <1>l, <1>e, <2>1, SameInHand, Zenon
<1>5. Found'
  BY <1>0, <1>p DEF Found
<1>6. Dying'
  BY <1>0, <1>p, Zenon DEF Dying
<1> QED BY <1>l, <1>e, <1>1, <1>2, <1>3, <1>4, <1>5, <1>6, Zenon

(* tail_ catches up with the list. *)
LEMMA PushTailStep ==
  ASSUME QInv, NEW p \in Procs, PushTail(p)
  PROVE  QInv'
<1> USE DEF QInv
<1>0. /\ pc[p] = "push_tail" /\ pc' = [pc EXCEPT ![p] = "push_unlock"]
      /\ tail_' = node[p] /\ node' = [node EXCEPT ![p] = NULL]
      /\ UNCHANGED <<lock_, head_, value, next, used, out, alive>>
  BY Zenon DEF PushTail, Goto, heap
<1>p. /\ pc'[p] = "push_unlock" /\ \A r \in Procs : r # p => pc'[r] = pc[r]
      /\ node'[p] = NULL /\ \A r \in Procs : r # p => node'[r] = node[r]
  BY <1>0 DEF TypeOK
<1>d. \A r, t \in Procs : r # t /\ node[r] # NULL => node[r] # node[t]
  BY Zenon DEF InHand
<1>n. node[p] # NULL /\ node[p] = Last(List)
  BY <1>0 DEF InHand, Tails
<1>l. List' = List /\ IsList(List)'
  BY <1>0, SameList, Zenon
<1>1. TypeOK'
  BY <1>0 DEF TypeOK, Labels, Inside
<1>2. Locking'
  BY <1>0, <1>p DEF Locking, Inside
<1>3. Tails'
  <2>1. \A r \in Procs : pc'[r] # "push_tail"
    BY <1>0, <1>p DEF Locking, Inside
  <2>2. tail_' = Last(List')
    BY <1>0, <1>n, <1>l, Zenon
  <2> QED BY <2>1, <2>2, Zenon DEF Tails, Last
<1>4. InHand'
  <2>1. \A r \in Procs : pc'[r] \notin Holding => node'[r] = NULL
    BY <1>p DEF InHand
  <2>2. \A r \in Procs : pc'[r] \in {"push_lock", "push_link", "push_tail", "pop_delete"} => node'[r] # NULL
    BY <1>p, Zenon DEF InHand
  <2>3. \A r \in Procs : pc'[r] \in {"push_lock", "push_link"} => next'[node'[r]] = NULL
    BY <1>0, <1>p, ZenonT(40) DEF InHand
  <2>4. \A r \in Procs : pc'[r] \in Holding \ {"push_tail"} => \A i \in 1 .. Len(List') : node'[r] # List'[i]
    BY <1>p, <1>l DEF InHand, Holding
  <2>5. \A r, t \in Procs : r # t /\ node'[r] # NULL => node'[r] # node'[t]
    BY <1>p, <1>d
  <2>6. ASSUME NEW n
        PROVE  n \in used' <=> n # NULL /\ ((\E i \in 1 .. Len(List') : n = List'[i]) \/ \E r \in Procs : n = node'[r])
    <3>1. \E i \in 1 .. Len(List) : node[p] = List[i]
      <4>1. Len(List) \in Nat
        BY ListNodes, Zenon
      <4> QED BY <1>n, <4>1 DEF Last
    <3>2. n # NULL /\ n # node[p] => ((\E r \in Procs : n = node'[r]) <=> (\E r \in Procs : n = node[r]))
      BY <1>p, Zenon
    <3>3. n \in used' <=> n \in used
      BY <1>0, Zenon
    <3>4. n \in used <=> n # NULL /\ ((\E i \in 1 .. Len(List) : n = List[i]) \/ \E r \in Procs : n = node[r])
      BY Zenon DEF InHand
    <3>5. CASE n = node[p]
      BY <1>n, <1>l, <3>1, <3>3, <3>4, <3>5, Zenon
    <3>6. CASE n # node[p]
      BY <1>l, <3>2, <3>3, <3>4, <3>6, Zenon
    <3> QED BY <3>5, <3>6, Zenon
  <2> QED BY <2>1, <2>2, <2>3, <2>4, <2>5, <2>6, Zenon DEF InHand
<1>5. Found'
  BY <1>0, <1>p DEF Found
<1>6. Dying'
  BY <1>0, <1>p, <1>l DEF Dying
<1> QED BY <1>l, <1>1, <1>2, <1>3, <1>4, <1>5, <1>6, Zenon

(* push() allocates a node, which nobody has. *)
LEMMA PushNewStep ==
  ASSUME QInv, NEW p \in Procs, PushNew(p)
  PROVE  /\ QInv' /\ List' = List /\ UNCHANGED out
         /\ \A n \in used : value'[n] = value[n]
         /\ \A r \in Procs : r # p => pc'[r] = pc[r] /\ node'[r] = node[r]
<1> USE DEF QInv
<1>00. PICK n \in Nodes \ used, v \in Values :
         /\ used' = used \cup {n}
         /\ value' = [value EXCEPT ![n] = v]
         /\ next' = [next EXCEPT ![n] = NULL]
         /\ node' = [node EXCEPT ![p] = n]
  BY Zenon DEF PushNew
<1>0. /\ pc[p] = "idle" /\ pc' = [pc EXCEPT ![p] = "push_lock"] /\ alive
      /\ UNCHANGED <<lock_, head_, tail_, out, alive>>
  BY Zenon DEF PushNew, Goto, queue
<1>p. /\ pc'[p] = "push_lock" /\ \A r \in Procs : r # p => pc'[r] = pc[r]
      /\ node'[p] = n /\ \A r \in Procs : r # p => node'[r] = node[r]
      /\ next'[n] = NULL /\ \A m \in Nodes : m # n => next'[m] = next[m] /\ value'[m] = value[m]
  BY <1>00, <1>0 DEF TypeOK
<1>d. \A r, t \in Procs : r # t /\ node[r] # NULL => node[r] # node[t]
  BY Zenon DEF InHand
<1>n. /\ n # NULL /\ n \in Nodes
      /\ \A i \in 1 .. Len(List) : n # List[i]
      /\ \A r \in Procs : n # node[r]
  BY QueueAssumption, Zenon DEF InHand
<1>l. List' = List /\ IsList(List)'
  <2>1. \A i \in 1 .. Len(List) : next'[List[i]] = next[List[i]]
    BY <1>n, <1>p, ListNodes, Zenon
  <2> QED BY <1>0, <2>1, SameList, Zenon
<1>1. TypeOK'
  BY <1>00, <1>0, ZenonT(40) DEF TypeOK, Labels
<1>2. Locking'
  BY <1>0, <1>p DEF Locking, Inside
<1>3. Tails'
  <2>1. \A r \in Procs : (pc'[r] = "push_tail" <=> pc[r] = "push_tail") /\ (pc[r] = "push_tail" => node'[r] = node[r])
    BY <1>0, <1>p
  <2> QED BY <1>0, <2>1, <1>l, Zenon DEF Tails, Last
<1>4. InHand'
  <2>1. \A r \in Procs : pc'[r] \notin Holding => node'[r] = NULL
    BY <1>p DEF InHand, Holding
  <2>2. \A r \in Procs : pc'[r] \in {"push_lock", "push_link", "push_tail", "pop_delete"} => node'[r] # NULL
    BY <1>p, <1>n DEF InHand
  <2>3. ASSUME NEW r \in Procs, pc'[r] \in {"push_lock", "push_link"} PROVE next'[node'[r]] = NULL
    <3>1. CASE r = p
      BY <1>p, <3>1, Zenon
    <3>2. CASE r # p
      <4>1. pc[r] \in {"push_lock", "push_link"} /\ node'[r] = node[r]
        BY <1>p, <2>3, <3>2, Zenon
      <4>2. node[r] # NULL /\ next[node[r]] = NULL
        BY <4>1 DEF InHand
      <4>3. node[r] \in Nodes /\ node[r] # n
        BY <1>n, <4>2, Zenon DEF TypeOK
      <4> QED BY <1>p, <4>1, <4>2, <4>3, Zenon
    <3> QED BY <3>1, <3>2, Zenon
  <2>4. \A r \in Procs : pc'[r] \in Holding \ {"push_tail"} => \A i \in 1 .. Len(List') : node'[r] # List'[i]
    BY <1>n, <1>p, <1>l DEF InHand, Holding
  <2>5. \A r, t \in Procs : r # t /\ node'[r] # NULL => node'[r] # node'[t]
    BY <1>n, <1>p, <1>d
  <2>6. ASSUME NEW m
        PROVE  m \in used' <=> m # NULL /\ ((\E i \in 1 .. Len(List') : m = List'[i]) \/ \E r \in Procs : m = node'[r])
    <3>1. m \in used <=> m # NULL /\ ((\E i \in 1 .. Len(List) : m = List[i]) \/ \E r \in Procs : m = node[r])
      BY Zenon DEF InHand
    <3>2. node[p] = NULL
      BY <1>0 DEF InHand, Holding
    <3>3. CASE m = n
      BY <1>00, <1>n, <1>p, <3>3, Zenon
    <3>4. CASE m # n
      <4>1. m \in used' <=> m \in used
        BY <1>00, <3>4, Zenon
      <4>2. m # NULL => ((\E r \in Procs : m = node'[r]) <=> (\E r \in Procs : m = node[r]))
        BY <1>p, <3>2, <3>4, Zenon
      <4> QED BY <1>l, <3>1, <4>1, <4>2, Zenon
    <3> QED BY <3>3, <3>4, Zenon
  <2> QED BY <2>1, <2>2, <2>3, <2>4, <2>5, <2>6, Zenon DEF InHand
<1>5. Found'
  BY <1>0, <1>p, Zenon DEF Found
<1>6. Dying'
  BY <1>0, <1>p, <1>l, ZenonT(40) DEF Dying
<1>7. \A m \in used : value'[m] = value[m]
  BY <1>p DEF TypeOK
<1> QED BY <1>l, <1>0, <1>p, <1>1, <1>2, <1>3, <1>4, <1>5, <1>6, <1>7, Zenon

(* What Append does, element by element. *)
LEMMA AppendElements ==
  ASSUME NEW S, NEW L \in Seq(S), NEW x \in S
  PROVE  /\ Append(L, x) \in Seq(S) /\ Len(L) \in Nat /\ Len(Append(L, x)) = Len(L) + 1
         /\ \A i \in 1 .. Len(L) : Append(L, x)[i] = L[i]
         /\ Append(L, x)[Len(L) + 1] = x
OBVIOUS

(* The same for Tail. *)
LEMMA TailElements ==
  ASSUME NEW S, NEW L \in Seq(S), L # <<>>
  PROVE  /\ Tail(L) \in Seq(S) /\ Len(L) \in Nat \ {0} /\ Len(Tail(L)) = Len(L) - 1
         /\ \A i \in 1 .. Len(L) - 1 : Tail(L)[i] = L[i + 1]
OBVIOUS

(* push() puts its node at the end of the list. *)
LEMMA PushLinkList ==
  ASSUME QInv, NEW p \in Procs, PushLink(p)
  PROVE  List' = Append(List, node[p]) /\ IsList(List)'
<1> USE DEF QInv
<1>0. pc[p] = "push_link" /\ node[p] \in Nodes
  BY DEF PushLink, Goto, InHand, TypeOK
<1>1. PICK L, x : L = List /\ x = node[p]
  BY Zenon
<1>2. /\ x \in Nodes /\ x # NULL /\ next[x] = NULL
      /\ \A i \in 1 .. Len(L) : x # L[i]
  BY <1>0, <1>1, QueueAssumption DEF InHand, Holding
<1>3. IsList(L)
  BY <1>1, Zenon
<1>4. tail_ = Last(L)
  <2>1. \A r \in Procs : pc[r] # "push_tail"
    BY <1>0, Zenon DEF Locking, Inside
  <2> QED BY <1>1, <2>1, Zenon DEF Tails
<1> DEFINE n == Len(L)
           M == Append(L, x)
<1>5. /\ M \in Seq(Nodes) /\ n \in Nat /\ Len(M) = n + 1 /\ M[n + 1] = x
      /\ \A i \in 1 .. n : M[i] = L[i]
  BY <1>2, <1>3, AppendElements DEF IsList
<1>6. /\ \A i, j \in 1 .. n : L[i] = L[j] => i = j
      /\ head_ = IF n = 0 THEN NULL ELSE L[1]
      /\ \A i \in 1 .. n : next[L[i]] = IF i = n THEN NULL ELSE L[i + 1]
      /\ \A i \in 1 .. n : L[i] \in Nodes
      /\ tail_ = IF n = 0 THEN NULL ELSE L[n]
  <2>1. L \in Seq(Nodes) /\ Len(L) \in Nat
    BY <1>3 DEF IsList
  <2>2. \A i \in 1 .. Len(L) : L[i] \in Nodes
    BY <2>1
  <2> QED BY <1>3, <1>4, <2>2, Zenon DEF IsList, Last
<1> HIDE DEF n, M
<1>7. ASSUME NEW i \in 1 .. n + 1, NEW j \in 1 .. n + 1, M[i] = M[j] PROVE i = j
  <2>1. CASE i \in 1 .. n /\ j \in 1 .. n
    BY <1>5, <1>6, <1>7, <2>1
  <2>2. CASE i = n + 1 /\ j \in 1 .. n
    BY <1>2, <1>5, <1>7, <2>2 DEF n
  <2>3. CASE j = n + 1 /\ i \in 1 .. n
    BY <1>2, <1>5, <1>7, <2>3 DEF n
  <2>4. CASE i = n + 1 /\ j = n + 1
    BY <2>4
  <2> QED BY <1>5, <2>1, <2>2, <2>3, <2>4
<1>8. CASE n = 0
  <2>1. head_' = x /\ next' = next
    BY <1>1, <1>6, <1>8 DEF PushLink
  <2>2. Len(M) = 1 /\ M[1] = x
    BY <1>5, <1>8
  <2>3. \A i \in 1 .. Len(M) : next'[M[i]] = IF i = Len(M) THEN NULL ELSE M[i + 1]
    BY <1>2, <2>1, <2>2
  <2>4. \A i, j \in 1 .. Len(M) : M[i] = M[j] => i = j
    BY <2>2
  <2>5. head_' = IF Len(M) = 0 THEN NULL ELSE M[1]
    BY <2>1, <2>2
  <2>6. IsList(M)'
    BY <1>5, <2>3, <2>4, <2>5, ZenonT(40) DEF IsList
  <2> QED BY <1>1, <2>6, ListNext, Zenon DEF M
<1>9. CASE n # 0
  <2>0. n \in 1 .. n /\ L[n] \in Nodes /\ tail_ = L[n] /\ L[n] # NULL /\ L[n] # x /\ 1 \in 1 .. n
    BY <1>2, <1>5, <1>6, <1>9, QueueAssumption DEF n
  <2>1. head_' = head_ /\ next' = [next EXCEPT ![L[n]] = x]
    BY <1>1, <2>0, Zenon DEF PushLink
  <2>2. next'[L[n]] = x /\ \A m \in Nodes : m # L[n] => next'[m] = next[m]
    BY <2>0, <2>1 DEF TypeOK
  <2>3. head_' = M[1]
    BY <1>5, <1>6, <1>9, <2>0, <2>1, Zenon
  <2>4. ASSUME NEW i \in 1 .. n + 1 PROVE next'[M[i]] = IF i = n + 1 THEN NULL ELSE M[i + 1]
    <3>1. CASE i = n + 1
      BY <1>2, <1>5, <2>0, <2>2, <3>1, Zenon
    <3>2. CASE i = n
      BY <1>5, <2>0, <2>2, <3>2, Zenon
    <3>3. CASE i # n /\ i # n + 1
      <4>1. i \in 1 .. n /\ i + 1 \in 1 .. n
        BY <1>5, <3>3
      <4>2. L[i] # L[n] /\ L[i] \in Nodes
        BY <1>6, <2>0, <3>3, <4>1
      <4>3. next'[L[i]] = L[i + 1]
        BY <1>6, <2>2, <3>3, <4>1, <4>2, Zenon
      <4> QED BY <1>5, <3>3, <4>1, <4>3, ZenonT(40)
    <3> QED BY <3>1, <3>2, <3>3
  <2>5. IsList(M)'
    <3>1. Len(M) # 0
      BY <1>5
    <3> QED BY <1>5, <1>7, <2>3, <2>4, <3>1, Zenon DEF IsList
  <2> QED BY <1>1, <2>5, ListNext, Zenon DEF M
<1> QED BY <1>8, <1>9, Zenon

(* pop() takes the first node off the list. *)
LEMMA PopUnlinkList ==
  ASSUME QInv, NEW p \in Procs, PopUnlink(p)
  PROVE  /\ IsList(List)'
         /\ \/ List = <<>> /\ List' = <<>> /\ head_ = NULL
            \/ List # <<>> /\ List' = Tail(List) /\ head_ = List[1] /\ head_ # NULL
<1> USE DEF QInv
<1>1. PICK L : L = List
  OBVIOUS
<1>3. IsList(L)
  BY <1>1, Zenon
<1>u. next' = next /\ head_' = IF head_ = NULL THEN NULL ELSE next[head_]
  BY Zenon DEF PopUnlink, heap
<1>4. CASE L = <<>>
  <2>1. head_ = NULL /\ head_' = head_
    BY <1>3, <1>4, <1>u DEF IsList
  <2>2. List' = List /\ IsList(List)'
    BY <1>u, <2>1, SameList, Zenon
  <2> QED BY <1>1, <1>4, <2>1, <2>2, Zenon
<1>5. CASE L # <<>>
  <2> DEFINE n == Len(L)
             M == Tail(L)
  <2>1. /\ M \in Seq(Nodes) /\ n \in Nat \ {0} /\ Len(M) = n - 1
        /\ \A i \in 1 .. n - 1 : M[i] = L[i + 1]
    BY <1>3, <1>5, TailElements DEF IsList
  <2>2. /\ \A i, j \in 1 .. n : L[i] = L[j] => i = j
        /\ head_ = IF n = 0 THEN NULL ELSE L[1]
        /\ \A i \in 1 .. n : next[L[i]] = IF i = n THEN NULL ELSE L[i + 1]
        /\ \A i \in 1 .. n : L[i] \in Nodes
    BY <1>3 DEF IsList
  <2> HIDE DEF n, M
  <2>3. 1 \in 1 .. n /\ head_ = L[1] /\ head_ # NULL
    BY <2>1, <2>2, QueueAssumption
  <2>4. head_' = IF n = 1 THEN NULL ELSE L[2]
    BY <1>u, <2>1, <2>2, <2>3
  <2>5. ASSUME NEW i \in 1 .. n - 1, NEW j \in 1 .. n - 1, M[i] = M[j] PROVE i = j
    <3>1. i + 1 \in 1 .. n /\ j + 1 \in 1 .. n /\ L[i + 1] = L[j + 1]
      BY <2>1, <2>5
    <3>2. i + 1 = j + 1
      BY <2>2, <3>1
    <3> QED BY <3>2
  <2>6. ASSUME NEW i \in 1 .. n - 1 PROVE next'[M[i]] = IF i = n - 1 THEN NULL ELSE M[i + 1]
    <3>1. i + 1 \in 1 .. n /\ M[i] = L[i + 1] /\ (i = n - 1 <=> i + 1 = n)
      BY <2>1
    <3>2. next[L[i + 1]] = IF i + 1 = n THEN NULL ELSE L[(i + 1) + 1]
      BY <2>2, <3>1
    <3>3. i # n - 1 => i + 1 \in 1 .. n - 1 /\ M[i + 1] = L[(i + 1) + 1]
      BY <2>1
    <3> QED BY <1>u, <3>1, <3>2, <3>3
  <2>7. head_' = IF Len(M) = 0 THEN NULL ELSE M[1]
    <3>1. CASE n = 1
      BY <2>1, <2>4, <3>1
    <3>2. CASE n # 1
      <4>1. 1 \in 1 .. n - 1 /\ 1 + 1 = 2
        BY <2>1, <3>2
      <4> QED BY <2>1, <2>4, <3>2, <4>1
    <3> QED BY <3>1, <3>2
  <2>8. IsList(M)'
    BY <2>1, <2>5, <2>6, <2>7 DEF IsList
  <2> QED BY <1>1, <1>5, <2>3, <2>8, ListNext, Zenon DEF M
<1> QED BY <1>4, <1>5

(* push() links its node. *)
LEMMA PushLinkStep ==
  ASSUME QInv, NEW p \in Procs, PushLink(p)
  PROVE  QInv'
<1> USE DEF QInv
<1>0. /\ pc[p] = "push_link" /\ pc' = [pc EXCEPT ![p] = "push_tail"]
      /\ UNCHANGED <<lock_, tail_, value, used, node, out, alive>>
  BY Zenon DEF PushLink, Goto
<1>p. pc'[p] = "push_tail" /\ \A r \in Procs : r # p => pc'[r] = pc[r]
  BY <1>0 DEF TypeOK
<1>l. List' = Append(List, node[p]) /\ IsList(List)'
  BY PushLinkList
<1>x. node[p] # NULL /\ node[p] \in Nodes /\ \A r \in Procs : r # p => node[r] # node[p]
  BY <1>0 DEF InHand, TypeOK
<1>e. /\ Len(List) \in Nat /\ Len(List') = Len(List) + 1 /\ List'[Len(List) + 1] = node[p]
      /\ \A i \in 1 .. Len(List) : List'[i] = List[i]
  BY <1>l, <1>x, AppendElements DEF IsList
<1>r. \A n : (\E i \in 1 .. Len(List') : n = List'[i]) <=> (n = node[p] \/ \E i \in 1 .. Len(List) : n = List[i])
  <2> SUFFICES ASSUME NEW n
               PROVE  (\E i \in 1 .. Len(List') : n = List'[i]) <=> (n = node[p] \/ \E i \in 1 .. Len(List) : n = List[i])
    BY Zenon
  <2>1. ASSUME NEW i \in 1 .. Len(List'), n = List'[i] PROVE n = node[p] \/ \E j \in 1 .. Len(List) : n = List[j]
    <3>1. i \in 1 .. Len(List) \/ i = Len(List) + 1
      BY <1>e
    <3> QED BY <1>e, <2>1, <3>1, Zenon
  <2>2. Len(List) + 1 \in 1 .. Len(List') /\ \A i \in 1 .. Len(List) : i \in 1 .. Len(List')
    BY <1>e
  <2> QED BY <1>e, <2>1, <2>2, Zenon
<1>o. \A r \in Procs : r # p => pc[r] \notin Inside
  BY <1>0 DEF Locking, Inside
<1>1. TypeOK'
  <2>1. head_' \in Nodes \cup {NULL} /\ next' \in [Nodes -> Nodes \cup {NULL}]
    BY <1>x DEF PushLink, TypeOK
  <2> QED BY <1>0, <2>1 DEF TypeOK, Labels, Inside
<1>2. Locking'
  BY <1>0, <1>p, <1>o DEF Locking, Inside
<1>3. Tails'
  <2>1. Last(List') = node[p]
    BY <1>e DEF Last
  <2>2. \A r \in Procs : pc'[r] = "push_tail" => r = p
    BY <1>p, <1>o DEF Inside
  <2> QED BY <1>0, <1>p, <2>1, <2>2, Zenon DEF Tails, Last
<1>4. InHand'
  <2>1. \A r \in Procs : pc'[r] \notin Holding => node'[r] = NULL
    BY <1>0, <1>p, Zenon DEF InHand, Holding
  <2>2. \A r \in Procs : pc'[r] \in {"push_lock", "push_link", "push_tail", "pop_delete"} => node'[r] # NULL
    BY <1>0, <1>p, <1>x DEF InHand
  <2>3. ASSUME NEW r \in Procs, pc'[r] \in {"push_lock", "push_link"} PROVE next'[node'[r]] = NULL
    <3>1. r # p /\ pc[r] \in {"push_lock", "push_link"} /\ node'[r] = node[r]
      BY <1>0, <1>p, <2>3, ZenonT(40)
    <3>2. /\ next[node[r]] = NULL /\ node[r] # NULL
          /\ \A i \in 1 .. Len(List) : node[r] # List[i]
      BY <3>1 DEF InHand, Holding
    <3>3. node[r] # tail_
      <4>1. tail_ = Last(List)
        <5>1. \A t \in Procs : pc[t] # "push_tail"
          BY <1>0, <1>o DEF Inside
        <5> QED BY <5>1, Zenon DEF Tails
      <4> QED BY <1>e, <3>2, <4>1 DEF Last
    <3>4. next'[node[r]] = next[node[r]]
      <4>1. next' = next \/ next' = [next EXCEPT ![tail_] = node[p]]
        BY Zenon DEF PushLink
      <4>2. node[r] \in Nodes
        BY <3>2 DEF TypeOK
      <4> QED BY <3>3, <4>1, <4>2 DEF TypeOK
    <3> QED BY <3>1, <3>2, <3>4
  <2>4. ASSUME NEW r \in Procs, pc'[r] \in Holding \ {"push_tail"}, NEW i \in 1 .. Len(List') PROVE node'[r] # List'[i]
    <3>1. r # p /\ pc[r] \in Holding \ {"push_tail"} /\ node'[r] = node[r]
      BY <1>0, <1>p, <2>4
    <3>2. node[r] # node[p] /\ \A j \in 1 .. Len(List) : node[r] # List[j]
      BY <1>x, <3>1, Zenon DEF InHand
    <3> QED BY <1>r, <3>1, <3>2, Zenon
  <2>5. \A r, t \in Procs : r # t /\ node'[r] # NULL => node'[r] # node'[t]
    BY <1>0, Zenon DEF InHand
  <2>6. \A n : n \in used' <=> n # NULL /\ ((\E i \in 1 .. Len(List') : n = List'[i]) \/ \E r \in Procs : n = node'[r])
    BY <1>0, <1>r, ZenonT(40) DEF InHand
  <2> QED BY <2>1, <2>2, <2>3, <2>4, <2>5, <2>6, Zenon DEF InHand
<1>5. Found'
  BY <1>0, <1>p, Zenon DEF Found
<1>6. Dying'
  <2>1. alive
    BY <1>0 DEF Dying
  <2>2. \A r \in Procs : pc[r] # "dead"
    BY <2>1 DEF Dying
  <2> QED BY <1>0, <1>p, <2>1, <2>2, Zenon DEF Dying
<1> QED BY <1>l, <1>1, <1>2, <1>3, <1>4, <1>5, <1>6, Zenon

(* pop() unlinks a node. *)
LEMMA PopUnlinkStep ==
  ASSUME QInv, NEW p \in Procs, PopUnlink(p)
  PROVE  QInv'
<1> USE DEF QInv
<1>0. /\ pc[p] = "pop_unlink" /\ pc' = [pc EXCEPT ![p] = "pop_unlock"]
      /\ node' = [node EXCEPT ![p] = head_]
      /\ tail_' = IF head_' = NULL THEN NULL ELSE tail_
      /\ head_' = IF head_ = NULL THEN NULL ELSE next[head_]
      /\ UNCHANGED <<lock_, value, next, used, out, alive>>
  BY Zenon DEF PopUnlink, Goto, heap
<1>p. /\ pc'[p] = "pop_unlock" /\ \A r \in Procs : r # p => pc'[r] = pc[r]
      /\ node'[p] = head_ /\ \A r \in Procs : r # p => node'[r] = node[r]
  BY <1>0 DEF TypeOK
<1>o. \A r \in Procs : r # p => pc[r] \notin Inside
  BY <1>0 DEF Locking, Inside
<1>l. /\ IsList(List)'
      /\ \/ List = <<>> /\ List' = <<>> /\ head_ = NULL
         \/ List # <<>> /\ List' = Tail(List) /\ head_ = List[1] /\ head_ # NULL
  BY PopUnlinkList
<1>n. node[p] = NULL
  BY <1>0 DEF InHand, Holding
<1>e. /\ Len(List) \in Nat /\ Len(List') \in Nat
      /\ \A i, j \in 1 .. Len(List) : List[i] = List[j] => i = j
      /\ List # <<>> => /\ Len(List) # 0 /\ Len(List') = Len(List) - 1
                        /\ \A i \in 1 .. Len(List) - 1 : List'[i] = List[i + 1]
      /\ List = <<>> => Len(List) = 0 /\ Len(List') = 0
  <2>1. Len(List) \in Nat /\ List \in Seq(Nodes) /\ \A i, j \in 1 .. Len(List) : List[i] = List[j] => i = j
    BY DEF IsList
  <2>2. List # <<>> => /\ Len(List) # 0 /\ Len(List') = Len(List) - 1
                       /\ \A i \in 1 .. Len(List) - 1 : List'[i] = List[i + 1]
    BY <1>l, <2>1, TailElements
  <2>3. List = <<>> => Len(List) = 0 /\ Len(List') = 0
    BY <1>l
  <2>4. Len(List') \in Nat
    BY <2>1, <2>2, <2>3
  <2> QED BY <2>1, <2>2, <2>3, <2>4, Zenon
<1>r. \A n : n # NULL => ((\E i \in 1 .. Len(List) : n = List[i]) <=> (n = head_ \/ \E i \in 1 .. Len(List') : n = List'[i]))
  <2> SUFFICES ASSUME NEW n, n # NULL
               PROVE  (\E i \in 1 .. Len(List) : n = List[i]) <=> (n = head_ \/ \E i \in 1 .. Len(List') : n = List'[i])
    BY Zenon
  <2>1. CASE List = <<>>
    <3>1. \A i \in 1 .. Len(List) : FALSE
      BY <1>e, <2>1
    <3>2. \A i \in 1 .. Len(List') : FALSE
      BY <1>e, <2>1
    <3> QED BY <1>l, <2>1, <3>1, <3>2, ZenonT(40)
  <2>2. CASE List # <<>>
    <3>1. ASSUME NEW i \in 1 .. Len(List), n = List[i] PROVE n = head_ \/ \E j \in 1 .. Len(List') : n = List'[j]
      <4>1. CASE i = 1
        BY <1>l, <2>2, <3>1, <4>1
      <4>2. CASE i # 1
        <5>1. i - 1 \in 1 .. Len(List') /\ i - 1 \in 1 .. Len(List) - 1 /\ (i - 1) + 1 = i
          BY <1>e, <2>2, <4>2
        <5>2. List'[i - 1] = List[i]
          BY <1>e, <2>2, <5>1
        <5> QED BY <3>1, <5>1, <5>2, Zenon
      <4> QED BY <4>1, <4>2, Zenon
    <3>2. ASSUME NEW j \in 1 .. Len(List'), n = List'[j] PROVE \E i \in 1 .. Len(List) : n = List[i]
      <4>1. j \in 1 .. Len(List) - 1 /\ j + 1 \in 1 .. Len(List)
        BY <1>e, <2>2
      <4> QED BY <1>e, <2>2, <3>2, <4>1
    <3>3. 1 \in 1 .. Len(List) /\ head_ = List[1]
      BY <1>l, <1>e, <2>2
    <3> QED BY <3>1, <3>2, <3>3, Zenon
  <2> QED BY <2>1, <2>2, Zenon
<1>h. \A i \in 1 .. Len(List') : head_ # List'[i]
  <2>1. CASE List = <<>>
    BY <1>e, <2>1
  <2>2. CASE List # <<>>
    <3> SUFFICES ASSUME NEW i \in 1 .. Len(List'), head_ = List'[i] PROVE FALSE
      BY Zenon
    <3>1. i + 1 \in 1 .. Len(List) /\ 1 \in 1 .. Len(List) /\ i \in 1 .. Len(List) - 1 /\ i + 1 # 1
      BY <1>e, <2>2
    <3>2. List[i + 1] = List[1]
      BY <1>l, <1>e, <2>2, <3>1
    <3> QED BY <1>e, <3>1, <3>2, Zenon
  <2> QED BY <2>1, <2>2, Zenon
<1>d. \A r \in Procs : r # p /\ node[r] # NULL => node[r] # head_
  <2> SUFFICES ASSUME NEW r \in Procs, r # p, node[r] # NULL, node[r] = head_ PROVE FALSE
    BY Zenon
  <2>1. pc[r] \in Holding \ {"push_tail"}
    BY <1>o DEF InHand, Holding, Inside
  <2>2. head_ = List[1] /\ 1 \in 1 .. Len(List)
    BY <1>l, <1>e
  <2> QED BY <2>1, <2>2, Zenon DEF InHand
<1>1. TypeOK'
  BY <1>0, Zenon DEF TypeOK, Labels, Inside
<1>2. Locking'
  BY <1>0, <1>p, <1>o DEF Locking, Inside
<1>3. Tails'
  <2>1. \A r \in Procs : pc'[r] # "push_tail" /\ pc[r] # "push_tail"
    BY <1>0, <1>p, <1>o DEF Inside
  <2>2. tail_ = Last(List)
    BY <2>1, Zenon DEF Tails
  <2>3. tail_' = Last(List')
    <3>1. CASE Len(List') = 0
      <4>1. head_' = NULL
        BY <1>l, <3>1, ZenonT(40) DEF IsList
      <4> QED BY <1>0, <3>1, <4>1, Zenon DEF Last
    <3>2. CASE Len(List') # 0
      <4>1. head_' = List'[1] /\ head_' # NULL
        <5>1. head_' = List'[1]
          BY <1>l, <3>2, Zenon DEF IsList
        <5>2. List'[1] \in Nodes
          BY <1>l, <1>e, <3>2 DEF IsList
        <5> QED BY <5>1, <5>2, QueueAssumption
      <4>2. List # <<>> /\ Len(List') \in 1 .. Len(List) - 1 /\ Len(List') + 1 = Len(List)
        BY <1>l, <1>e, <3>2
      <4>3. List'[Len(List')] = List[Len(List)]
        BY <1>e, <4>2
      <4> QED BY <1>0, <1>e, <2>2, <3>2, <4>1, <4>2, <4>3 DEF Last
    <3> QED BY <3>1, <3>2, Zenon
  <2> QED BY <2>1, <2>3, Zenon DEF Tails, Last
<1>4. InHand'
  <2>1. \A r \in Procs : pc'[r] \notin Holding => node'[r] = NULL
    BY <1>p DEF InHand, Holding
  <2>2. \A r \in Procs : pc'[r] \in {"push_lock", "push_link", "push_tail", "pop_delete"} => node'[r] # NULL
    BY <1>p, Zenon DEF InHand
  <2>3. \A r \in Procs : pc'[r] \in {"push_lock", "push_link"} => next'[node'[r]] = NULL
    BY <1>0, <1>p DEF InHand
  <2>4. ASSUME NEW r \in Procs, pc'[r] \in Holding \ {"push_tail"}, NEW i \in 1 .. Len(List') PROVE node'[r] # List'[i]
    <3>1. CASE r = p
      BY <1>p, <1>h, <3>1, Zenon
    <3>2. CASE r # p
      <4>1. \A j \in 1 .. Len(List) : node[r] # List[j]
        BY <1>p, <2>4, <3>2, Zenon DEF InHand
      <4>2. List'[i] # NULL
        <5>1. List'[i] \in Nodes
          BY <1>l, <1>e DEF IsList
        <5> QED BY <5>1, QueueAssumption
      <4>3. \E j \in 1 .. Len(List) : List'[i] = List[j]
        BY <1>r, <4>2, Zenon
      <4> QED BY <1>p, <3>2, <4>1, <4>3, Zenon
    <3> QED BY <3>1, <3>2, Zenon
  <2>5. \A r, t \in Procs : r # t /\ node'[r] # NULL => node'[r] # node'[t]
    <3>1. \A r, t \in Procs : r # t /\ node[r] # NULL => node[r] # node[t]
      BY Zenon DEF InHand
    <3> QED BY <1>p, <1>d, <3>1
  <2>6. ASSUME NEW n
        PROVE  n \in used' <=> n # NULL /\ ((\E i \in 1 .. Len(List') : n = List'[i]) \/ \E r \in Procs : n = node'[r])
    <3>1. n \in used <=> n # NULL /\ ((\E i \in 1 .. Len(List) : n = List[i]) \/ \E r \in Procs : n = node[r])
      BY Zenon DEF InHand
    <3>2. n # NULL => ((\E r \in Procs : n = node'[r]) <=> (n = head_ \/ \E r \in Procs : n = node[r]))
      BY <1>n, <1>p, Zenon
    <3> QED BY <1>0, <1>r, <3>1, <3>2, Zenon
  <2> QED BY <2>1, <2>2, <2>3, <2>4, <2>5, <2>6, ZenonT(40) DEF InHand
<1>5. Found'
  BY <1>0, <1>p DEF Found
<1>6. Dying'
  <2>1. List = <<>> => List' = <<>>
    BY <1>l, Zenon
  <2>2. head_ = NULL => List' = <<>>
    BY <1>l, Zenon
  <2> QED BY <1>0, <1>p, <2>1, <2>2 DEF Dying
<1> QED BY <1>l, <1>1, <1>2, <1>3, <1>4, <1>5, <1>6, Zenon

-----------------------------------------------------------------------------
(* Every step of Next, and a step that changes nothing. *)
LEMMA QInvStep == QInv /\ [Next]_vars => QInv'
<1> SUFFICES ASSUME QInv, [Next]_vars PROVE QInv'
  BY Zenon
<1>1. CASE UNCHANGED vars
  <2>1. List' = List /\ IsList(List)'
    BY <1>1, SameList, Zenon DEF QInv, vars, queue, heap
  <2>2. UNCHANGED <<lock_, head_, tail_, value, next, used, pc, node, out, alive>>
    BY <1>1, Zenon DEF vars, queue, heap
  <2>3. TypeOK' /\ Locking' /\ Found'
    BY <2>2, Zenon DEF QInv, TypeOK, Locking, Found
  <2>4. Tails'
    BY <2>1, <2>2, Zenon DEF QInv, Tails, Last
  <2>5. InHand'
    BY <2>1, <2>2, SameInHand, Zenon DEF QInv, SamePlace
  <2>6. Dying'
    BY <2>1, <2>2, Zenon DEF QInv, Dying
  <2> QED BY <2>1, <2>3, <2>4, <2>5, <2>6, Zenon DEF QInv
<1>2. ASSUME NEW p \in Procs, Step(p) PROVE QInv'
  <2>1. CASE PushNew(p)
    BY <2>1, PushNewStep, Zenon
  <2>2. CASE PushLock(p) \/ PopLock(p) \/ EmptyLock(p)
    BY <2>2, LockStep, Zenon DEF PushLock, PopLock, EmptyLock
  <2>3. CASE PushLink(p)
    BY <2>3, PushLinkStep, Zenon
  <2>4. CASE PushTail(p)
    BY <2>4, PushTailStep, Zenon
  <2>5. CASE PushUnlock(p) \/ PopUnlock(p)
    BY <2>5, UnlockStep, Zenon DEF PushUnlock, PopUnlock
  <2>6. CASE PopCall(p)
    BY <2>6, PopCallStep, Zenon
  <2>7. CASE PopUnlink(p)
    BY <2>7, PopUnlinkStep, Zenon
  <2>8. CASE PopRead(p)
    BY <2>8, PopReadStep, Zenon
  <2>9. CASE PopDelete(p)
    BY <2>9, PopDeleteStep, Zenon
  <2>10. CASE PopReturn(p)
    BY <2>10, PopReturnStep, Zenon
  <2>11. CASE Destroy(p)
    BY <2>11, DestroyStep, Zenon
  <2>12. CASE Construct(p)
    BY <2>12, ConstructStep, Zenon
  <2>13. CASE Spin(p)
    BY <1>1, <2>13, Zenon DEF Spin
  <2>14. CASE EmptyRead(p) \/ EmptyUnlock(p)
    BY <2>14, EmptyStep, Zenon
  <2> QED BY <1>2, <2>1, <2>2, <2>3, <2>4, <2>5, <2>6, <2>7, <2>8, <2>9, <2>10, <2>11, <2>12, <2>13, <2>14, Zenon DEF Step
<1> QED BY <1>1, <1>2, Zenon DEF Next

(* The invariant holds of every run of the cores on a SpinQueue. *)
THEOREM QueueInvariance == Spec => []QInv
BY QInit, QInvStep, PTL DEF Spec

(* The list ends, at tail_, whenever the lock is free: a core that takes   *)
(* it in push() or pop() always meets a sound list.                        *)
THEOREM ListStaysSound == Spec => []ListSound
<1>1. QInv => ListSound
  <2> SUFFICES ASSUME QInv PROVE ListSound
    OBVIOUS
  <2>1. IsList(List) /\ Length = Len(List) /\ Len(List) <= Cardinality(Nodes)
    BY ListNow, ListFits, Zenon DEF QInv
  <2>2. ASSUME ~lock_ PROVE tail_ = Last(List)
    BY <2>2 DEF QInv, Locking, Tails, Inside
  <2>3. head_ = NULL <=> Len(List) = 0
    <3>1. Len(List) # 0 => 1 \in 1 .. Len(List)
      BY ListNodes DEF QInv
    <3> QED BY <2>1, <3>1, ListNodes, Zenon DEF IsList
  <2>4. ASSUME ~lock_ PROVE IF head_ = NULL THEN tail_ = NULL ELSE tail_ = List[Length]
    BY <2>1, <2>2, <2>3, <2>4, Zenon DEF Last
  <2> QED BY <2>1, <2>4, Zenon DEF QInv, ListSound
<1> QED BY <1>1, QueueInvariance, PTL

(* Every allocated node is in the list or in one core's hands: delete in   *)
(* pop() never frees a node that is linked, and none leaks.                *)
THEOREM NodesAreOwned == Spec => []NodesOwned
<1>1. QInv => NodesOwned
  <2> SUFFICES ASSUME QInv PROVE NodesOwned
    OBVIOUS
  <2>1. IsList(List) /\ Length = Len(List)
    BY ListNow, Zenon DEF QInv
  <2>2. \A n : n \in Linked <=> \E i \in 1 .. Len(List) : n = List[i]
    BY <2>1, Zenon DEF Linked
  <2>3. \A n \in Linked : n # NULL
    BY <2>1, <2>2, ListNodes, Zenon
  <2>4. ASSUME NEW n PROVE n \in used <=> n \in Linked \cup ({node[p] : p \in Procs} \ {NULL})
    BY <2>2, <2>3, Zenon DEF QInv, InHand
  <2>5. used = Linked \cup ({node[p] : p \in Procs} \ {NULL})
    BY <2>4, Zenon
  <2>6. \A p \in Procs :
          pc[p] \in {"push_lock", "push_link", "pop_unlock", "pop_read", "pop_delete"} => node[p] \notin Linked
    BY <2>2 DEF QInv, InHand, Holding
  <2>7. ASSUME NEW p \in Procs, pc[p] = "dead" PROVE used = {}
    <3>1. ~alive /\ List = <<>>
      BY <2>7, Zenon DEF QInv, Dying
    <3>2. \A r \in Procs : node[r] = NULL
      <4>1. \A r \in Procs : pc[r] \notin Holding
        BY <2>7, <3>1 DEF QInv, Dying, Holding
      <4> QED BY <4>1, Zenon DEF QInv, InHand
    <3>3. \A i \in 1 .. Len(List) : FALSE
      BY <3>1
    <3>4. \A n : n \notin used
      BY <3>2, <3>3, Zenon DEF QInv, InHand
    <3> QED BY <3>4, Zenon
  <2> QED BY <2>5, <2>6, <2>7, Zenon DEF QInv, InHand, NodesOwned
<1> QED BY <1>1, QueueInvariance, PTL

-----------------------------------------------------------------------------
(* The refinement: what the list and the cores stand for.                  *)
AbsQueue == [i \in 1 .. Length |-> value[List[i]]]
AbsRet   == [p \in Procs |-> Ret(p)]

(* The values in the list, as a sequence. *)
LEMMA AbsQueueIs ==
  ASSUME QInv
  PROVE  /\ AbsQueue = [i \in 1 .. Len(List) |-> value[List[i]]]
         /\ AbsQueue \in Seq(Values) /\ Len(AbsQueue) = Len(List)
<1>1. Length = Len(List) /\ Len(List) \in Nat /\ \A i \in 1 .. Len(List) : List[i] \in Nodes
  BY ListNow, ListNodes, Zenon DEF QInv
<1>2. AbsQueue = [i \in 1 .. Len(List) |-> value[List[i]]]
  BY <1>1, Zenon DEF AbsQueue
<1>3. \A i \in 1 .. Len(List) : value[List[i]] \in Values
  BY <1>1 DEF QInv, TypeOK
<1> QED BY <1>1, <1>2, <1>3

(* The same, as one formula. *)
LEMMA AbsQueueNow == QInv => /\ AbsQueue = [i \in 1 .. Len(List) |-> value[List[i]]]
                             /\ AbsQueue \in Seq(Values) /\ Len(AbsQueue) = Len(List)
BY AbsQueueIs

(* The values in the list after a step. *)
LEMMA AbsQueueNext == (QInv => /\ AbsQueue = [i \in 1 .. Len(List) |-> value[List[i]]]
                               /\ AbsQueue \in Seq(Values) /\ Len(AbsQueue) = Len(List))'
BY AbsQueueNow, PTL

(* A step that keeps the list, its values and what every pop() will return *)
(* is not seen.                                                            *)
LEMMA Unseen ==
  ASSUME QInv, QInv', List' = List,
         \A i \in 1 .. Len(List) : value'[List[i]] = value[List[i]],
         \A r \in Procs : Ret(r)' = Ret(r)
  PROVE  UNCHANGED <<AbsQueue, AbsRet>>
<1>1. AbsQueue' = AbsQueue
  BY AbsQueueNow, AbsQueueNext
<1>2. AbsRet' = AbsRet
  BY Zenon DEF AbsRet
<1> QED BY <1>1, <1>2

(* What a core that does not move will return. *)
LEMMA OthersRet ==
  ASSUME NEW r \in Procs, pc'[r] = pc[r], node'[r] = node[r], out'[r] = out[r],
         node[r] # NULL => value'[node[r]] = value[node[r]]
  PROVE  Ret(r)' = Ret(r)
BY Zenon DEF Ret

(* A step of p that touches neither the list nor a value is not seen, when *)
(* it does not change what p's pop() will return.                          *)
LEMMA Quiet ==
  ASSUME QInv, QInv', NEW p \in Procs, UNCHANGED <<head_, value, next>>,
         \A r \in Procs : r # p => pc'[r] = pc[r] /\ node'[r] = node[r] /\ out'[r] = out[r],
         Ret(p)' = Ret(p)
  PROVE  UNCHANGED <<AbsQueue, AbsRet>>
<1>1. List' = List
  BY SameList DEF QInv
<1>2. \A r \in Procs : Ret(r)' = Ret(r)
  BY OthersRet, Zenon
<1> QED BY <1>1, <1>2, Unseen, Zenon

(* A sequence is the function of its elements. *)
LEMMA SeqIsFunction ==
  ASSUME NEW S, NEW L \in Seq(S)
  PROVE  L = [i \in 1 .. Len(L) |-> L[i]]
OBVIOUS

(* push(): the node it links goes to the end of the queue. *)
LEMMA PushRefines ==
  ASSUME QInv, QInv', NEW p \in Procs, PushLink(p)
  PROVE  /\ \E v \in Values : AbsQueue' = Append(AbsQueue, v)
         /\ UNCHANGED AbsRet
<1>0. /\ pc[p] = "push_link" /\ pc' = [pc EXCEPT ![p] = "push_tail"]
      /\ UNCHANGED <<value, node, out>>
  BY ZenonT(40) DEF PushLink, Goto
<1>1. node[p] \in Nodes
  BY <1>0 DEF QInv, InHand, TypeOK
<1> DEFINE v == value[node[p]]
           n == Len(List)
           Q == AbsQueue
<1>2. v \in Values
  BY <1>1 DEF QInv, TypeOK
<1>3. /\ n \in Nat /\ Len(List') = n + 1 /\ List'[n + 1] = node[p]
      /\ \A i \in 1 .. n : List'[i] = List[i]
  <2>1. List' = Append(List, node[p]) /\ List \in Seq(Nodes)
    BY PushLinkList DEF QInv, IsList
  <2> QED BY <1>1, <2>1, AppendElements
<1>4. Q = [i \in 1 .. n |-> value[List[i]]] /\ Q \in Seq(Values) /\ Len(Q) = n
  BY AbsQueueNow
<1>5. Q' = [i \in 1 .. n + 1 |-> value[List'[i]]]
  <2>1. Q' = [i \in 1 .. Len(List') |-> value'[List'[i]]]
    BY AbsQueueNext
  <2> QED BY <1>0, <1>3, <2>1
<1>6. /\ Append(Q, v) \in Seq(Values) /\ Len(Append(Q, v)) = n + 1
      /\ \A i \in 1 .. n : Append(Q, v)[i] = Q[i]
      /\ Append(Q, v)[n + 1] = v
  BY <1>2, <1>4, AppendElements
<1>7. Append(Q, v) = [i \in 1 .. n + 1 |-> Append(Q, v)[i]]
  BY <1>6, SeqIsFunction, Zenon
<1>8. \A i \in 1 .. n + 1 : Append(Q, v)[i] = value[List'[i]]
  <2> SUFFICES ASSUME NEW i \in 1 .. n + 1 PROVE Append(Q, v)[i] = value[List'[i]]
    BY ZenonT(40)
  <2>1. CASE i = n + 1
    BY <1>3, <1>6, <2>1
  <2>2. CASE i \in 1 .. n
    BY <1>3, <1>4, <1>6, <2>2
  <2> HIDE DEF n
  <2>3. i = n + 1 \/ i \in 1 .. n
    BY <1>3
  <2> QED BY <2>1, <2>2, <2>3, Zenon
<1> HIDE DEF n, v, Q
<1>9. Q' = Append(Q, v)
  BY <1>5, <1>7, <1>8, Zenon
<1>10. UNCHANGED AbsRet
  <2>1. \A r \in Procs : Ret(r)' = Ret(r)
    BY <1>0 DEF Ret, QInv, TypeOK
  <2> QED BY <2>1 DEF AbsRet
<1> QED BY <1>2, <1>9, <1>10 DEF Q

(* pop(): the node it unlinks is the oldest of the queue, and there is     *)
(* none only when the queue is empty.                                      *)
LEMMA PopRefines ==
  ASSUME QInv, QInv', NEW p \in Procs, PopUnlink(p)
  PROVE  /\ AbsRet[p] = None
         /\ \/ AbsQueue # <<>> /\ AbsQueue' = Tail(AbsQueue) /\ AbsRet' = [AbsRet EXCEPT ![p] = Head(AbsQueue)]
            \/ AbsQueue = <<>> /\ AbsQueue' = AbsQueue /\ AbsRet' = [AbsRet EXCEPT ![p] = Empty]
<1>0. /\ pc[p] = "pop_unlink" /\ pc' = [pc EXCEPT ![p] = "pop_unlock"]
      /\ node' = [node EXCEPT ![p] = head_]
      /\ UNCHANGED <<value, out>>
  BY Zenon DEF PopUnlink, Goto, heap
<1>p. /\ pc'[p] = "pop_unlock" /\ \A r \in Procs : r # p => pc'[r] = pc[r]
      /\ node'[p] = head_ /\ \A r \in Procs : r # p => node'[r] = node[r]
  BY <1>0 DEF QInv, TypeOK
<1>1. AbsRet[p] = None
  BY <1>0 DEF AbsRet, Ret, QInv, Found
<1>2. AbsRet' = [AbsRet EXCEPT ![p] = IF head_ = NULL THEN Empty ELSE value[head_]]
  <2>1. \A r \in Procs : r # p => Ret(r)' = Ret(r)
    BY <1>0, <1>p, OthersRet, Zenon
  <2>2. Ret(p)' = IF head_ = NULL THEN Empty ELSE value[head_]
    BY <1>0, <1>p DEF Ret
  <2> QED BY <2>1, <2>2, Zenon DEF AbsRet
<1> DEFINE n == Len(List)
           Q == AbsQueue
<1>3. Q = [i \in 1 .. n |-> value[List[i]]] /\ Q \in Seq(Values) /\ Len(Q) = n
  BY AbsQueueNow, Zenon
<1>4. Q' = [i \in 1 .. Len(List') |-> value[List'[i]]] /\ Q' \in Seq(Values) /\ Len(Q') = Len(List')
  BY <1>0, AbsQueueNext, Zenon
<1>5. CASE List = <<>> /\ List' = <<>> /\ head_ = NULL
  <2>1. Q = <<>> /\ Q' = <<>>
    BY <1>3, <1>4, <1>5
  <2> QED BY <1>1, <1>2, <1>5, <2>1
<1>6. CASE List # <<>> /\ List' = Tail(List) /\ head_ = List[1] /\ head_ # NULL
  <2>1. /\ n \in Nat \ {0} /\ Len(List') = n - 1
        /\ \A i \in 1 .. n - 1 : List'[i] = List[i + 1]
    <3>1. List \in Seq(Nodes)
      BY DEF QInv, IsList
    <3> QED BY <1>6, <3>1, TailElements
  <2> HIDE DEF n, Q
  <2>2. Q # <<>>
    BY <1>3, <2>1, Zenon
  <2>3. Head(Q) = value[head_]
    BY <1>3, <1>6, <2>1
  <2>4. /\ Tail(Q) \in Seq(Values) /\ Len(Tail(Q)) = n - 1
        /\ \A i \in 1 .. n - 1 : Tail(Q)[i] = Q[i + 1]
    BY <1>3, <2>2, TailElements, Zenon
  <2>5. Tail(Q) = [i \in 1 .. n - 1 |-> Tail(Q)[i]]
    BY <2>4, SeqIsFunction, Zenon
  <2>6. ASSUME NEW i \in 1 .. n - 1 PROVE Tail(Q)[i] = value[List'[i]]
    <3>1. i + 1 \in 1 .. n
      BY <2>1
    <3>2. Q[i + 1] = value[List[i + 1]]
      BY <1>3, <3>1
    <3> QED BY <2>1, <2>4, <3>2
  <2>7. Q' = [i \in 1 .. n - 1 |-> value[List'[i]]]
    BY <1>4, <2>1
  <2>8. Q' = Tail(Q)
    BY <2>5, <2>6, <2>7, Zenon
  <2> QED BY <1>1, <1>2, <1>6, <2>2, <2>3, <2>8, Zenon DEF Q
<1> QED BY <1>5, <1>6, PopUnlinkList

(* empty(): what it sees in head_ is whether the queue is empty. *)
LEMMA LookRefines ==
  ASSUME QInv, QInv', NEW p \in Procs, EmptyRead(p) \/ EmptyUnlock(p)
  PROVE  /\ AbsQueue' = AbsQueue
         /\ EmptyRead(p) => /\ AbsRet[p] = None
                            /\ AbsRet' = [AbsRet EXCEPT ![p] = IF AbsQueue = <<>> THEN Empty ELSE Filled]
         /\ EmptyUnlock(p) => AbsRet[p] # None /\ AbsRet' = [AbsRet EXCEPT ![p] = None]
<1>0. UNCHANGED <<head_, value, next, node>>
  BY Zenon DEF EmptyRead, EmptyUnlock, queue, heap
<1>1. AbsQueue' = AbsQueue
  <2>1. List' = List
    BY <1>0, SameList, Zenon DEF QInv
  <2> QED BY <1>0, <2>1, AbsQueueNow, AbsQueueNext, Zenon
<1>2. AbsQueue = <<>> <=> head_ = NULL
  <2>1. head_ = NULL <=> Len(List) = 0
    <3>1. Len(List) # 0 => 1 \in 1 .. Len(List)
      BY ListNodes DEF QInv
    <3> QED BY <3>1, ListNodes, Zenon DEF QInv, IsList
  <2>2. AbsQueue \in Seq(Values) /\ Len(AbsQueue) = Len(List)
    BY AbsQueueNow, Zenon
  <2>3. AbsQueue = <<>> <=> Len(AbsQueue) = 0
    BY <2>2
  <2> QED BY <2>1, <2>2, <2>3, Zenon
<1>3. ASSUME NEW v, NEW from, NEW to, Goto(p, from, to), out' = [out EXCEPT ![p] = v],
             from \in {"empty_read", "empty_unlock"}, to \in {"empty_unlock", "idle"}
      PROVE  AbsRet[p] = out[p] /\ AbsRet' = [AbsRet EXCEPT ![p] = v]
  <2>1. pc[p] = from /\ pc'[p] = to /\ out'[p] = v
    BY <1>3 DEF Goto, QInv, TypeOK
  <2>2. \A r \in Procs : r # p => pc'[r] = pc[r] /\ out'[r] = out[r]
    BY <1>3, Zenon DEF Goto, QInv, TypeOK
  <2>3. \A r \in Procs : r # p => Ret(r)' = Ret(r)
    BY <1>0, <2>2, OthersRet, Zenon
  <2>4. Ret(p) = out[p] /\ Ret(p)' = v
    BY <1>3, <2>1 DEF Ret
  <2> QED BY <2>3, <2>4, Zenon DEF AbsRet
<1>4. ASSUME EmptyRead(p)
      PROVE  AbsRet[p] = None /\ AbsRet' = [AbsRet EXCEPT ![p] = IF AbsQueue = <<>> THEN Empty ELSE Filled]
  <2> DEFINE v == IF head_ = NULL THEN Empty ELSE Filled
  <2>1. Goto(p, "empty_read", "empty_unlock") /\ out' = [out EXCEPT ![p] = v]
    BY <1>4, Zenon DEF EmptyRead
  <2>2. v = IF AbsQueue = <<>> THEN Empty ELSE Filled
    BY <1>2, Zenon
  <2> HIDE DEF v
  <2>3. AbsRet[p] = out[p] /\ AbsRet' = [AbsRet EXCEPT ![p] = v]
    BY <1>3, <2>1, Zenon
  <2>4. out[p] = None
    BY <2>1 DEF Goto, QInv, Found
  <2> QED BY <2>2, <2>3, <2>4, Zenon
<1>5. ASSUME EmptyUnlock(p)
      PROVE  AbsRet[p] # None /\ AbsRet' = [AbsRet EXCEPT ![p] = None]
  <2>1. Goto(p, "empty_unlock", "idle") /\ out' = [out EXCEPT ![p] = None]
    BY <1>5, Zenon DEF EmptyUnlock
  <2>2. out[p] # None
    BY <2>1 DEF Goto, QInv, Found
  <2> QED BY <1>3, <2>1, <2>2, Zenon
<1> QED BY <1>1, <1>4, <1>5, Zenon

(* Every step is a push, a pop, a look, a return or nothing, for the queue. *)
LEMMA StepRefines ==
  ASSUME QInv, QInv', [Next]_vars
  PROVE  [Abstract!Next]_(Abstract!vars)
<1> DEFINE Stutter == UNCHANGED <<AbsQueue, AbsRet>>
<1>s. Stutter => UNCHANGED Abstract!vars
  BY Zenon DEF Abstract!vars, AbsQueue, AbsRet
<1> HIDE DEF Stutter
<1>1. CASE UNCHANGED vars
  <2>1. List' = List
    BY <1>1, SameList DEF QInv, vars, queue, heap
  <2>2. \A r \in Procs : Ret(r)' = Ret(r)
    BY <1>1, Zenon DEF Ret, vars, heap
  <2>3. value' = value
    BY <1>1, Zenon DEF vars, heap
  <2> QED BY <1>s, <2>1, <2>2, <2>3, Unseen, Zenon DEF Stutter
<1>2. ASSUME NEW p \in Procs, Step(p) PROVE [Abstract!Next]_(Abstract!vars)
  <2>0. PushNew(p) => /\ List' = List /\ UNCHANGED out /\ \A n \in used : value'[n] = value[n]
                      /\ \A r \in Procs : r # p => pc'[r] = pc[r] /\ node'[r] = node[r]
    BY PushNewStep
  <2> USE DEF QInv, TypeOK
  <2>1. CASE PushNew(p)
    <3>1. pc[p] = "idle" /\ pc' = [pc EXCEPT ![p] = "push_lock"]
      BY <2>1, Zenon DEF PushNew, Goto
    <3>2. /\ List' = List /\ UNCHANGED out /\ \A n \in used : value'[n] = value[n]
          /\ \A r \in Procs : r # p => pc'[r] = pc[r] /\ node'[r] = node[r]
      BY <2>0, <2>1, ZenonT(40)
    <3>3. Ret(p)' = Ret(p)
      BY <3>1, <3>2 DEF Ret
    <3>4. \A r \in Procs : node[r] # NULL => node[r] \in used
      BY Zenon DEF InHand
    <3>5. \A r \in Procs : Ret(r)' = Ret(r)
      BY <3>2, <3>3, <3>4, OthersRet, Zenon
    <3>6. \A i \in 1 .. Len(List) : value'[List[i]] = value[List[i]]
      BY <3>2, ListNodes, ZenonT(40) DEF InHand
    <3> QED BY <1>s, <3>2, <3>5, <3>6, Unseen, Zenon DEF Stutter
  <2>2. CASE PushLock(p) \/ PopLock(p) \/ EmptyLock(p) \/ PushUnlock(p) \/ PopUnlock(p) \/ PopCall(p)
    <3>1. PICK from, to :
            /\ Goto(p, from, to) /\ UNCHANGED <<queue, heap, node, out>>
            /\ from \in {"pop_unlock", "pop_read"} <=> to \in {"pop_unlock", "pop_read"}
      BY <2>2 DEF PushLock, PopLock, EmptyLock, PushUnlock, PopUnlock, PopCall, Lock, Unlock
    <3>2. UNCHANGED <<head_, value, next>>
      BY <3>1, Zenon DEF queue, heap
    <3>3. \A r \in Procs : r # p => pc'[r] = pc[r] /\ node'[r] = node[r] /\ out'[r] = out[r]
      BY <3>1, ZenonT(40) DEF Goto
    <3>4. pc[p] = from /\ pc'[p] = to
      BY <3>1 DEF Goto
    <3>5. Ret(p)' = Ret(p)
      BY <3>1, <3>2, <3>4, Zenon DEF Ret
    <3> QED BY <1>s, <3>2, <3>3, <3>5, Quiet, Zenon DEF Stutter
  <2>3. CASE PushLink(p)
    <3>1. (\E v \in Values : AbsQueue' = Append(AbsQueue, v)) /\ UNCHANGED AbsRet
      BY <2>3, PushRefines, Zenon
    <3>2. Abstract!Push
      BY <3>1, Zenon DEF Abstract!Push, AbsQueue, AbsRet
    <3> QED BY <3>2, Zenon DEF Abstract!Next
  <2>4. CASE PushTail(p)
    <3>1. /\ pc[p] = "push_tail" /\ pc' = [pc EXCEPT ![p] = "push_unlock"]
          /\ node' = [node EXCEPT ![p] = NULL] /\ UNCHANGED <<head_, value, next, out>>
      BY <2>4, Zenon DEF PushTail, Goto, heap
    <3>2. Ret(p)' = Ret(p)
      BY <3>1 DEF Ret
    <3>3. \A r \in Procs : r # p => pc'[r] = pc[r] /\ node'[r] = node[r] /\ out'[r] = out[r]
      BY <3>1
    <3> QED BY <1>s, <3>1, <3>2, <3>3, Quiet, Zenon DEF Stutter
  <2>5. CASE PopUnlink(p)
    <3>1. PopUnlink(p) => /\ AbsRet[p] = None
         /\ \/ AbsQueue # <<>> /\ AbsQueue' = Tail(AbsQueue) /\ AbsRet' = [AbsRet EXCEPT ![p] = Head(AbsQueue)]
            \/ AbsQueue = <<>> /\ AbsQueue' = AbsQueue /\ AbsRet' = [AbsRet EXCEPT ![p] = Empty]
      BY PopRefines, Zenon
    <3>2. Abstract!PopValue(p) \/ Abstract!PopEmpty(p)
      BY <2>5, <3>1, Zenon DEF Abstract!PopValue, Abstract!PopEmpty, AbsQueue, AbsRet
    <3> QED BY <3>2, Zenon DEF Abstract!Next
  <2>6. CASE PopRead(p)
    <3>1. /\ pc[p] = "pop_read" /\ pc' = [pc EXCEPT ![p] = IF node[p] = NULL THEN "pop_ret" ELSE "pop_delete"]
          /\ out' = [out EXCEPT ![p] = IF node[p] = NULL THEN Empty ELSE value[node[p]]]
          /\ UNCHANGED <<head_, value, next, node>>
      BY <2>6, Zenon DEF PopRead, Goto, queue, heap
    <3>2. Ret(p)' = Ret(p)
      BY <3>1, Zenon DEF Ret
    <3>3. \A r \in Procs : r # p => pc'[r] = pc[r] /\ node'[r] = node[r] /\ out'[r] = out[r]
      BY <3>1
    <3> QED BY <1>s, <3>1, <3>2, <3>3, Quiet, Zenon DEF Stutter
  <2>7. CASE PopDelete(p)
    <3>1. /\ pc[p] = "pop_delete" /\ pc' = [pc EXCEPT ![p] = "pop_ret"]
          /\ node' = [node EXCEPT ![p] = NULL] /\ UNCHANGED <<head_, value, next, out>>
      BY <2>7, Zenon DEF PopDelete, Goto, queue
    <3>2. Ret(p)' = Ret(p)
      BY <3>1 DEF Ret
    <3>3. \A r \in Procs : r # p => pc'[r] = pc[r] /\ node'[r] = node[r] /\ out'[r] = out[r]
      BY <3>1
    <3> QED BY <1>s, <3>1, <3>2, <3>3, Quiet, Zenon DEF Stutter
  <2>8. CASE PopReturn(p)
    <3> DEFINE to == IF alive THEN "idle" ELSE IF out[p] = Empty THEN "dead" ELSE "pop_lock"
    <3>1. /\ pc[p] = "pop_ret" /\ pc' = [pc EXCEPT ![p] = to]
          /\ out' = [out EXCEPT ![p] = None] /\ UNCHANGED <<head_, value, next, node>>
      BY <2>8, Zenon DEF PopReturn, Goto, queue, heap
    <3>2. to \notin {"pop_unlock", "pop_read"}
      BY Zenon
    <3> HIDE DEF to
    <3>3. /\ pc'[p] = to /\ out'[p] = None
          /\ \A r \in Procs : r # p => pc'[r] = pc[r] /\ node'[r] = node[r] /\ out'[r] = out[r]
      BY <3>1, Zenon
    <3>4. Ret(p)' = None /\ Ret(p) # None
      BY <3>1, <3>2, <3>3 DEF Ret, Found
    <3>5. \A r \in Procs : r # p => Ret(r)' = Ret(r)
      BY <3>1, <3>3, OthersRet, Zenon
    <3>6. AbsRet[p] # None /\ AbsRet' = [AbsRet EXCEPT ![p] = None]
      BY <3>4, <3>5, Zenon DEF AbsRet
    <3>7. AbsQueue' = AbsQueue
      <4>1. List' = List
        BY <3>1, SameList, Zenon
      <4> QED BY <3>1, <4>1, AbsQueueNow, AbsQueueNext, Zenon
    <3>8. Abstract!Return(p)
      BY <3>6, <3>7, Zenon DEF Abstract!Return, AbsQueue, AbsRet
    <3> QED BY <3>8, Zenon DEF Abstract!Next
  <2>9. CASE Destroy(p)
    <3>1. /\ pc[p] = "idle" /\ pc' = [pc EXCEPT ![p] = "pop_lock"]
          /\ UNCHANGED <<head_, value, next, node, out>>
      BY <2>9, Zenon DEF Destroy, queue, heap
    <3>2. Ret(p)' = Ret(p)
      BY <3>1, Zenon DEF Ret
    <3>3. \A r \in Procs : r # p => pc'[r] = pc[r] /\ node'[r] = node[r] /\ out'[r] = out[r]
      BY <3>1
    <3> QED BY <1>s, <3>1, <3>2, <3>3, Quiet, Zenon DEF Stutter
  <2>10. CASE Construct(p)
    <3>1. /\ pc[p] = "dead" /\ pc' = [pc EXCEPT ![p] = "idle"]
          /\ UNCHANGED <<value, node, out>>
      BY <2>10, Zenon DEF Construct, Goto, heap
    <3>2. List = <<>> /\ List' = <<>>
      BY <2>10, ConstructStep, Zenon
    <3>3. Ret(p)' = Ret(p)
      BY <3>1 DEF Ret
    <3>4. \A r \in Procs : r # p => pc'[r] = pc[r] /\ node'[r] = node[r] /\ out'[r] = out[r]
      BY <3>1
    <3>5. \A r \in Procs : Ret(r)' = Ret(r)
      BY <3>1, <3>3, <3>4, OthersRet, Zenon
    <3> QED BY <1>s, <3>1, <3>2, <3>5, Unseen, Zenon DEF Stutter
  <2>11. CASE Spin(p)
    BY <1>1, <2>11, Zenon DEF Spin
  <2>l. EmptyRead(p) \/ EmptyUnlock(p) =>
          /\ AbsQueue' = AbsQueue
          /\ EmptyRead(p) => /\ AbsRet[p] = None
                             /\ AbsRet' = [AbsRet EXCEPT ![p] = IF AbsQueue = <<>> THEN Empty ELSE Filled]
          /\ EmptyUnlock(p) => AbsRet[p] # None /\ AbsRet' = [AbsRet EXCEPT ![p] = None]
    BY LookRefines, Zenon
  <2>12. CASE EmptyRead(p)
    <3>1. Abstract!Look(p)
      BY <2>l, <2>12, Zenon DEF Abstract!Look, AbsQueue, AbsRet
    <3> QED BY <3>1, Zenon DEF Abstract!Next
  <2>13. CASE EmptyUnlock(p)
    <3>1. Abstract!Return(p)
      BY <2>l, <2>13, Zenon DEF Abstract!Return, AbsQueue, AbsRet
    <3> QED BY <3>1, Zenon DEF Abstract!Next
  <2> QED BY <1>2, <2>1, <2>2, <2>3, <2>4, <2>5, <2>6, <2>7, <2>8, <2>9, <2>10, <2>11, <2>12, <2>13, Zenon DEF Step
<1> QED BY <1>1, <1>2, Zenon DEF Next

(* SpinQueue is a first-in-first-out queue: push() takes effect when it    *)
(* links its node, pop() returns the oldest value, or false only when there*)
(* was an instant of the call at which the queue was empty, and what       *)
(* empty() returns was so at an instant of the call.                       *)
THEOREM QueueIsFifo == Spec => ImplementsFifo
<1>1. Init => Abstract!Init
  <2> SUFFICES ASSUME Init PROVE Abstract!Init
    OBVIOUS
  <2>1. QInv
    BY QInit, Zenon
  <2>2. IsList(<<>>)
    BY DEF Init, IsList
  <2>3. Len(List) = 0
    BY <2>2, ListNow
  <2>4. AbsQueue = <<>>
    BY <2>1, <2>3, AbsQueueIs
  <2>5. AbsRet = [p \in Procs |-> None]
    BY Zenon DEF AbsRet, Ret, Init
  <2> QED BY <2>4, <2>5, Zenon DEF Abstract!Init, AbsQueue, AbsRet
<1>2. QInv /\ QInv' /\ [Next]_vars => [Abstract!Next]_(Abstract!vars)
  BY StepRefines, Zenon
<1> QED BY <1>1, <1>2, QueueInvariance, PTL DEF Spec, ImplementsFifo, Abstract!Spec
=============================================================================
