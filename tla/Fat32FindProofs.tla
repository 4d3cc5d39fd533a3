-------------------------- MODULE Fat32FindProofs ---------------------------
(***************************************************************************)
(* InBounds and FindsPath for every volume, path, and size of buffer,      *)
(* piece, sector and cluster.                                              *)
(***************************************************************************)
EXTENDS Fat32Find, SequenceTheorems, WellFoundedInduction, TLAPS

(* What the fields hold on the way.                                        *)
FindInv ==
  /\ fat \in [Clusters -> Nat]
  /\ sectors \in [Lbas -> [1 .. EntriesPerSector -> Entry]]
  /\ cur.first_cluster \in Nat /\ cluster \in Nat
  /\ s \in 0 .. sectors_per_cluster /\ off \in Nat
  /\ pc \in {"sector", "entry"} => valid_cluster(cluster)
  /\ pc = "entry" => s < sectors_per_cluster /\ off > 0
  /\ InBounds

(* A sector of a cluster of the volume is one of its data region.          *)
LEMMA InRegion ==
  ASSUME NEW c \in Nat, valid_cluster(c), NEW n \in Nat, n < sectors_per_cluster
  PROVE  cluster_lba(c) + n \in Lbas
<1> DEFINE w == sectors_per_cluster
<1>1. w \in Nat \ {0} /\ cluster_count \in Nat \ {0}
  BY FindAssumption, Zenon
<1>2. c - 2 \in Nat /\ c - 2 <= cluster_count - 1
  BY <1>1 DEF valid_cluster
<1>3. (c - 2) * w >= 0 /\ (c - 2) * w <= (cluster_count - 1) * w
  BY <1>1, <1>2
<1>4. (cluster_count - 1) * w = cluster_count * w - w
  BY <1>1
<1>5. (c - 2) * w \in Int /\ cluster_count * w \in Int
  BY <1>1, <1>2
<1> QED BY <1>1, <1>3, <1>4, <1>5 DEF cluster_lba, Lbas

(* The entry lookup() looks at is one of the disk's.                       *)
LEMMA EntryOfDisk ==
  ASSUME FindInv, AtEntry
  PROVE  e \in Entry
<1> DEFINE lba == cluster_lba(cluster) + s
<1>1. lba \in Lbas
  BY Zenon DEF FindInv, AtEntry, InBounds
<1>2. off \in 1 .. EntriesPerSector
  <2>1. off \in Nat /\ off > 0 /\ off <= EntriesPerSector /\ EntriesPerSector \in Nat
    BY FindAssumption, Zenon DEF FindInv, AtEntry
  <2> QED BY <2>1
<1>3. sectors \in [Lbas -> [1 .. EntriesPerSector -> Entry]]
  BY Zenon DEF FindInv
<1> HIDE DEF lba
<1>4. sectors[lba][off] \in Entry
  BY <1>1, <1>2, <1>3, Zenon
<1> QED BY <1>4, Zenon DEF e, lba

(* Its fields are numbers.                                                 *)
LEMMA EntryNumbers ==
  ASSUME NEW entry \in Entry
  PROVE  SeqNo(entry) \in Nat /\ FileOf(entry).first_cluster \in Nat
<1>1. entry.e0 \in Byte /\ entry.high \in Word /\ entry.low \in Word
  BY DEF Entry
<1>2. Byte \subseteq Nat /\ Word \subseteq Nat /\ Words \in Nat
  BY DEF Byte, Word, Words
<1>3. \A n \in Nat : n % 64 \in Nat
  OBVIOUS
<1>4. \A h, l \in Nat : h * Words + l \in Nat
  BY <1>2
<1>5. entry.high \in Nat /\ entry.low \in Nat /\ entry.e0 \in Nat
  BY <1>1, <1>2, Zenon
<1> QED BY <1>3, <1>4, <1>5, Zenon DEF SeqNo, FileOf

(* A piece that is in the name is stored within the buffer.                *)
LEMMA StoreInBounds ==
  ASSUME NEW buf, DOMAIN buf = 0 .. kMaxNameLen + kPiece, NEW seq \in Nat, InName(seq), NEW chars
  PROVE  /\ DOMAIN Store(buf, seq, chars) = 0 .. kMaxNameLen + kPiece
         /\ seq * kPiece \in 0 .. kMaxNameLen + kPiece
<1>1. kPiece \in Nat \ {0} /\ kMaxNameLen \in Nat \ {0}
  BY FindAssumption, Zenon
<1>2. seq * kPiece \in Nat /\ seq * kPiece <= kMaxNameLen + kPiece
  BY <1>1 DEF InName
<1>3. (seq - 1) * kPiece = seq * kPiece - kPiece /\ (seq - 1) * kPiece >= 0
  BY <1>1 DEF InName
<1>4. (seq - 1) * kPiece .. (seq - 1) * kPiece + kPiece - 1 \subseteq 0 .. kMaxNameLen + kPiece
  BY <1>1, <1>2, <1>3
<1> QED BY <1>2, <1>4 DEF Store

(* The invariant holds. *)
LEMMA FindInvariance == Spec => []FindInv
<1> USE DEF disk, place, long
<1>0. /\ kMaxNameLen + kPiece \in Nat /\ sectors_per_cluster \in Nat \ {0} /\ root_cluster \in Nat
  BY FindAssumption, SMTT(30) DEF Clusters
<1>1. Init => FindInv
  BY <1>0, FindAssumption, SMTT(30) DEF Init, FindInv, InBounds, Lfn0, Root
<1>2. FindInv /\ [Next]_vars => FindInv'
  <2> SUFFICES ASSUME FindInv, [Next]_vars PROVE FindInv'
    OBVIOUS
  <2>0. None.first_cluster \in Nat /\ Root.first_cluster \in Nat
    BY <1>0, Zenon DEF None, Root
  <2>1. CASE UNCHANGED vars
    BY <2>1, Zenon DEF vars, FindInv, InBounds
  <2>2. CASE Find
    BY <2>2, Zenon DEF Find, FindInv, InBounds
  <2>3. CASE FindNothing
    BY <2>0, <2>3, Zenon DEF FindNothing, Return, FindInv, InBounds
  <2>4. CASE Found
    BY <1>0, <2>4, Zenon DEF Found, Return, DirCluster, FindInv, InBounds
  <2>5. CASE Descend
    BY <1>0, <2>0, <2>5, SMTT(30) DEF Descend, Return, DirCluster, FindInv, InBounds, Lfn0
  <2>6. CASE Chain
    BY <1>0, <2>0, <2>6 DEF Chain, Return, FindInv, InBounds
  <2>7. CASE Sector
    <3>1. cluster_lba(cluster) + s \in Lbas
      BY <1>0, <2>7, InRegion DEF Sector, FindInv
    <3> QED BY <1>0, <2>7, <3>1 DEF Sector, FindInv, InBounds
  <2>7b. CASE NextCluster
    <3>1. valid_cluster(cluster) /\ cluster \in Nat
      BY <1>0, <2>7b, Zenon DEF NextCluster, FindInv
    <3>2. fat[cluster] \in Nat
      <4>1. cluster \in Clusters
        <5>1. cluster_count \in Nat
          BY FindAssumption, Zenon
        <5> QED BY <3>1, <5>1 DEF valid_cluster, Clusters
      <4> QED BY <4>1, Zenon DEF FindInv
    <3> QED BY <1>0, <2>7b, <3>1, <3>2, Zenon DEF NextCluster, FindInv, InBounds
  <2>8. CASE SectorFails
    BY <2>0, <2>8, Zenon DEF SectorFails, Return, FindInv, InBounds
  <2>9. CASE SectorDone
    BY <1>0, <2>9 DEF SectorDone, FindInv, InBounds
  <2>10. CASE EndEntry
    BY <2>0, <2>10, Zenon DEF EndEntry, Return, FindInv, InBounds
  <2>11. CASE DeletedEntry
    BY <2>11 DEF DeletedEntry, Continue, AtEntry, FindInv, InBounds
  <2>12. CASE LfnEntry
    <3>1. SeqNo(e) \in Nat
      BY <2>12, EntryOfDisk, EntryNumbers, Zenon DEF LfnEntry
    <3>2. DOMAIN lfn' = 0 .. kMaxNameLen + kPiece /\ lfn_len' \in 0 .. kMaxNameLen + kPiece
      BY <2>12, <3>1, StoreInBounds DEF LfnEntry, FindInv, InBounds, Lfn0
    <3> QED BY <2>12, <3>2 DEF LfnEntry, Continue, AtEntry, FindInv, InBounds
  <2>13. CASE ShortEntry
    <3>1. FileOf(e).first_cluster \in Nat
      BY <2>13, EntryOfDisk, EntryNumbers, Zenon DEF ShortEntry
    <3> QED BY <2>13, <3>1 DEF ShortEntry, Continue, AtEntry, FindInv, InBounds
  <2>14. CASE Back
    BY <1>0, <2>0, <2>14 DEF Back, FindInv, InBounds, Lfn0
  <2> QED BY <2>1, <2>2, <2>3, <2>4, <2>5, <2>6, <2>7, <2>7b, <2>8, <2>9, <2>10, <2>11, <2>12, <2>13, <2>14, Zenon
          DEF Next, Running
<1> QED BY <1>1, <1>2, PTL DEF Spec

(* InBounds: no ordinal, cluster number or chain on a disk takes lookup()  *)
(* out of lfn[] or out of the data region.                                 *)
THEOREM LookupStaysInBounds == Spec => []InBounds
<1>1. FindInv => InBounds
  BY Zenon DEF FindInv
<1> QED BY <1>1, FindInvariance, PTL

-----------------------------------------------------------------------------
(* Division and recursion.                                                 *)

(* Quotient and remainder. *)
LEMMA DivMod ==
  ASSUME NEW x \in Nat, NEW m \in Nat \ {0}
  PROVE  x \div m \in Nat /\ x % m \in 0 .. m - 1 /\ x = m * (x \div m) + (x % m)
OBVIOUS

(* A multiple of m that is smaller than m, in absolute value, is 0. *)
LEMMA SmallMultiple ==
  ASSUME NEW m \in Nat \ {0}, NEW k \in Int, m * k < m, m * k > -m
  PROVE  k = 0
<1>1. k >= 1 => m * k >= m
  OBVIOUS
<1>2. k <= -1 => m * k <= -m
  OBVIOUS
<1> QED BY <1>1, <1>2

(* They are the only ones. *)
LEMMA Division ==
  ASSUME NEW x \in Nat, NEW m \in Nat \ {0}, NEW q \in Nat, NEW r \in 0 .. m - 1, x = m * q + r
  PROVE  x \div m = q /\ x % m = r
<1> DEFINE d == x \div m
           t == x % m
<1>1. d \in Nat /\ t \in 0 .. m - 1 /\ x = m * d + t
  BY DivMod, Zenon
<1> HIDE DEF d, t
<1>2. m * (q - d) = t - r
  <2>1. m * (q - d) = m * q - m * d
    BY <1>1
  <2>2. m * q \in Int /\ m * d \in Int
    BY <1>1
  <2> QED BY <1>1, <2>1, <2>2
<1>3. q - d = 0
  <2>1. t - r < m /\ t - r > -m
    BY <1>1
  <2> QED BY <1>1, <1>2, <2>1, SmallMultiple
<1>4. d = q /\ t = r
  <2>1. d = q
    BY <1>1, <1>3
  <2>2. m * (q - d) = 0
    BY <1>1, <1>3
  <2> QED BY <1>1, <1>2, <2>1, <2>2
<1> QED BY <1>4, Zenon DEF d, t

(* A set with 0 in it and with every successor of its elements holds all   *)
(* naturals.                                                               *)
LEMMA Induction ==
  ASSUME NEW T, 0 \in T, \A n \in Nat : n \in T => n + 1 \in T
  PROVE  \A n \in Nat : n \in T
<1> DEFINE R == OpToRel(<, Nat)
<1>1. IsWellFoundedOn(R, Nat)
  BY NatLessThanWellFounded, Zenon
<1>2. \A a, b \in Nat : a < b => <<a, b>> \in R
  BY Zenon DEF OpToRel
<1> HIDE DEF R
<1> SUFFICES ASSUME Nat \ T # {} PROVE FALSE
  OBVIOUS
<1>3. PICK n \in Nat \ T : \A m \in Nat \ T : ~ (<<m, n>> \in R)
  BY <1>1, WFMin, Zenon
<1>4. n # 0
  BY <1>3, Zenon
<1>5. n - 1 \in Nat /\ n - 1 < n /\ (n - 1) + 1 = n
  BY <1>3, <1>4
<1>6. n - 1 \in T
  BY <1>2, <1>3, <1>5, Zenon
<1>7. n \in T
  BY <1>5, <1>6, Zenon
<1> QED BY <1>3, <1>7, Zenon

(* f is defined by recursion on a number, up to N. *)
IsRec(f, N, V, base, step) ==
  f \in [0 .. N -> V] /\ f[0] = base /\ \A n \in 1 .. N : f[n] = step[n][f[n - 1]]

(* There is such a function. *)
LEMMA PrimRec ==
  ASSUME NEW N \in Nat, NEW V, NEW base \in V, NEW step \in [1 .. N -> [V -> V]]
  PROVE  \E f : IsRec(f, N, V, base, step)
<1> DEFINE Rec(f, k) == f \in [0 .. k -> V] /\ f[0] = base /\ \A n \in 1 .. k : f[n] = step[n][f[n - 1]]
           T == {k \in Nat : k <= N => \E f : Rec(f, k)}
<1>1. 0 \in T
  <2> DEFINE f == [n \in 0 .. 0 |-> base]
  <2>1. f \in [0 .. 0 -> V] /\ f[0] = base
    <3>1. 0 \in 0 .. 0
      OBVIOUS
    <3> QED BY <3>1, Zenon
  <2>2. \A n \in 1 .. 0 : FALSE
    OBVIOUS
  <2>3. 0 \in Nat
    OBVIOUS
  <2>4. Rec(f, 0)
    BY <2>1, <2>2, Zenon
  <2> QED BY <2>3, <2>4, Zenon
<1>2. ASSUME NEW k \in Nat, k \in T PROVE k + 1 \in T
  <2> SUFFICES ASSUME k + 1 <= N PROVE \E f : Rec(f, k + 1)
    <3>1. k + 1 \in Nat
      OBVIOUS
    <3> QED BY <3>1, Zenon
  <2>1. k <= N
    <3> HIDE DEF T
    <3> QED OBVIOUS
  <2>2. PICK f : Rec(f, k)
    BY <1>2, <2>1, Zenon
  <2> HIDE DEF T
  <2> DEFINE g == [n \in 0 .. k + 1 |-> IF n <= k THEN f[n] ELSE step[k + 1][f[k]]]
  <2>3. /\ k + 1 \in 1 .. N /\ k \in 0 .. k /\ k \in 0 .. k + 1 /\ k + 1 \in 0 .. k + 1 /\ k <= k /\ ~(k + 1 <= k)
        /\ (k + 1) - 1 = k /\ 0 \in 0 .. k + 1 /\ 0 <= k
    <3> HIDE DEF g
    <3> QED OBVIOUS
  <2>4. f[k] \in V /\ step[k + 1][f[k]] \in V
    BY <2>2, <2>3, Zenon
  <2>5. g \in [0 .. k + 1 -> V] /\ g[0] = base /\ g[k] = f[k] /\ g[k + 1] = step[k + 1][f[k]]
    <3>1. \A n \in 0 .. k + 1 : n <= k => n \in 0 .. k
      <4> HIDE DEF g
      <4> QED OBVIOUS
    <3> QED BY <2>2, <2>3, <2>4, <3>1, Zenon
  <2>6. ASSUME NEW n \in 1 .. k + 1 PROVE g[n] = step[n][g[n - 1]]
    <3>1. n \in 1 .. k \/ n = k + 1
      <4> HIDE DEF g
      <4> QED OBVIOUS
    <3>2. CASE n \in 1 .. k
      <4>1. n \in 0 .. k + 1 /\ n <= k /\ n - 1 \in 0 .. k + 1 /\ n - 1 <= k
        <5> HIDE DEF g
        <5> QED BY <3>2
      <4>2. g[n] = f[n] /\ g[n - 1] = f[n - 1]
        BY <4>1, Zenon
      <4> QED BY <2>2, <3>2, <4>2, Zenon
    <3>3. CASE n = k + 1
      BY <2>3, <2>5, <3>3, Zenon
    <3> QED BY <3>1, <3>2, <3>3, Zenon
  <2> HIDE DEF g
  <2> QED BY <2>5, <2>6, Zenon
<1> HIDE DEF T, Rec
<1>3. \A k \in Nat : k \in T
  BY <1>1, <1>2, Induction, Zenon
<1>4. N <= N
  OBVIOUS
<1> QED BY <1>3, <1>4, Zenon DEF T, Rec, IsRec

(* What holds at 0 and goes on holds up to N. *)
LEMMA UpToN ==
  ASSUME NEW N \in Nat, NEW T, 0 \in T, \A n \in 0 .. N - 1 : n \in T => n + 1 \in T
  PROVE  0 .. N \subseteq T
<1> DEFINE U == {n \in Nat : n <= N => n \in T}
<1>1. 0 \in U
  OBVIOUS
<1>2. ASSUME NEW n \in Nat, n \in U PROVE n + 1 \in U
  BY <1>2
<1> HIDE DEF U
<1>3. \A n \in Nat : n \in U
  BY <1>1, <1>2, Induction, Zenon
<1> QED BY <1>3 DEF U

-----------------------------------------------------------------------------
(* Where find() is, in terms of the reference.                             *)

(* The components of the first n characters of the path. *)
Split[n \in 0 .. Len(path)] ==
  IF n = 0 THEN <<>>
  ELSE IF path[n] = Slash THEN Split[n - 1]
  ELSE IF n = 1 \/ path[n - 1] = Slash THEN Append(Split[n - 1], <<path[n]>>)
  ELSE [Split[n - 1] EXCEPT ![Len(Split[n - 1])] = Append(@, path[n])]

(* How many components find() has taken off the path. *)
Taken == Len(Split[p - 1])

(* p is not within a component. *)
Boundary == p \in 1 .. Len(path) + 1 /\ (p = 1 \/ p = Len(path) + 1 \/ path[p] = Slash)

Looking == pc \in {"chain", "sector", "entry"}

(* The directory that is searched. *)
Here == DirCluster(cur.first_cluster)

(* The place in its chain v: at cluster c, number h, sector n, offset o. *)
Walk(v, stage, h, c, n, o) ==
  /\ h \in 0 .. cluster_count + 1
  /\ \A g \in 0 .. h - 1 : v[g] # 0
  /\ h <= cluster_count => v[h] = IF valid_cluster(c) THEN c ELSE 0
  /\ stage # "chain" => valid_cluster(c) /\ h <= cluster_count /\ n \in 0 .. sectors_per_cluster
  /\ stage = "entry" => n < sectors_per_cluster /\ o \in 1 .. EntriesPerSector + 1

(* How many of the entries come before it. *)
Before(stage, h, n, o) ==
  h * PerCluster
    + (IF stage = "chain" THEN 0 ELSE n * EntriesPerSector + (IF stage = "sector" THEN 0 ELSE o - 1))

Seen == Before(pc, hops, s, off)

(* None of the first m entries ends the directory, or has the name. *)
Past(list, m, component) == \A j \in 1 .. m : ~IsEnd(list[j]) /\ j \notin Hits(list, component)

(* list[b] to list[m] are a run of pieces, and what they spell. *)
Run(list, b, m) ==
  /\ IsLast(list[b])
  /\ \A j \in b .. m : /\ IsLfn(list[j]) /\ InName(SeqNo(list[j])) /\ list[j].sum = list[b].sum
                       /\ j > b => ~IsLast(list[j])

(* The last piece with a place for the character n decides it. *)
Decide(list, at, n) ==
  IF at = {} THEN NUL
  ELSE ToChar(list[CHOOSE j \in at : \A g \in at : g <= j].chars[1 + (n % kPiece)])

Letter(list, b, m, n) == Decide(list, {j \in b .. m : SeqNo(list[j]) = 1 + (n \div kPiece)}, n)

Spelled(list, b, m) == [n \in 0 .. kMaxNameLen + kPiece |-> Letter(list, b, m, n)]

(* lfn[] holds what the run that ends here spells, if there is one. *)
Pending(list, m, ok, sum, buf, len) ==
  IF ok
  THEN \E b \in 1 .. m : /\ Run(list, b, m) /\ sum = list[b].sum
                         /\ buf = Spelled(list, b, m) /\ len = SeqNo(list[b]) * kPiece
  ELSE \A b \in 1 .. m : ~Run(list, b, m)

Files == [first_cluster : Nat, size : Nat, dir : BOOLEAN]

(* What is looked up, and where. *)
Context ==
  /\ Boundary /\ cur \in Files /\ Taken >= 1 /\ cur = Resolve[Taken - 1]
  /\ cur.dir /\ name = Components[Taken] /\ Len(name) <= kMaxNameLen

Progress ==
  /\ lfn_ok \in BOOLEAN
  /\ Walk(Visit(Here), pc, hops, cluster, s, off)
  /\ Past(Listing(Here), Seen, name)
  /\ Pending(Listing(Here), Seen, lfn_ok, lfn_checksum, lfn, lfn_len)

(* What a path is made of: '?' is in no legal name. *)
Characters == Byte \ {NUL, Question}

PathInv ==
  /\ path \in Seq(Characters)
  /\ failed => pc = "return"
  /\ pc = "idle" => p = 1 /\ cur = Root
  /\ pc = "component" => Boundary /\ cur \in Files /\ cur = Resolve[Taken]
  /\ Looking => Context /\ Progress
  /\ FindsAnyPath

-----------------------------------------------------------------------------
(* The reference does not change.                                          *)

(* The entries in the clusters v of a disk with these sectors. *)
ListOf(v, disk_sectors) ==
  LET n == {h \in DOMAIN v : v[h] # 0}
      len == IF n = {} THEN 0 ELSE PerCluster * (1 + CHOOSE h \in n : \A g \in n : g <= h)
  IN  [i \in 1 .. len |->
         LET within == (i - 1) % PerCluster IN
         disk_sectors[cluster_lba(v[(i - 1) \div PerCluster]) + (within \div EntriesPerSector)]
                     [1 + (within % EntriesPerSector)]]

Frozen == path' = path /\ fat' = fat /\ sectors' = sectors

(* Neither do the components and the directories. *)
LEMMA FrozenParts ==
  ASSUME Frozen
  PROVE  /\ Components' = Components /\ Split' = Split
         /\ \A n : SkipSlashes(n)' = SkipSlashes(n) /\ ToSlash(n)' = ToSlash(n)
         /\ \A c : Visit(c)' = Visit(c)
         /\ \A c : Listing(c)' = Listing(c)
<1>1. Components' = Components
  BY SMT DEF Frozen, Components
<1>2. Split' = Split
  BY SMT DEF Frozen, Split
<1>3. \A n : SkipSlashes(n)' = SkipSlashes(n)
  BY SMT DEF Frozen, SkipSlashes, Slash
<1>4. \A n : ToSlash(n)' = ToSlash(n)
  BY SMT DEF Frozen, ToSlash, Slash
<1>5. \A c : Visit(c)' = Visit(c)
  BY SMT DEF Frozen, Visit, valid_cluster
<1>6. ASSUME NEW c PROVE Listing(c)' = Listing(c)
  <2>1. Listing(c) = ListOf(Visit(c), sectors)
    BY Zenon DEF Listing, ListOf
  <2>2. Listing(c)' = ListOf(Visit(c)', sectors')
    BY Zenon DEF Listing, ListOf, PerCluster, cluster_lba
  <2> QED BY <1>5, <2>1, <2>2, Zenon DEF Frozen
<1> QED BY <1>1, <1>2, <1>3, <1>4, <1>5, <1>6, Zenon

-----------------------------------------------------------------------------
(* The reference, step by step.                                            *)

Names == Seq(Seq(Characters))

(* What find() is called with. *)
Given ==
  /\ fat \in [Clusters -> Nat]
  /\ sectors \in [Lbas -> [1 .. EntriesPerSector -> Entry]]
  /\ path \in Seq(Characters)

SplitStep(names, n) ==
  IF path[n] = Slash THEN names
  ELSE IF n = 1 \/ path[n - 1] = Slash THEN Append(names, <<path[n]>>)
  ELSE [names EXCEPT ![Len(names)] = Append(@, path[n])]

(* A character is added to the components. *)
LEMMA SplitStepType ==
  ASSUME Given, NEW names \in Names, NEW n \in 1 .. Len(path)
  PROVE  SplitStep(names, n) \in Names
<1>1. path[n] \in Characters
  BY DEF Given
<1> HIDE DEF Characters
<1>2. Append(names, <<path[n]>>) \in Names
  BY <1>1 DEF Names
<1>3. [names EXCEPT ![Len(names)] = Append(@, path[n])] \in Names
  <2>1. \A k \in 1 .. Len(names) : names[k] \in Seq(Characters)
    BY DEF Names
  <2>2. \A k \in 1 .. Len(names) : Append(names[k], path[n]) \in Seq(Characters)
    BY <1>1, <2>1
  <2>3. DOMAIN names = 1 .. Len(names) /\ Len(names) \in Nat
    BY DEF Names
  <2> DEFINE u == [names EXCEPT ![Len(names)] = Append(@, path[n])]
  <2>4. u \in [1 .. Len(names) -> Seq(Characters)]
    BY <2>1, <2>2, <2>3, Zenon
  <2> HIDE DEF u
  <2>5. u \in UNION {[1 .. k -> Seq(Characters)] : k \in Nat}
    BY <2>3, <2>4, Zenon
  <2>6. u \in Names
    BY <2>5, SeqDef, Zenon DEF Names
  <2> QED BY <2>6, Zenon DEF u
<1> QED BY <1>2, <1>3, Zenon DEF SplitStep

(* The components of a beginning of the path. *)
LEMMA SplitIs ==
  ASSUME Given
  PROVE  /\ Len(path) \in Nat /\ Split[0] = <<>> /\ Components = Split[Len(path)]
         /\ \A n \in 0 .. Len(path) : Split[n] \in Names
         /\ \A n \in 1 .. Len(path) : Split[n] = SplitStep(Split[n - 1], n)
<1> DEFINE N == Len(path)
<1>1. N \in Nat /\ 0 \in 0 .. N
  BY DEF Given
<1>2. <<>> \in Names
  BY DEF Names
<1> DEFINE step == [n \in 1 .. N |-> [names \in Names |-> SplitStep(names, n)]]
<1>3. step \in [1 .. N -> [Names -> Names]]
  BY SplitStepType, Zenon
<1>4. \A x \in Names, n \in 1 .. N : step[n][x] = SplitStep(x, n)
  BY Zenon
<1>a. PICK f : IsRec(f, N, Names, <<>>, step)
  <2> HIDE DEF step, N
  <2> QED BY <1>1, <1>2, <1>3, PrimRec, Zenon
<1>5. f \in [0 .. N -> Names] /\ f[0] = <<>> /\ \A n \in 1 .. N : f[n] = step[n][f[n - 1]]
  <2> HIDE DEF step, N
  <2> QED BY <1>a, Zenon DEF IsRec
<1>6. \A n \in 1 .. N : n - 1 \in 0 .. N /\ n \in 0 .. N /\ n # 0
  BY <1>1
<1>7. \A n \in 1 .. N : f[n] = SplitStep(f[n - 1], n)
  <2> HIDE DEF step, N
  <2> QED BY <1>4, <1>5, <1>6, Zenon
<1> HIDE DEF step
<1>8. f = [n \in 0 .. N |->
             IF n = 0 THEN <<>>
             ELSE IF path[n] = Slash THEN f[n - 1]
             ELSE IF n = 1 \/ path[n - 1] = Slash THEN Append(f[n - 1], <<path[n]>>)
             ELSE [f[n - 1] EXCEPT ![Len(f[n - 1])] = Append(@, path[n])]]
  <2>1. ASSUME NEW n \in 0 .. N
        PROVE  f[n] = IF n = 0 THEN <<>>
                      ELSE IF path[n] = Slash THEN f[n - 1]
                      ELSE IF n = 1 \/ path[n - 1] = Slash THEN Append(f[n - 1], <<path[n]>>)
                      ELSE [f[n - 1] EXCEPT ![Len(f[n - 1])] = Append(@, path[n])]
    <3>1. n = 0 \/ n \in 1 .. N
      BY <1>1
    <3> QED BY <1>5, <1>7, <3>1, Zenon DEF SplitStep
  <2> QED BY <1>5, <2>1, ZenonT(40)
<1>9. Split = [n \in 0 .. Len(path) |->
                 IF n = 0 THEN <<>>
                 ELSE IF path[n] = Slash THEN Split[n - 1]
                 ELSE IF n = 1 \/ path[n - 1] = Slash THEN Append(Split[n - 1], <<path[n]>>)
                 ELSE [Split[n - 1] EXCEPT ![Len(Split[n - 1])] = Append(@, path[n])]]
  BY <1>8, Zenon DEF Split
<1>10. Split[0] = <<>>
  BY <1>1, <1>9, Zenon
<1>11. \A n \in 1 .. N : Split[n] = SplitStep(Split[n - 1], n)
  BY <1>6, <1>9, Zenon DEF SplitStep
<1>12. Components = Split[Len(path)]
  BY Zenon DEF Components, Split
<1>13. 0 .. N \subseteq {n \in Nat : Split[n] \in Names}
  <2> DEFINE T == {n \in Nat : Split[n] \in Names}
  <2>1. 0 \in T
    BY <1>2, <1>10
  <2>2. ASSUME NEW n \in 0 .. N - 1, n \in T PROVE n + 1 \in T
    <3>1. n + 1 \in 1 .. N /\ (n + 1) - 1 = n /\ n + 1 \in Nat
      <4> HIDE DEF T
      <4> QED BY <1>1
    <3>2. Split[n + 1] = SplitStep(Split[n], n + 1)
      BY <1>11, <3>1, Zenon
    <3> QED BY <2>2, <3>1, <3>2, SplitStepType, Zenon
  <2> HIDE DEF T, N
  <2> QED BY <1>1, <2>1, <2>2, UpToN, Zenon DEF T
<1> QED BY <1>1, <1>10, <1>11, <1>12, <1>13, Zenon

Hop(c) == IF c # 0 /\ valid_cluster(fat[c]) THEN fat[c] ELSE 0

(* The volume's clusters. *)
LEMMA ValidIsCluster ==
  /\ \A c \in Nat : valid_cluster(c) <=> c \in Clusters
  /\ \A c \in Clusters : c \in Nat /\ c # 0
  /\ cluster_count \in Nat /\ 0 \in Nat /\ root_cluster \in Nat
<1>1. cluster_count \in Nat
  BY FindAssumption, Zenon
<1>2. root_cluster \in Clusters
  BY FindAssumption, Zenon
<1> QED BY <1>1, <1>2 DEF valid_cluster, Clusters

(* The clusters of a directory. *)
LEMMA VisitIs ==
  ASSUME Given, NEW c \in Nat
  PROVE  /\ Visit(c) \in [0 .. cluster_count -> Clusters \cup {0}]
         /\ Visit(c)[0] = IF valid_cluster(c) THEN c ELSE 0
         /\ \A h \in 1 .. cluster_count : Visit(c)[h] = Hop(Visit(c)[h - 1])
<1> DEFINE N == cluster_count
           V == Clusters \cup {0}
           base == IF valid_cluster(c) THEN c ELSE 0
           step == [n \in 1 .. N |-> [x \in V |-> Hop(x)]]
<1>1. N \in Nat
  BY ValidIsCluster, Zenon
<1>2. base \in V
  BY ValidIsCluster, Zenon
<1>3. \A x \in V : Hop(x) \in V
  BY ValidIsCluster, Zenon DEF Hop, Given
<1>4. step \in [1 .. N -> [V -> V]]
  BY <1>3, Zenon
<1>5. \A x \in V, n \in 1 .. N : step[n][x] = Hop(x)
  BY Zenon
<1>a. PICK f : IsRec(f, N, V, base, step)
  <2> HIDE DEF step, N, V, base
  <2> QED BY <1>1, <1>2, <1>4, PrimRec, Zenon
<1>6. f \in [0 .. N -> V] /\ f[0] = base /\ \A n \in 1 .. N : f[n] = step[n][f[n - 1]]
  <2> HIDE DEF step, N, V, base
  <2> QED BY <1>a, Zenon DEF IsRec
<1>7. \A n \in 1 .. N : n - 1 \in 0 .. N /\ n \in 0 .. N /\ n # 0
  BY <1>1
<1>8. \A n \in 1 .. N : f[n] = Hop(f[n - 1])
  <2> HIDE DEF step, N, V, base
  <2> QED BY <1>5, <1>6, <1>7, Zenon
<1> HIDE DEF step
<1>9. f = [h \in 0 .. N |->
             IF h = 0 THEN (IF valid_cluster(c) THEN c ELSE 0)
             ELSE IF f[h - 1] # 0 /\ valid_cluster(fat[f[h - 1]]) THEN fat[f[h - 1]] ELSE 0]
  <2>1. ASSUME NEW n \in 0 .. N
        PROVE  f[n] = IF n = 0 THEN (IF valid_cluster(c) THEN c ELSE 0)
                      ELSE IF f[n - 1] # 0 /\ valid_cluster(fat[f[n - 1]]) THEN fat[f[n - 1]] ELSE 0
    <3>1. n = 0 \/ n \in 1 .. N
      BY <1>1
    <3> QED BY <1>6, <1>8, <3>1, Zenon DEF Hop
  <2> QED BY <1>6, <2>1, Zenon
<1> DEFINE v[h \in 0 .. cluster_count] ==
             IF h = 0 THEN (IF valid_cluster(c) THEN c ELSE 0)
             ELSE IF v[h - 1] # 0 /\ valid_cluster(fat[v[h - 1]]) THEN fat[v[h - 1]] ELSE 0
<1>10. v = [h \in 0 .. cluster_count |->
              IF h = 0 THEN (IF valid_cluster(c) THEN c ELSE 0)
              ELSE IF v[h - 1] # 0 /\ valid_cluster(fat[v[h - 1]]) THEN fat[v[h - 1]] ELSE 0]
  BY <1>9, Zenon
<1>11. Visit(c) = v
  BY Zenon DEF Visit
<1> HIDE DEF v
<1>12. 0 \in 0 .. N
  BY <1>1
<1>13. v[0] = base /\ \A h \in 1 .. N : v[h] = Hop(v[h - 1])
  BY <1>7, <1>10, <1>12, Zenon DEF Hop
<1>14. 0 .. N \subseteq {n \in Nat : v[n] \in V}
  <2> DEFINE T == {n \in Nat : v[n] \in V}
  <2>1. 0 \in T
    BY <1>2, <1>13
  <2>2. ASSUME NEW n \in 0 .. N - 1, n \in T PROVE n + 1 \in T
    <3>1. n + 1 \in 1 .. N /\ (n + 1) - 1 = n /\ n + 1 \in Nat
      <4> HIDE DEF T
      <4> QED BY <1>1
    <3>2. v[n + 1] = Hop(v[n])
      BY <1>13, <3>1, Zenon
    <3> QED BY <1>3, <2>2, <3>1, <3>2, Zenon
  <2> HIDE DEF T, N
  <2> QED BY <1>1, <2>1, <2>2, UpToN, Zenon DEF T
<1>15. v \in [0 .. N -> V]
  <2>1. \A n \in 0 .. N : v[n] \in V
    BY <1>14
  <2>2. v = [h \in 0 .. N |-> v[h]]
    BY <1>10, Zenon
  <2> QED BY <2>1, <2>2, Zenon
<1> QED BY <1>11, <1>13, <1>15, Zenon

(* A bounded set of naturals that is not empty has a greatest element. *)
LEMMA Greatest ==
  ASSUME NEW N \in Nat, NEW T, T \subseteq 0 .. N, T # {}
  PROVE  \E h \in T : \A g \in T : g <= h
<1> SUFFICES ASSUME \A h \in T : \E g \in T : ~(g <= h) PROVE FALSE
  BY Zenon
<1> DEFINE U == {n \in Nat : \E g \in T : g >= n}
<1>1. 0 \in U
  <2>1. PICK g \in T : TRUE
    BY Zenon
  <2>2. g >= 0
    OBVIOUS
  <2> QED BY <2>2, Zenon
<1>2. ASSUME NEW n \in Nat, n \in U PROVE n + 1 \in U
  <2>1. PICK h \in T : h >= n
    BY <1>2, Zenon
  <2>2. PICK g \in T : ~(g <= h)
    BY Zenon
  <2>3. g >= n + 1
    <3> HIDE DEF U
    <3> QED BY <2>1, <2>2
  <2> QED BY <2>3
<1> HIDE DEF U
<1>3. \A n \in Nat : n \in U
  BY <1>1, <1>2, Induction, Zenon
<1>4. N + 1 \in U
  BY <1>3
<1> QED BY <1>4 DEF U

(* A chain that has ended has ended. *)
LEMMA VisitEnds ==
  ASSUME Given, NEW c \in Nat, NEW h \in 0 .. cluster_count, Visit(c)[h] = 0, NEW g \in h .. cluster_count
  PROVE  Visit(c)[g] = 0
<1> DEFINE v == Visit(c)
           T == {n \in Nat : n >= h => v[n] = 0}
<1>1. cluster_count \in Nat
  BY ValidIsCluster, Zenon
<1>2. 0 \in T
  <2> HIDE DEF v
  <2> QED BY <1>1 DEF v
<1>3. ASSUME NEW n \in 0 .. cluster_count - 1, n \in T PROVE n + 1 \in T
  <2>1. n + 1 \in 1 .. cluster_count /\ (n + 1) - 1 = n /\ n + 1 \in Nat /\ n \in Nat
    <3> HIDE DEF T, v
    <3> QED BY <1>1
  <2>a. \A k \in 1 .. cluster_count : v[k] = Hop(v[k - 1])
    BY VisitIs, Zenon
  <2>2. v[n + 1] = Hop(v[n])
    <3> HIDE DEF v
    <3> QED BY <2>1, <2>a, Zenon
  <2>3. v[n] = 0 => v[n + 1] = 0
    BY <2>2, Zenon DEF Hop
  <2>4. n + 1 >= h => n >= h \/ n + 1 = h
    <3> HIDE DEF T, v
    <3> QED BY <2>1
  <2> HIDE DEF v
  <2>5. n + 1 >= h => v[n + 1] = 0
    BY <1>3, <2>3, <2>4, Zenon DEF v
  <2> QED BY <2>1, <2>5
<1> HIDE DEF T
<1>4. 0 .. cluster_count \subseteq T
  BY <1>1, <1>2, <1>3, UpToN, Zenon
<1>5. g \in 0 .. cluster_count /\ g >= h
  BY <1>1
<1> QED BY <1>4, <1>5, Zenon DEF T

(* Where in a listing an entry is, by its cluster, sector and offset. *)
Place(h, t, o) == h * PerCluster + (t * EntriesPerSector + o)

(* The sizes. *)
LEMMA Sizes ==
  /\ PerCluster \in Nat \ {0} /\ EntriesPerSector \in Nat \ {0} /\ sectors_per_cluster \in Nat \ {0}
  /\ PerCluster = sectors_per_cluster * EntriesPerSector
<1>1. EntriesPerSector \in Nat \ {0} /\ sectors_per_cluster \in Nat \ {0}
  BY FindAssumption, Zenon
<1> QED BY <1>1 DEF PerCluster

(* It is the only one. *)
LEMMA PlaceIs ==
  ASSUME NEW h \in Nat, NEW t \in 0 .. sectors_per_cluster - 1, NEW o \in 1 .. EntriesPerSector
  PROVE  LET i == Place(h, t, o)
             within == (i - 1) % PerCluster
         IN  /\ i \in Nat /\ i > h * PerCluster /\ i <= (h + 1) * PerCluster
             /\ h * PerCluster \in Nat /\ (h + 1) * PerCluster \in Nat
             /\ (i - 1) \div PerCluster = h
             /\ within \div EntriesPerSector = t /\ 1 + (within % EntriesPerSector) = o
<1> DEFINE P == PerCluster
           E == EntriesPerSector
           w == t * E + (o - 1)
           i == h * P + (t * E + o)
<1>1. P \in Nat \ {0} /\ E \in Nat \ {0} /\ sectors_per_cluster \in Nat \ {0} /\ P = sectors_per_cluster * E
  BY Sizes, Zenon
<1> HIDE DEF P, E
<1>2. t \in Nat /\ t <= sectors_per_cluster - 1 /\ o \in Nat /\ o >= 1 /\ o <= E
  BY <1>1 DEF E
<1>3. t * E \in Nat /\ t * E <= (sectors_per_cluster - 1) * E /\ (sectors_per_cluster - 1) * E = P - E
  BY <1>1, <1>2
<1>4. w \in 0 .. P - 1 /\ w \in Nat
  BY <1>1, <1>2, <1>3
<1>5. h * P \in Nat /\ (h + 1) * P = h * P + P
  BY <1>1
<1>6. i - 1 = h * P + w /\ i - 1 \in Nat /\ i \in Nat /\ i > h * P /\ i <= (h + 1) * P
  BY <1>1, <1>2, <1>3, <1>4, <1>5
<1> HIDE DEF i
<1>7. i - 1 = P * h + w
  BY <1>1, <1>5, <1>6
<1>8. w = E * t + (o - 1) /\ o - 1 \in 0 .. E - 1
  BY <1>1, <1>2, <1>3
<1> HIDE DEF w
<1>9. (i - 1) \div P = h /\ (i - 1) % P = w
  <2> DEFINE x == i - 1
  <2>1. x \in Nat /\ P \in Nat \ {0} /\ w \in 0 .. P - 1 /\ x = P * h + w
    BY <1>1, <1>4, <1>6, <1>7, Zenon
  <2> HIDE DEF x
  <2>2. x \div P = h /\ x % P = w
    BY <2>1, Division, Zenon
  <2> QED BY <2>2, Zenon DEF x
<1>10. w \div E = t /\ w % E = o - 1
  <2> DEFINE r == o - 1
  <2>1. w \in Nat /\ E \in Nat \ {0} /\ t \in Nat /\ r \in 0 .. E - 1 /\ w = E * t + r
    BY <1>1, <1>2, <1>4, <1>8, Zenon
  <2> HIDE DEF r
  <2>2. w \div E = t /\ w % E = r
    BY <2>1, Division, Zenon
  <2> QED BY <2>2, Zenon DEF r
<1>11. 1 + (o - 1) = o
  BY <1>2
<1>12. i = Place(h, t, o)
  BY Zenon DEF i, P, E, Place
<1>13. (h + 1) * P \in Nat
  BY <1>1
<1> QED BY <1>5, <1>6, <1>9, <1>10, <1>11, <1>12, <1>13, Zenon DEF P, E

(* Every number has its place. *)
LEMMA HasPlace ==
  ASSUME NEW i \in Nat \ {0}
  PROVE  \E h \in Nat, t \in 0 .. sectors_per_cluster - 1, o \in 1 .. EntriesPerSector : i = Place(h, t, o)
<1> DEFINE P == PerCluster
           E == EntriesPerSector
           h == (i - 1) \div P
           w == (i - 1) % P
           t == w \div E
           o == w % E
<1>1. P \in Nat \ {0} /\ E \in Nat \ {0} /\ sectors_per_cluster \in Nat \ {0} /\ P = sectors_per_cluster * E
  BY Sizes, Zenon
<1>2. i - 1 \in Nat
  OBVIOUS
<1> HIDE DEF P, E
<1>3. h \in Nat /\ w \in 0 .. P - 1 /\ i - 1 = P * h + w
  BY <1>1, <1>2, DivMod, Zenon
<1> HIDE DEF h, w
<1>4. w \in Nat
  BY <1>1, <1>3
<1>5. t \in Nat /\ o \in 0 .. E - 1 /\ w = E * t + o
  BY <1>1, <1>4, DivMod, Zenon
<1> HIDE DEF t, o
<1>6. t <= sectors_per_cluster - 1
  <2>1. t >= sectors_per_cluster => E * t >= P
    BY <1>1, <1>5
  <2>2. E * t \in Int
    BY <1>1, <1>5
  <2> QED BY <1>1, <1>3, <1>5, <2>1, <2>2
<1>7. t \in 0 .. sectors_per_cluster - 1 /\ o + 1 \in 1 .. E
  BY <1>1, <1>5, <1>6
<1>8. i = h * P + (t * E + (o + 1))
  <2>1. P * h = h * P /\ E * t = t * E /\ h * P \in Int /\ t * E \in Int
    BY <1>1, <1>3, <1>5
  <2> QED BY <1>1, <1>3, <1>5, <2>1
<1> QED BY <1>3, <1>7, <1>8, Zenon DEF Place, P, E

(* What is listed: the entries of the clusters of the chain. *)
LEMMA ListingIs ==
  ASSUME Given, NEW c \in Nat
  PROVE  /\ \A i \in DOMAIN Listing(c) : i \in Nat \ {0} /\ Listing(c)[i] \in Entry
         /\ \A h \in 0 .. cluster_count : Visit(c)[h] # 0 =>
              \A t \in 0 .. sectors_per_cluster - 1, o \in 1 .. EntriesPerSector :
                /\ Place(h, t, o) \in DOMAIN Listing(c)
                /\ Listing(c)[Place(h, t, o)] = sectors[cluster_lba(Visit(c)[h]) + t][o]
         /\ \A h \in 0 .. cluster_count : Visit(c)[h] = 0 => \A i \in DOMAIN Listing(c) : i <= h * PerCluster
         /\ \A i \in DOMAIN Listing(c) : i <= (cluster_count + 1) * PerCluster
         /\ \A i \in DOMAIN Listing(c), j \in Nat \ {0} : j <= i => j \in DOMAIN Listing(c)
<1> DEFINE v == Visit(c)
           P == PerCluster
           N == cluster_count
           n == {h \in DOMAIN v : v[h] # 0}
           top == CHOOSE h \in n : \A g \in n : g <= h
           len == IF n = {} THEN 0 ELSE P * (1 + top)
<1>1. v \in [0 .. N -> Clusters \cup {0}] /\ DOMAIN v = 0 .. N /\ N \in Nat
  BY VisitIs, ValidIsCluster, Zenon
<1>2. P \in Nat \ {0}
  BY Sizes
<1>3. Listing(c) = [i \in 1 .. len |->
        LET within == (i - 1) % PerCluster IN
        sectors[cluster_lba(v[(i - 1) \div PerCluster]) + (within \div EntriesPerSector)]
               [1 + (within % EntriesPerSector)]]
  BY Zenon DEF Listing
<1> HIDE DEF v, P, N
<1>4. n # {} => top \in 0 .. N /\ v[top] # 0 /\ \A g \in 0 .. N : v[g] # 0 => g <= top
  <2> SUFFICES ASSUME n # {} PROVE top \in 0 .. N /\ v[top] # 0 /\ \A g \in 0 .. N : v[g] # 0 => g <= top
    OBVIOUS
  <2>1. n \subseteq 0 .. N
    BY <1>1, Zenon
  <2>2. \E h \in n : \A g \in n : g <= h
    <3> HIDE DEF n
    <3> QED BY <1>1, <2>1, Greatest, Zenon
  <2>3. top \in n /\ \A g \in n : g <= top
    <3> HIDE DEF n
    <3> QED BY <2>2, Zenon
  <2> HIDE DEF top
  <2> QED BY <1>1, <2>3, Zenon
<1>5. n = {} => \A g \in 0 .. N : v[g] = 0
  BY <1>1, Zenon
<1> HIDE DEF n, top
<1>6. \A h \in 0 .. N : v[h] = 0 => \A g \in h .. N : v[g] = 0
  BY VisitEnds, Zenon DEF v, N
<1>7. len \in Nat /\ (n # {} => len = (top + 1) * P)
  BY <1>1, <1>2, <1>4
<1> HIDE DEF len
<1>8. ASSUME NEW h \in Nat, NEW t \in 0 .. sectors_per_cluster - 1, NEW o \in 1 .. EntriesPerSector
      PROVE  /\ Place(h, t, o) \in 1 .. len <=> h \in 0 .. N /\ v[h] # 0
             /\ Place(h, t, o) \in 1 .. len => Listing(c)[Place(h, t, o)] = sectors[cluster_lba(v[h]) + t][o]
  <2> DEFINE i == Place(h, t, o)
             within == (i - 1) % PerCluster
  <2>1. /\ i \in Nat /\ i > h * P /\ i <= (h + 1) * P
        /\ h * P \in Nat /\ (h + 1) * P \in Nat
        /\ (i - 1) \div PerCluster = h
        /\ within \div EntriesPerSector = t /\ 1 + (within % EntriesPerSector) = o
    BY PlaceIs, ZenonT(40) DEF P
  <2> HIDE DEF i
  <2>2. i >= 1
    BY <1>2, <2>1
  <2>3. ASSUME i \in 1 .. len PROVE h \in 0 .. N /\ v[h] # 0
    <3>1. n # {}
      BY <2>2, <2>3, <1>7 DEF len
    <3>2. i <= (top + 1) * P /\ top \in 0 .. N
      BY <1>4, <1>7, <2>1, <2>3, <3>1
    <3>3. h <= top
      <4>1. (top + 1) * P \in Nat
        BY <1>1, <1>2, <3>2
      <4>2. h >= top + 1 => h * P >= (top + 1) * P
        BY <1>1, <1>2, <3>2
      <4> QED BY <1>1, <2>1, <3>2, <4>1, <4>2
    <3>4. h \in 0 .. N /\ top \in h .. N
      BY <1>1, <3>2, <3>3
    <3> QED BY <1>4, <1>6, <3>1, <3>4, Zenon
  <2>4. ASSUME h \in 0 .. N, v[h] # 0 PROVE i \in 1 .. len
    <3>1. n # {} /\ top \in 0 .. N /\ h <= top
      BY <1>4, <1>5, <2>4, Zenon
    <3>2. (h + 1) * P <= (top + 1) * P /\ (top + 1) * P \in Nat
      BY <1>1, <1>2, <2>4, <3>1
    <3> QED BY <1>7, <2>1, <2>2, <3>1, <3>2
  <2>5. i \in 1 .. len => Listing(c)[i] = sectors[cluster_lba(v[h]) + t][o]
    BY <1>3, <2>1, Zenon
  <2> QED BY <2>3, <2>4, <2>5, Zenon DEF i
<1>9. DOMAIN Listing(c) = 1 .. len
  BY <1>3, Zenon
<1>10. ASSUME NEW i \in 1 .. len
       PROVE  /\ i \in Nat \ {0} /\ Listing(c)[i] \in Entry /\ i <= (N + 1) * P
              /\ \A h \in 0 .. N : v[h] = 0 => i <= h * P
  <2>1. i \in Nat \ {0}
    BY <1>7
  <2>2. PICK h \in Nat, t \in 0 .. sectors_per_cluster - 1, o \in 1 .. EntriesPerSector : i = Place(h, t, o)
    BY <2>1, HasPlace, Zenon
  <2>3. h \in 0 .. N /\ v[h] # 0 /\ Listing(c)[i] = sectors[cluster_lba(v[h]) + t][o]
    BY <1>8, <2>2, Zenon
  <2>4. v[h] \in Clusters
    BY <1>1, <2>3, Zenon
  <2>5. v[h] \in Nat /\ valid_cluster(v[h])
    BY <2>4, ValidIsCluster, Zenon
  <2>6. t \in Nat /\ t < sectors_per_cluster
    BY Sizes
  <2>7. cluster_lba(v[h]) + t \in Lbas
    BY <2>5, <2>6, InRegion, Zenon
  <2>8. Listing(c)[i] \in Entry
    BY <2>3, <2>7, Zenon DEF Given
  <2>9. i <= (h + 1) * P /\ h * P \in Nat /\ (h + 1) * P \in Nat
    BY <2>2, PlaceIs, Zenon DEF P
  <2>10. (h + 1) * P <= (N + 1) * P /\ (N + 1) * P \in Nat
    BY <1>1, <1>2, <2>3
  <2>11. ASSUME NEW g \in 0 .. N, v[g] = 0 PROVE i <= g * P
    <3>1. ~(h \in g .. N)
      BY <1>6, <2>3, <2>11, Zenon
    <3>2. h + 1 <= g
      BY <1>1, <2>3, <3>1
    <3>3. (h + 1) * P <= g * P /\ g * P \in Nat
      BY <1>1, <1>2, <3>2
    <3> QED BY <2>1, <2>9, <3>3
  <2>12. i <= (N + 1) * P
    BY <2>1, <2>9, <2>10
  <2> QED BY <2>1, <2>8, <2>11, <2>12
<1>11. \A i \in 1 .. len, j \in Nat \ {0} : j <= i => j \in 1 .. len
  BY <1>7
<1>12. \A h \in 0 .. N : h \in Nat
  BY <1>1
<1>13. \A h \in 0 .. N : v[h] # 0 =>
         \A t \in 0 .. sectors_per_cluster - 1, o \in 1 .. EntriesPerSector :
           Place(h, t, o) \in 1 .. len /\ Listing(c)[Place(h, t, o)] = sectors[cluster_lba(v[h]) + t][o]
  <2> SUFFICES ASSUME NEW h \in 0 .. N, v[h] # 0,
                      NEW t \in 0 .. sectors_per_cluster - 1, NEW o \in 1 .. EntriesPerSector
               PROVE  Place(h, t, o) \in 1 .. len /\ Listing(c)[Place(h, t, o)] = sectors[cluster_lba(v[h]) + t][o]
    BY Zenon
  <2>1. h \in Nat
    BY <1>12, Zenon
  <2> QED BY <1>8, <2>1, Zenon
<1>14. \A i \in 1 .. len : i \in Nat \ {0} /\ Listing(c)[i] \in Entry
  BY <1>10, Zenon
<1>15. \A h \in 0 .. N : v[h] = 0 => \A i \in 1 .. len : i <= h * P
  BY <1>10, Zenon
<1>16. \A i \in 1 .. len : i <= (N + 1) * P
  BY <1>10, Zenon
<1> QED BY <1>9, <1>11, <1>13, <1>14, <1>15, <1>16, ZenonT(40) DEF v, P, N

-----------------------------------------------------------------------------
(* The entry the path names, component by component.                       *)

(* A set of naturals that is not empty has a least element. *)
LEMMA Least ==
  ASSUME NEW T, T \subseteq Nat, T # {}
  PROVE  \E h \in T : \A g \in T : h <= g
<1> DEFINE R == OpToRel(<, Nat)
<1>1. IsWellFoundedOn(R, Nat)
  BY NatLessThanWellFounded, Zenon
<1>2. \A a, b \in Nat : a < b => <<a, b>> \in R
  BY Zenon DEF OpToRel
<1> HIDE DEF R
<1>3. PICK h \in T : \A g \in T : ~ (<<g, h>> \in R)
  BY <1>1, WFMin, Zenon
<1>4. \A g \in T : g \in Nat /\ h \in Nat /\ ~(g < h)
  BY <1>2, <1>3, Zenon
<1>5. \A a, b \in Nat : ~(a < b) => b <= a
  OBVIOUS
<1> QED BY <1>4, <1>5, Zenon

(* One component, from a directory on. *)
Search(dir, component) ==
  LET list == Listing(DirCluster(dir.first_cluster))
      hits == Hits(list, component)
  IN  IF ~dir.dir \/ Len(component) > kMaxNameLen \/ hits = {} THEN None
      ELSE FileOf(list[CHOOSE i \in hits : \A j \in hits : i <= j])

(* An entry makes a file, which is not None. *)
LEMMA FileType ==
  /\ \A entry \in Entry : FileOf(entry) \in Files
  /\ None \notin Files /\ None.dir = FALSE /\ Root \in Files /\ None.first_cluster = 0 /\ Root.dir = TRUE
<1>1. \A entry \in Entry : FileOf(entry).first_cluster \in Nat
  BY EntryNumbers
<1>2. \A entry \in Entry : entry.size \in Nat
  BY Zenon DEF Entry
<1>3. ASSUME NEW entry \in Entry PROVE FileOf(entry) \in Files
  <2>1. entry.high * Words + entry.low \in Nat
    BY <1>1 DEF FileOf
  <2> QED BY <1>2, <2>1 DEF FileOf, Files
<1>4. root_cluster \in Nat
  BY ValidIsCluster
<1> QED BY <1>3, <1>4 DEF Files, None, Root

(* The number of a directory's first cluster. *)
LEMMA DirClusterType ==
  ASSUME NEW dir \in Files \cup {None}
  PROVE  dir.first_cluster \in Nat /\ DirCluster(dir.first_cluster) \in Nat
<1>1. dir.first_cluster \in Nat
  BY DEF Files, None
<1> QED BY <1>1, ValidIsCluster, Zenon DEF DirCluster

(* A component found or not. *)
LEMMA SearchType ==
  ASSUME Given, NEW dir \in Files \cup {None}, NEW component
  PROVE  Search(dir, component) \in Files \cup {None}
<1> DEFINE list == Listing(DirCluster(dir.first_cluster))
           hits == Hits(list, component)
           i == CHOOSE i \in hits : \A j \in hits : i <= j
<1>1. \A j \in DOMAIN list : j \in Nat /\ list[j] \in Entry
  BY DirClusterType, ListingIs, Zenon
<1> HIDE DEF list
<1>2. hits \subseteq DOMAIN list /\ hits \subseteq Nat
  BY <1>1, Zenon DEF Hits
<1> HIDE DEF hits
<1>3. hits # {} => i \in hits
  BY <1>2, Least, Zenon
<1> HIDE DEF i
<1>4. hits # {} => FileOf(list[i]) \in Files
  BY <1>1, <1>2, <1>3, FileType, Zenon
<1> QED BY <1>4, Zenon DEF Search, list, hits, i

(* The reference, as a recursion. *)
Resolved ==
  /\ Components \in Names /\ Len(Components) \in Nat
  /\ Resolve[0] = Root
  /\ \A n \in 0 .. Len(Components) : Resolve[n] \in Files \cup {None}
  /\ \A n \in 1 .. Len(Components) : Resolve[n] = Search(Resolve[n - 1], Components[n])

(* It is that. *)
LEMMA ResolveIs == Given => Resolved
<1> SUFFICES ASSUME Given PROVE Resolved
  OBVIOUS
<1> DEFINE N == Len(Components)
           V == Files \cup {None}
           step == [n \in 1 .. N |-> [x \in V |-> Search(x, Components[n])]]
<1>0. Len(path) \in 0 .. Len(path)
  BY SplitIs
<1>1. Components \in Names
  BY <1>0, SplitIs, Zenon
<1>2. N \in Nat
  BY <1>1, Zenon, LenProperties DEF Names
<1>3. Root \in V
  BY FileType, Zenon
<1>4. step \in [1 .. N -> [V -> V]]
  BY SearchType, Zenon
<1>5. \A x \in V, n \in 1 .. N : step[n][x] = Search(x, Components[n])
  BY Zenon
<1>a. PICK f : IsRec(f, N, V, Root, step)
  <2> HIDE DEF step, N, V
  <2> QED BY <1>2, <1>3, <1>4, PrimRec, Zenon
<1>6. f \in [0 .. N -> V] /\ f[0] = Root /\ \A n \in 1 .. N : f[n] = step[n][f[n - 1]]
  <2> HIDE DEF step, N, V
  <2> QED BY <1>a, Zenon DEF IsRec
<1>7. 0 \in 0 .. N /\ \A n \in 1 .. N : n - 1 \in 0 .. N /\ n \in 0 .. N /\ n # 0
  <2> HIDE DEF N
  <2> QED BY <1>2
<1>8. \A n \in 1 .. N : f[n] = Search(f[n - 1], Components[n])
  <2> HIDE DEF step, N, V
  <2> QED BY <1>5, <1>6, <1>7, Zenon
<1> HIDE DEF step
<1>9. f = [n \in 0 .. Len(Components) |->
             IF n = 0 THEN Root
             ELSE LET dir == f[n - 1]
                      list == Listing(DirCluster(dir.first_cluster))
                      hits == Hits(list, Components[n])
                  IN  IF ~dir.dir \/ Len(Components[n]) > kMaxNameLen \/ hits = {} THEN None
                      ELSE FileOf(list[CHOOSE i \in hits : \A j \in hits : i <= j])]
  <2>1. ASSUME NEW n \in 0 .. N
        PROVE  f[n] = IF n = 0 THEN Root
                      ELSE LET dir == f[n - 1]
                               list == Listing(DirCluster(dir.first_cluster))
                               hits == Hits(list, Components[n])
                           IN  IF ~dir.dir \/ Len(Components[n]) > kMaxNameLen \/ hits = {} THEN None
                               ELSE FileOf(list[CHOOSE i \in hits : \A j \in hits : i <= j])
    <3>1. n = 0 \/ n \in 1 .. N
      <4> HIDE DEF N
      <4> QED BY <1>2
    <3> QED BY <1>6, <1>8, <3>1, Zenon DEF Search
  <2> QED BY <1>6, <2>1, Zenon
<1>10. Resolve = [n \in 0 .. Len(Components) |->
                    IF n = 0 THEN Root
                    ELSE LET dir == Resolve[n - 1]
                             list == Listing(DirCluster(dir.first_cluster))
                             hits == Hits(list, Components[n])
                         IN  IF ~dir.dir \/ Len(Components[n]) > kMaxNameLen \/ hits = {} THEN None
                             ELSE FileOf(list[CHOOSE i \in hits : \A j \in hits : i <= j])]
  BY <1>9, Zenon DEF Resolve
<1>11. Resolve[0] = Root
  BY <1>7, <1>10, Zenon
<1>12. \A n \in 1 .. N : Resolve[n] = Search(Resolve[n - 1], Components[n])
  BY <1>7, <1>10, Zenon DEF Search
<1>13. 0 .. N \subseteq {n \in Nat : Resolve[n] \in V}
  <2> DEFINE T == {n \in Nat : Resolve[n] \in V}
  <2>1. 0 \in T
    BY <1>3, <1>11
  <2>2. ASSUME NEW n \in 0 .. N - 1, n \in T PROVE n + 1 \in T
    <3>1. n + 1 \in 1 .. N /\ (n + 1) - 1 = n /\ n + 1 \in Nat
      <4> HIDE DEF T, N
      <4> QED BY <1>2
    <3>2. Resolve[n + 1] = Search(Resolve[n], Components[n + 1])
      BY <1>12, <3>1, Zenon
    <3> QED BY <2>2, <3>1, <3>2, SearchType, Zenon
  <2> HIDE DEF T, N
  <2> QED BY <1>2, <2>1, <2>2, UpToN, Zenon DEF T
<1> QED BY <1>1, <1>2, <1>11, <1>12, <1>13, Zenon DEF Resolved

(* Nor does what the path leads to change. *)
LEMMA ResolveSame ==
  ASSUME Given, Given', Frozen
  PROVE  /\ Components' = Components
         /\ \A n \in 0 .. Len(Components) : Resolve'[n] = Resolve[n]
<1>1. Resolved
  BY ResolveIs
<1>2. (Given => Resolved)'
  BY ResolveIs, PTL
<1>3. Components' = Components /\ \A c : Listing(c)' = Listing(c)
  BY FrozenParts, Zenon
<1>4. ASSUME NEW dir, NEW component PROVE Search(dir, component)' = Search(dir, component)
  <2>1. Listing(DirCluster(dir.first_cluster))' = Listing(DirCluster(dir.first_cluster))
    BY <1>3, Zenon DEF DirCluster
  <2> QED BY <2>1, SMT DEF Search
<1> DEFINE N == Len(Components)
           T == {n \in Nat : Resolve'[n] = Resolve[n]}
<1>5. /\ N \in Nat /\ Resolve[0] = Root
      /\ \A n \in 1 .. N : Resolve[n] = Search(Resolve[n - 1], Components[n])
  BY <1>1, Zenon DEF Resolved
<1>6. /\ Resolve'[0] = Root
      /\ \A n \in 1 .. N : Resolve'[n] = Search(Resolve'[n - 1], Components[n])
  BY <1>2, <1>3, <1>4, Zenon DEF Resolved
<1> HIDE DEF N
<1>7. 0 \in T
  BY <1>5, <1>6
<1>8. ASSUME NEW n \in 0 .. N - 1, n \in T PROVE n + 1 \in T
  <2>1. n + 1 \in 1 .. N /\ (n + 1) - 1 = n /\ n + 1 \in Nat
    <3> HIDE DEF T
    <3> QED BY <1>5
  <2> QED BY <1>5, <1>6, <1>8, <2>1, Zenon
<1> HIDE DEF T
<1>9. 0 .. N \subseteq T
  BY <1>5, <1>7, <1>8, UpToN, Zenon
<1> QED BY <1>3, <1>9, Zenon DEF T, N

(* Past a component that is not there, there is nothing. *)
LEMMA NoneStays ==
  ASSUME Given, NEW n \in 0 .. Len(Components), Resolve[n] = None
  PROVE  Resolve[Len(Components)] = None
<1> DEFINE N == Len(Components)
           T == {m \in Nat : m >= n => Resolve[m] = None}
<1>1. /\ N \in Nat /\ Resolve[0] = Root
      /\ \A m \in 1 .. N : Resolve[m] = Search(Resolve[m - 1], Components[m])
  BY ResolveIs, Zenon DEF Resolved
<1>2. \A component : Search(None, component) = None
  BY FileType, Zenon DEF Search
<1> HIDE DEF N
<1>3. n \in 0 .. N
  BY Zenon DEF N
<1>4. 0 \in T
  <2>1. 0 >= n => n = 0
    <3> HIDE DEF T
    <3> QED BY <1>1, <1>3
  <2> QED BY <2>1
<1>5. ASSUME NEW m \in 0 .. N - 1, m \in T PROVE m + 1 \in T
  <2>1. m + 1 \in 1 .. N /\ (m + 1) - 1 = m /\ m + 1 \in Nat /\ (m + 1 >= n => m >= n \/ m + 1 = n)
    <3> HIDE DEF T
    <3> QED BY <1>1, <1>3
  <2>2. m + 1 >= n => Resolve[m + 1] = None
    BY <1>1, <1>2, <1>5, <2>1, Zenon
  <2> QED BY <2>1, <2>2
<1> HIDE DEF T
<1>6. 0 .. N \subseteq T
  BY <1>1, <1>4, <1>5, UpToN, Zenon
<1>7. N \in 0 .. N /\ N >= n
  BY <1>1, <1>3
<1> QED BY <1>6, <1>7, Zenon DEF T, N

-----------------------------------------------------------------------------
(* The components of the path.                                             *)

(* The first place from n on with a property. *)
LEMMA FirstPlace ==
  ASSUME NEW N \in Nat, NEW n \in 1 .. N + 1, NEW W
  PROVE  \E m \in n .. N + 1 : (\A j \in n .. m - 1 : j \notin W) /\ (m <= N => m \in W)
<1> DEFINE T == {m \in n .. N + 1 : m = N + 1 \/ m \in W}
<1>1. N + 1 \in T /\ T \subseteq Nat
  OBVIOUS
<1>2. PICK m \in T : \A g \in T : m <= g
  <2> HIDE DEF T
  <2> QED BY <1>1, Least, Zenon
<1>3. m \in n .. N + 1 /\ (m <= N => m \in W)
  BY <1>2
<1>4. ASSUME NEW j \in n .. m - 1, j \in W PROVE FALSE
  <2>1. j \in n .. N + 1 /\ ~(m <= j)
    BY <1>3
  <2> QED BY <1>2, <1>4, <2>1
<1> QED BY <1>3, <1>4, Zenon

(* Where find() goes: the next component begins, and ends. *)
LEMMA SlashesIs ==
  ASSUME Given, NEW n \in 1 .. Len(path) + 1
  PROVE  /\ LET m == SkipSlashes(n)
            IN  m \in n .. Len(path) + 1 /\ (\A j \in n .. m - 1 : path[j] = Slash)
                /\ (m <= Len(path) => path[m] # Slash)
         /\ LET m == ToSlash(n)
            IN  m \in n .. Len(path) + 1 /\ (\A j \in n .. m - 1 : path[j] # Slash)
                /\ (m <= Len(path) => path[m] = Slash)
<1> DEFINE N == Len(path)
<1>1. N \in Nat
  BY SplitIs
<1> HIDE DEF N
<1>2. n \in 1 .. N + 1
  BY DEF N
<1>3. \E m \in n .. N + 1 : (\A j \in n .. m - 1 : path[j] = Slash) /\ (m <= N => path[m] # Slash)
  <2> DEFINE W == {j \in 1 .. N : path[j] # Slash}
  <2>1. PICK m \in n .. N + 1 : (\A j \in n .. m - 1 : j \notin W) /\ (m <= N => m \in W)
    <3> HIDE DEF W
    <3> QED BY <1>1, <1>2, FirstPlace, Zenon
  <2>2. \A j \in n .. m - 1 : j \in 1 .. N
    <3> HIDE DEF W
    <3> QED BY <1>1, <1>2
  <2> QED BY <2>1, <2>2, Zenon
<1>4. \E m \in n .. N + 1 : (\A j \in n .. m - 1 : path[j] # Slash) /\ (m <= N => path[m] = Slash)
  <2> DEFINE W == {j \in 1 .. N : path[j] = Slash}
  <2>1. PICK m \in n .. N + 1 : (\A j \in n .. m - 1 : j \notin W) /\ (m <= N => m \in W)
    <3> HIDE DEF W
    <3> QED BY <1>1, <1>2, FirstPlace, Zenon
  <2>2. \A j \in n .. m - 1 : j \in 1 .. N
    <3> HIDE DEF W
    <3> QED BY <1>1, <1>2
  <2> QED BY <2>1, <2>2, Zenon
<1>5. LET m == SkipSlashes(n)
      IN  m \in n .. N + 1 /\ (\A j \in n .. m - 1 : path[j] = Slash) /\ (m <= N => path[m] # Slash)
  BY <1>3, Zenon DEF SkipSlashes, N
<1>6. LET m == ToSlash(n)
      IN  m \in n .. N + 1 /\ (\A j \in n .. m - 1 : path[j] # Slash) /\ (m <= N => path[m] = Slash)
  BY <1>4, Zenon DEF ToSlash, N
<1> QED BY <1>5, <1>6, Zenon DEF N

(* Slashes add no component. *)
LEMMA SplitSlashes ==
  ASSUME Given, NEW n \in 1 .. Len(path) + 1, NEW m \in n - 1 .. Len(path), \A j \in n .. m : path[j] = Slash
  PROVE  Split[m] = Split[n - 1]
<1> DEFINE N == Len(path)
           T == {k \in Nat : k >= n - 1 /\ k <= m => Split[k] = Split[n - 1]}
<1>1. N \in Nat /\ \A k \in 1 .. N : Split[k] = SplitStep(Split[k - 1], k)
  BY SplitIs, Zenon
<1> HIDE DEF N
<1>2. n \in 1 .. N + 1 /\ m \in n - 1 .. N
  BY Zenon DEF N
<1>3. 0 \in T
  <2>1. 0 >= n - 1 => n - 1 = 0
    <3> HIDE DEF T
    <3> QED BY <1>1, <1>2
  <2> QED BY <2>1
<1>4. ASSUME NEW k \in 0 .. N - 1, k \in T PROVE k + 1 \in T
  <2>1. /\ k + 1 \in 1 .. N /\ (k + 1) - 1 = k /\ k + 1 \in Nat
        /\ (k + 1 >= n - 1 /\ k + 1 <= m => k + 1 = n - 1 \/ (k >= n - 1 /\ k <= m /\ k + 1 \in n .. m))
    <3> HIDE DEF T
    <3> QED BY <1>1, <1>2
  <2>2. k + 1 >= n - 1 /\ k + 1 <= m => Split[k + 1] = Split[n - 1]
    BY <1>1, <1>4, <2>1, Zenon DEF SplitStep
  <2> QED BY <2>1, <2>2
<1> HIDE DEF T
<1>5. 0 .. N \subseteq T
  BY <1>1, <1>3, <1>4, UpToN, Zenon
<1>6. m \in 0 .. N /\ m >= n - 1 /\ m <= m
  BY <1>1, <1>2
<1> QED BY <1>5, <1>6, Zenon DEF T

SetLast(u, x) == [u EXCEPT ![Len(u)] = x]

(* A character goes to the end of the last component. *)
LEMMA AppendToLast ==
  ASSUME NEW S, NEW names \in Seq(S), NEW w \in S, NEW x \in S, NEW u, u = Append(names, w)
  PROVE  u[Len(u)] = w /\ SetLast(u, x) = Append(names, x)
<1> DEFINE n == Len(names) + 1
           t == Append(names, x)
           v == [u EXCEPT ![n] = x]
<1>1. u \in Seq(S) /\ t \in Seq(S) /\ Len(u) = n /\ Len(t) = n /\ n \in 1 .. n /\ Len(names) \in Nat
  OBVIOUS
<1>2. u[n] = w /\ t[n] = x /\ \A i \in 1 .. n : i # n => u[i] = names[i] /\ t[i] = names[i]
  OBVIOUS
<1> HIDE DEF t, n
<1>3. v \in Seq(S) /\ Len(v) = n /\ \A j \in 1 .. n : v[j] = IF j = n THEN x ELSE u[j]
  <2>1. n \in 1 .. Len(u) /\ u \in Seq(S)
    BY <1>1, Zenon
  <2>2. v \in Seq(S)
    BY <2>1, ExceptSeq, Zenon
  <2>a. DOMAIN u = 1 .. Len(u)
    BY <2>1, LenProperties, Zenon
  <2>b. DOMAIN v = 1 .. Len(u)
    BY <2>a, Zenon
  <2>3. Len(v) = Len(u)
    <3> HIDE DEF v
    <3> QED BY <1>1, <2>2, <2>b
  <2>4. \A j \in 1 .. Len(u) : v[j] = IF j = n THEN x ELSE u[j]
    BY <2>1, <2>a, Zenon
  <2> QED BY <1>1, <2>2, <2>3, <2>4, Zenon
<1> HIDE DEF v
<1>4. \A j \in 1 .. n : v[j] = t[j]
  BY <1>2, <1>3, Zenon
<1>5. v = t
  BY <1>1, <1>3, <1>4, SeqEqual, Zenon
<1> QED BY <1>1, <1>2, <1>5, Zenon DEF v, t, SetLast

(* That, for the sequence itself. *)
LEMMA SetLastOfAppend ==
  ASSUME NEW S, NEW names \in Seq(S), NEW w \in S, NEW x \in S
  PROVE  SetLast(Append(names, w), x) = Append(names, x)
<1> DEFINE u == Append(names, w)
<1>1. u = Append(names, w)
  OBVIOUS
<1> HIDE DEF u
<1>2. SetLast(u, x) = Append(names, x)
  BY <1>1, AppendToLast, ZenonT(40)
<1> QED BY <1>2 DEF u

(* Nor does a segment of a sequence grow otherwise. *)
LEMMA SegmentGrows ==
  ASSUME NEW S, NEW q \in Seq(S), NEW a \in 1 .. Len(q)
  PROVE  /\ SubSeq(q, a, a) = <<q[a]>>
         /\ \A b \in a .. Len(q) : SubSeq(q, a, b) \in Seq(S)
         /\ \A b \in a .. Len(q) - 1 : Append(SubSeq(q, a, b), q[b + 1]) = SubSeq(q, a, b + 1)
<1>1. Len(q) \in Nat /\ \A j \in 1 .. Len(q) : q[j] \in S
  OBVIOUS
<1>2. ASSUME NEW b \in a .. Len(q)
      PROVE  SubSeq(q, a, b) \in Seq(S) /\ Len(SubSeq(q, a, b)) = b - a + 1
             /\ \A i \in 1 .. b - a + 1 : SubSeq(q, a, b)[i] = q[a + i - 1]
  <2>1. a \in Int /\ b \in Int /\ a <= b /\ \A i \in a .. b : q[i] \in S
    BY <1>1
  <2>2. b - a + 1 = b - a + 1
    OBVIOUS
  <2> QED BY <2>1, SubSeqProperties
<1>3. SubSeq(q, a, a) = <<q[a]>>
  <2>1. a \in a .. Len(q) /\ q[a] \in S /\ a - a + 1 = 1 /\ a + 1 - 1 = a /\ 1 \in 1 .. 1 /\ \A i \in 1 .. 1 : i = 1
    BY <1>1
  <2>2. SubSeq(q, a, a) \in Seq(S) /\ Len(SubSeq(q, a, a)) = 1 /\ SubSeq(q, a, a)[1] = q[a]
    <3>1. /\ SubSeq(q, a, a) \in Seq(S) /\ Len(SubSeq(q, a, a)) = a - a + 1
          /\ \A i \in 1 .. a - a + 1 : SubSeq(q, a, a)[i] = q[a + i - 1]
      BY <1>2, <2>1, Zenon
    <3>2. 1 \in 1 .. a - a + 1
      BY <2>1
    <3>3. SubSeq(q, a, a)[1] = q[a + 1 - 1]
      BY <3>1, <3>2, Zenon
    <3> QED BY <2>1, <3>1, <3>3, Zenon
  <2>3. <<q[a]>> \in Seq(S) /\ Len(<<q[a]>>) = 1 /\ <<q[a]>>[1] = q[a]
    BY <2>1
  <2> QED BY <2>1, <2>2, <2>3, SeqEqual, Zenon
<1>4. ASSUME NEW b \in a .. Len(q) - 1
      PROVE  Append(SubSeq(q, a, b), q[b + 1]) = SubSeq(q, a, b + 1)
  <2>1. b \in a .. Len(q) /\ b + 1 \in a .. Len(q) /\ b + 1 \in 1 .. Len(q)
    BY <1>1
  <2> DEFINE u == SubSeq(q, a, b)
             v == SubSeq(q, a, b + 1)
  <2>2. /\ u \in Seq(S) /\ Len(u) = b - a + 1 /\ \A i \in 1 .. b - a + 1 : u[i] = q[a + i - 1]
        /\ v \in Seq(S) /\ Len(v) = (b + 1) - a + 1 /\ \A i \in 1 .. (b + 1) - a + 1 : v[i] = q[a + i - 1]
        /\ q[b + 1] \in S
    BY <1>1, <1>2, <2>1, Zenon
  <2> HIDE DEF u, v
  <2>3. /\ Append(u, q[b + 1]) \in Seq(S) /\ Len(Append(u, q[b + 1])) = Len(v)
        /\ \A i \in 1 .. Len(v) : Append(u, q[b + 1])[i] = v[i]
    <3> DEFINE x == q[b + 1]
               n == b - a + 1
    <3>1. n \in Nat /\ (b + 1) - a + 1 = n + 1 /\ n + 1 \in 1 .. n + 1 /\ a + (n + 1) - 1 = b + 1
      BY <1>1
    <3> HIDE DEF x, n
    <3>2. x \in S /\ Len(u) = n /\ u \in Seq(S)
      BY <2>2, Zenon DEF x, n
    <3>3. /\ Append(u, x) \in Seq(S) /\ Len(Append(u, x)) = n + 1 /\ Append(u, x)[n + 1] = x
          /\ \A i \in 1 .. n : Append(u, x)[i] = u[i]
      BY <3>1, <3>2
    <3>4. \A i \in 1 .. n + 1 : i = n + 1 \/ i \in 1 .. n
      BY <3>1
    <3>5. Len(v) = n + 1 /\ v[n + 1] = x /\ \A i \in 1 .. n + 1 : v[i] = q[a + i - 1]
      <4>1. 1 .. (b + 1) - a + 1 = 1 .. n + 1
        BY <3>1, Zenon
      <4>2. Len(v) = n + 1 /\ \A i \in 1 .. n + 1 : v[i] = q[a + i - 1]
        BY <2>2, <3>1, <4>1, Zenon
      <4>3. v[n + 1] = q[a + (n + 1) - 1]
        BY <3>1, <4>2, Zenon
      <4> QED BY <3>1, <4>2, <4>3, Zenon DEF x
    <3>6. \A i \in 1 .. n : u[i] = q[a + i - 1]
      BY <2>2, Zenon DEF n
    <3>7. \A i \in 1 .. n + 1 : Append(u, x)[i] = v[i]
      BY <3>3, <3>4, <3>5, <3>6, Zenon
    <3> QED BY <3>3, <3>5, <3>7, Zenon DEF x
  <2>4. Append(u, q[b + 1]) = v
    BY <2>2, <2>3, SeqEqual, Zenon
  <2> QED BY <2>4 DEF u, v
<1> QED BY <1>2, <1>3, <1>4, Zenon

(* The characters from a to b are the next component. *)
LEMMA SplitComponent ==
  ASSUME Given, NEW a \in 1 .. Len(path), a = 1 \/ path[a - 1] = Slash,
         NEW b \in a .. Len(path), \A j \in a .. b : path[j] # Slash
  PROVE  Split[b] = Append(Split[a - 1], SubSeq(path, a, b))
<1> DEFINE N == Len(path)
           T == {k \in Nat : k >= a /\ k <= b => Split[k] = Append(Split[a - 1], SubSeq(path, a, k))}
<1>1. /\ N \in Nat /\ \A k \in 1 .. N : Split[k] = SplitStep(Split[k - 1], k)
      /\ \A k \in 0 .. N : Split[k] \in Names
  BY SplitIs, Zenon
<1>2. /\ path \in Seq(Characters) /\ a \in 1 .. N /\ b \in a .. N
      /\ SubSeq(path, a, a) = <<path[a]>>
      /\ \A c \in a .. N : SubSeq(path, a, c) \in Seq(Characters)
      /\ \A c \in a .. N - 1 : Append(SubSeq(path, a, c), path[c + 1]) = SubSeq(path, a, c + 1)
  BY SegmentGrows, Zenon DEF Given
<1>3. \A k \in 1 .. N : path[k] \in Characters
  BY DEF Given
<1> HIDE DEF N
<1>4. 0 \in T
  <2>1. ~(0 >= a)
    <3> HIDE DEF T
    <3> QED BY <1>1, <1>2
  <2> QED BY <2>1, Zenon
<1>5. ASSUME NEW k \in 0 .. N - 1, k \in T PROVE k + 1 \in T
  <2>1. k + 1 \in 1 .. N /\ (k + 1) - 1 = k /\ k + 1 \in Nat /\ a - 1 \in 0 .. N
    <3> HIDE DEF T
    <3> QED BY <1>1, <1>2
  <2> SUFFICES ASSUME k + 1 >= a, k + 1 <= b PROVE Split[k + 1] = Append(Split[a - 1], SubSeq(path, a, k + 1))
    BY <2>1
  <2>2. /\ k + 1 \in a .. b
        /\ k + 1 = a \/ (k >= a /\ k <= b /\ k \in a .. b /\ k \in a .. N - 1 /\ k \in a .. N /\ k + 1 # 1)
    <3> HIDE DEF T
    <3> QED BY <1>1, <1>2, <2>1
  <2>3. Split[k + 1] = SplitStep(Split[k], k + 1) /\ path[k + 1] # Slash
    BY <1>1, <2>1, <2>2, Zenon
  <2>4. CASE k + 1 = a
    <3>1. Split[a] = Append(Split[a - 1], <<path[a]>>)
      BY <2>1, <2>3, <2>4, Zenon DEF SplitStep
    <3> QED BY <1>2, <2>4, <3>1, Zenon
  <2>5. CASE k >= a /\ k <= b /\ k \in a .. b /\ k \in a .. N - 1 /\ k \in a .. N /\ k + 1 # 1
    <3> DEFINE u == Append(Split[a - 1], SubSeq(path, a, k))
    <3>1. path[k] # Slash /\ Split[k] = u
      BY <1>5, <2>5, Zenon
    <3>2. Split[k + 1] = [u EXCEPT ![Len(u)] = Append(u[Len(u)], path[k + 1])]
      BY <2>1, <2>3, <2>5, <3>1, Zenon DEF SplitStep
    <3>3. Split[a - 1] \in Seq(Seq(Characters)) /\ SubSeq(path, a, k) \in Seq(Characters) /\ path[k + 1] \in Characters
      BY <1>1, <1>2, <1>3, <2>1, <2>5, Zenon DEF Names
    <3>4. Split[k + 1] = Append(Split[a - 1], Append(SubSeq(path, a, k), path[k + 1]))
      <4> DEFINE w == SubSeq(path, a, k)
                 x == Append(w, path[k + 1])
      <4>1. x \in Seq(Characters)
        BY <3>3, AppendProperties, Zenon
      <4> HIDE DEF w
      <4>2. w \in Seq(Characters)
        BY <3>3, Zenon DEF w
      <4> DEFINE names == Split[a - 1]
      <4>u. u = Append(names, w) /\ names \in Seq(Seq(Characters))
        BY <3>3, Zenon DEF w
      <4> HIDE DEF u, names
      <4>3. u[Len(u)] = w
        BY <4>1, <4>2, <4>u, AppendToLast
      <4> HIDE DEF x
      <4>4. SetLast(u, x) = Append(names, x)
        <5> HIDE DEF T
        <5>1. x \in Seq(Characters) /\ w \in Seq(Characters) /\ names \in Seq(Seq(Characters)) /\ u = Append(names, w)
          BY <4>1, <4>2, <4>u, ZenonT(40)
        <5>2. SetLast(Append(names, w), x) = Append(names, x)
          BY <5>1, SetLastOfAppend
        <5> QED BY <5>1, <5>2, Zenon
      <4> QED BY <3>2, <4>3, <4>4, Zenon DEF x, w, u, names, SetLast
    <3> QED BY <1>2, <2>5, <3>4, Zenon
  <2> QED BY <2>2, <2>4, <2>5, Zenon
<1> HIDE DEF T
<1>6. 0 .. N \subseteq T
  BY <1>1, <1>4, <1>5, UpToN, Zenon
<1>7. b \in 0 .. N /\ b >= a /\ b <= b
  BY <1>1, <1>2
<1> QED BY <1>6, <1>7, Zenon DEF T

(* m characters have the components of the first n, and more if a component *)
(* has begun since. *)
Extends(m, n) ==
  /\ Len(Split[m]) >= Len(Split[n]) /\ \A k \in 1 .. Len(Split[n]) : Split[m][k] = Split[n][k]
  /\ m > n /\ path[m] # Slash => Len(Split[m]) > Len(Split[n])

(* A longer sequence of components, in the two ways there are. *)
LEMMA LongerByOne ==
  ASSUME NEW S, NEW names \in Seq(S), NEW d \in Nat, NEW x, Len(names) >= d
  PROVE  Len(Append(names, x)) > d /\ \A k \in 1 .. d : Append(names, x)[k] = names[k]
OBVIOUS

(* The other. *)
LEMMA LongerLast ==
  ASSUME NEW S, NEW names \in Seq(S), NEW d \in Nat, NEW x \in S, Len(names) > d
  PROVE  /\ Len([names EXCEPT ![Len(names)] = x]) > d
         /\ \A k \in 1 .. d : [names EXCEPT ![Len(names)] = x][k] = names[k]
<1> DEFINE l == Len(names)
<1>1. l \in Nat /\ l > d
  OBVIOUS
<1>2. l \in 1 .. l /\ \A k \in 1 .. d : k \in 1 .. l /\ k # l
  <2> HIDE DEF l
  <2> QED BY <1>1
<1>3. /\ Len([names EXCEPT ![l] = x]) = l
      /\ \A k \in 1 .. l : [names EXCEPT ![l] = x][k] = IF k = l THEN x ELSE names[k]
  BY <1>2, ExceptSeq
<1> QED BY <1>1, <1>2, <1>3, Zenon

(* The components before a boundary are the first of the path's. *)
LEMMA SplitPrefix ==
  ASSUME Given, NEW n \in 0 .. Len(path), n = Len(path) \/ path[n + 1] = Slash
  PROVE  /\ Len(Split[n]) \in 0 .. Len(Components)
         /\ \A k \in 1 .. Len(Split[n]) : Components[k] = Split[n][k]
<1> DEFINE N == Len(path)
           T == {m \in Nat : m >= n => Extends(m, n)}
<1>1. /\ N \in Nat /\ \A k \in 1 .. N : Split[k] = SplitStep(Split[k - 1], k)
      /\ \A k \in 0 .. N : Split[k] \in Names
      /\ Components = Split[N]
  BY SplitIs, Zenon
<1>d. \A k \in 1 .. N : path[k] \in Characters
  BY DEF Given
<1> HIDE DEF N
<1>2. n \in 0 .. N /\ (n = N \/ path[n + 1] = Slash)
  BY Zenon DEF N
<1>a. \A k \in 0 .. N : Len(Split[k]) \in Nat
  BY <1>1, Zenon, LenProperties DEF Names
<1>b. \A k \in Nat : k >= k
  OBVIOUS
<1>c. Extends(n, n)
  <2>1. n \in Nat /\ ~(n > n)
    BY <1>1, <1>2
  <2> QED BY <1>2, <1>a, <1>b, <2>1, Zenon DEF Extends
<1>3. 0 \in T
  <2>1. 0 >= n => n = 0
    <3> HIDE DEF T
    <3> QED BY <1>1, <1>2
  <2> QED BY <1>c, <2>1
<1>4. ASSUME NEW k \in 0 .. N - 1, k \in T PROVE k + 1 \in T
  <2>1. /\ k + 1 \in 1 .. N /\ (k + 1) - 1 = k /\ k + 1 \in Nat /\ k \in 0 .. N /\ k + 1 \in 0 .. N
        /\ (k + 1 >= n => k + 1 = n \/ (k >= n /\ ~(k + 1 = n) /\ (k > n \/ (k = n /\ n # N))))
    <3> HIDE DEF T
    <3> QED BY <1>1, <1>2
  <2> SUFFICES ASSUME k + 1 >= n PROVE Extends(k + 1, n)
    BY <2>1
  <2>2. CASE k + 1 = n
    BY <1>c, <2>2, Zenon
  <2>3. CASE k >= n /\ (k > n \/ (k = n /\ n # N))
    <3>1. Extends(k, n)
      BY <1>4, <2>3, Zenon
    <3>2. Split[k + 1] = SplitStep(Split[k], k + 1) /\ Split[k] \in Seq(Seq(Characters)) /\ Len(Split[n]) \in Nat
      BY <1>1, <1>2, <1>a, <2>1, Zenon DEF Names
    <3>3. CASE path[k + 1] = Slash
      <4>1. Split[k + 1] = Split[k]
        BY <3>2, <3>3, Zenon DEF SplitStep
      <4> QED BY <3>1, <3>3, <4>1, Zenon DEF Extends
    <3>4. CASE path[k + 1] # Slash /\ (k + 1 = 1 \/ path[k] = Slash)
      <4>1. Split[k + 1] = Append(Split[k], <<path[k + 1]>>)
        BY <2>1, <3>2, <3>4, Zenon DEF SplitStep
      <4>2. Len(Split[k + 1]) > Len(Split[n]) /\ \A j \in 1 .. Len(Split[n]) : Split[k + 1][j] = Split[k][j]
        <5>1. Len(Split[k]) >= Len(Split[n])
          BY <3>1, Zenon DEF Extends
        <5> DEFINE names == Split[k]
                   d == Len(Split[n])
                   x == <<path[k + 1]>>
        <5>2. names \in Seq(Seq(Characters)) /\ d \in Nat /\ Len(names) >= d /\ Split[k + 1] = Append(names, x)
          BY <3>2, <4>1, <5>1, Zenon
        <5> HIDE DEF names, d, x
        <5>3. Len(Append(names, x)) > d /\ \A j \in 1 .. d : Append(names, x)[j] = names[j]
          BY <5>2, LongerByOne
        <5> QED BY <5>2, <5>3, Zenon DEF names, d
      <4> QED
        <5>1. Len(Split[k + 1]) \in Nat
          BY <1>1, <1>a, <2>1, Zenon
        <5>2. Len(Split[k + 1]) >= Len(Split[n])
          BY <3>2, <4>2, <5>1
        <5> QED BY <3>1, <4>2, <5>2, Zenon DEF Extends
    <3>5. CASE path[k + 1] # Slash /\ ~(k + 1 = 1 \/ path[k] = Slash)
      <4>0. k > n
        BY <1>2, <2>3, <3>5, Zenon
      <4>1. Split[k + 1] = [Split[k] EXCEPT ![Len(Split[k])] = Append(Split[k][Len(Split[k])], path[k + 1])]
        BY <2>1, <3>2, <3>5, Zenon DEF SplitStep
      <4>2. Len(Split[k + 1]) > Len(Split[n]) /\ \A j \in 1 .. Len(Split[n]) : Split[k + 1][j] = Split[k][j]
        <5> DEFINE x == Append(Split[k][Len(Split[k])], path[k + 1])
        <5>1. Len(Split[k]) > Len(Split[n])
          BY <3>1, <3>5, <4>0, ZenonT(40) DEF Extends
        <5>2. Len(Split[k]) \in 1 .. Len(Split[k])
          BY <1>a, <2>1, <3>2, <5>1
        <5>3. Split[k][Len(Split[k])] \in Seq(Characters)
          BY <3>2, <5>2, ElementOfSeq, Zenon
        <5>4. x \in Seq(Characters)
          BY <1>d, <2>1, <5>3, AppendProperties, Zenon
        <5> HIDE DEF x
        <5>5. Split[k + 1] = [Split[k] EXCEPT ![Len(Split[k])] = x]
          BY <4>1, Zenon DEF x
        <5> DEFINE names == Split[k]
                   d == Len(Split[n])
        <5>6. names \in Seq(Seq(Characters)) /\ d \in Nat /\ Len(names) > d
          BY <3>2, <5>1, Zenon
        <5> HIDE DEF names, d
        <5>7. /\ Len([names EXCEPT ![Len(names)] = x]) > d
              /\ \A j \in 1 .. d : [names EXCEPT ![Len(names)] = x][j] = names[j]
          BY <5>4, <5>6, LongerLast
        <5> QED BY <5>5, <5>7, Zenon DEF names, d
      <4> QED
        <5>1. Len(Split[k + 1]) \in Nat
          BY <1>1, <1>a, <2>1, Zenon
        <5>2. Len(Split[k + 1]) >= Len(Split[n])
          BY <3>2, <4>2, <5>1
        <5> QED BY <3>1, <4>2, <5>2, Zenon DEF Extends
    <3> QED BY <3>3, <3>4, <3>5, Zenon
  <2> QED BY <2>1, <2>2, <2>3, Zenon
<1> HIDE DEF T
<1>6. 0 .. N \subseteq T
  BY <1>1, <1>3, <1>4, UpToN, Zenon
<1>7. N \in 0 .. N /\ N >= n
  BY <1>1, <1>2
<1>8. Extends(N, n)
  BY <1>6, <1>7, Zenon DEF T
<1>9. Len(Split[n]) \in Nat /\ Len(Components) \in Nat /\ Len(Components) >= Len(Split[n])
  BY <1>1, <1>2, <1>7, <1>8, <1>a, Zenon DEF Extends
<1>10. Len(Split[n]) \in 0 .. Len(Components)
  BY <1>9
<1> QED BY <1>1, <1>8, <1>10, Zenon DEF Extends

-----------------------------------------------------------------------------
(* The pieces of a long name.                                              *)

(* The ordinal of the piece that holds the character n. *)
SeqPlace(n) == 1 + (n \div kPiece)

(* Where a piece goes in lfn[]. *)
LEMMA Window ==
  ASSUME NEW seq \in Nat, InName(seq), NEW n \in 0 .. kMaxNameLen + kPiece
  PROVE  LET at == (seq - 1) * kPiece
         IN  /\ n \in at .. at + kPiece - 1 <=> SeqPlace(n) = seq
             /\ n \in at .. at + kPiece - 1 => n - at + 1 = 1 + (n % kPiece)
<1> DEFINE k == kPiece
           at == (seq - 1) * k
           q == n \div k
           t == n % k
<1>1. k \in Nat \ {0} /\ kMaxNameLen \in Nat /\ seq # 0
  BY FindAssumption DEF InName
<1>2. n \in Nat
  BY <1>1
<1> HIDE DEF k
<1>3. q \in Nat /\ t \in 0 .. k - 1 /\ n = k * q + t
  BY <1>1, <1>2, DivMod, Zenon
<1> HIDE DEF q, t
<1>4. seq - 1 \in Nat /\ at \in Nat /\ at = k * (seq - 1)
  BY <1>1
<1> HIDE DEF at
<1>5. ASSUME n \in at .. at + k - 1 PROVE 1 + q = seq /\ n - at + 1 = 1 + t
  <2> DEFINE w == n - at
  <2>1. w \in 0 .. k - 1 /\ n = k * (seq - 1) + w
    BY <1>1, <1>2, <1>4, <1>5
  <2> HIDE DEF w
  <2>2. q = seq - 1 /\ t = w
    BY <1>1, <1>2, <1>4, <2>1, Division, Zenon DEF q, t
  <2> QED BY <1>1, <1>2, <1>4, <2>2 DEF w
<1>6. ASSUME 1 + q = seq PROVE n \in at .. at + k - 1
  <2>1. q = seq - 1
    BY <1>3, <1>6
  <2>2. n = at + t
    BY <1>3, <1>4, <2>1, Zenon
  <2> QED BY <1>1, <1>3, <1>4, <2>2
<1> QED BY <1>5, <1>6, Zenon DEF k, at, q, t, SeqPlace

(* A piece that is new decides the characters it has a place for. *)
LEMMA LetterNew ==
  ASSUME NEW list, NEW m \in Nat, NEW b \in 1 .. m + 1, NEW n, SeqNo(list[m + 1]) = SeqPlace(n)
  PROVE  Letter(list, b, m + 1, n) = ToChar(list[m + 1].chars[1 + (n % kPiece)])
<1> DEFINE at == {j \in b .. m + 1 : SeqNo(list[j]) = 1 + (n \div kPiece)}
           top == CHOOSE j \in at : \A g \in at : g <= j
<1>1. m + 1 \in b .. m + 1 /\ \A j \in b .. m + 1 : j <= m + 1 /\ (m + 1 <= j => j = m + 1)
  OBVIOUS
<1>2. m + 1 \in at /\ at \subseteq b .. m + 1
  BY <1>1, Zenon DEF SeqPlace
<1> HIDE DEF at
<1>3. top \in at /\ \A g \in at : g <= top
  BY <1>1, <1>2, Zenon
<1> HIDE DEF top
<1>4. top = m + 1
  BY <1>1, <1>2, <1>3, Zenon
<1> QED BY <1>2, <1>4, Zenon DEF Letter, Decide, at, top

(* And no other. *)
LEMMA LetterOld ==
  ASSUME NEW list, NEW m \in Nat, NEW b \in 1 .. m + 1, NEW n, SeqNo(list[m + 1]) # SeqPlace(n)
  PROVE  Letter(list, b, m + 1, n) = Letter(list, b, m, n)
<1>1. \A j : j \in b .. m + 1 <=> j \in b .. m \/ j = m + 1
  OBVIOUS
<1>2. {j \in b .. m + 1 : SeqNo(list[j]) = 1 + (n \div kPiece)} = {j \in b .. m : SeqNo(list[j]) = 1 + (n \div kPiece)}
  BY <1>1, Zenon DEF SeqPlace
<1> QED BY <1>2, Zenon DEF Letter

(* No piece, no letter. *)
LEMMA SpelledNothing ==
  ASSUME NEW list, NEW m \in Nat
  PROVE  Spelled(list, m + 1, m) = Lfn0
<1>1. m + 1 .. m = {}
  OBVIOUS
<1>2. ASSUME NEW n PROVE Letter(list, m + 1, m, n) = NUL
  <2>1. {j \in m + 1 .. m : SeqNo(list[j]) = 1 + (n \div kPiece)} = {}
    BY <1>1, Zenon
  <2> QED BY <2>1, Zenon DEF Letter, Decide
<1> QED BY <1>2, Zenon DEF Spelled, Lfn0

(* Storing a piece adds it to what is spelled. *)
LEMMA StoreSpells ==
  ASSUME NEW list, NEW m \in Nat, NEW b \in 1 .. m + 1,
         SeqNo(list[m + 1]) \in Nat, InName(SeqNo(list[m + 1]))
  PROVE  Store(Spelled(list, b, m), SeqNo(list[m + 1]), list[m + 1].chars) = Spelled(list, b, m + 1)
<1> DEFINE buf == Spelled(list, b, m)
           seq == SeqNo(list[m + 1])
           chars == list[m + 1].chars
           at == (seq - 1) * kPiece
           M == 0 .. kMaxNameLen + kPiece
<1>1. DOMAIN buf = M /\ \A n \in M : buf[n] = Letter(list, b, m, n)
  BY Zenon DEF Spelled
<1>2. seq \in Nat /\ InName(seq)
  OBVIOUS
<1> HIDE DEF buf, seq, chars
<1>3. DOMAIN Store(buf, seq, chars) = M
  BY <1>1, <1>2, StoreInBounds, Zenon
<1>4. DOMAIN buf \cup at .. at + kPiece - 1 = M
  BY <1>3, Zenon DEF Store
<1>5. Store(buf, seq, chars) = [n \in M |-> IF n \in at .. at + kPiece - 1 THEN ToChar(chars[n - at + 1]) ELSE buf[n]]
  BY <1>4, Zenon DEF Store
<1>6. ASSUME NEW n \in M
      PROVE  (IF n \in at .. at + kPiece - 1 THEN ToChar(chars[n - at + 1]) ELSE buf[n]) = Letter(list, b, m + 1, n)
  <2>1. /\ n \in at .. at + kPiece - 1 <=> SeqPlace(n) = seq
        /\ n \in at .. at + kPiece - 1 => n - at + 1 = 1 + (n % kPiece)
    BY <1>2, Window, Zenon
  <2> HIDE DEF at, M
  <2>2. CASE n \in at .. at + kPiece - 1
    <3>1. Letter(list, b, m + 1, n) = ToChar(chars[1 + (n % kPiece)])
      BY <2>1, <2>2, LetterNew, ZenonT(40) DEF seq, chars
    <3> QED BY <2>1, <2>2, <3>1, Zenon
  <2>3. CASE ~(n \in at .. at + kPiece - 1)
    <3>1. Letter(list, b, m + 1, n) = Letter(list, b, m, n)
      BY <2>1, <2>3, LetterOld, Zenon DEF seq
    <3> QED BY <1>1, <2>3, <3>1, Zenon
  <2> QED BY <2>2, <2>3, Zenon
<1>7. Spelled(list, b, m + 1) = [n \in M |-> Letter(list, b, m + 1, n)]
  BY Zenon DEF Spelled
<1> QED BY <1>5, <1>6, <1>7, Zenon DEF buf, seq, chars

(* Another entry than a piece ends every run. *)
LEMMA NoPiece ==
  ASSUME NEW list, NEW m \in Nat, ~(IsLfn(list[m + 1]) /\ InName(SeqNo(list[m + 1])))
  PROVE  \A b \in 1 .. m + 1 : ~Run(list, b, m + 1)
<1>1. \A b \in 1 .. m + 1 : m + 1 \in b .. m + 1
  OBVIOUS
<1> QED BY <1>1, Zenon DEF Run

(* A run without its last piece is one. *)
LEMMA RunShorter ==
  ASSUME NEW list, NEW m \in Nat, NEW b \in 1 .. m
  PROVE  Run(list, b, m + 1) <=>
           /\ Run(list, b, m) /\ IsLfn(list[m + 1]) /\ InName(SeqNo(list[m + 1]))
           /\ list[m + 1].sum = list[b].sum /\ ~IsLast(list[m + 1])
<1>1. (\A j : j \in b .. m + 1 <=> j \in b .. m \/ j = m + 1) /\ m + 1 > b
  OBVIOUS
<1> QED BY <1>1, Zenon DEF Run

(* Two runs that end together are one. *)
LEMMA RunUnique ==
  ASSUME NEW list, NEW m \in Nat, NEW b \in 1 .. m, NEW a \in 1 .. m, Run(list, b, m), Run(list, a, m)
  PROVE  a = b
<1>1. IsLast(list[a]) /\ IsLast(list[b])
  BY Zenon DEF Run
<1>2. \A j \in b .. m : j > b => ~IsLast(list[j])
  BY Zenon DEF Run
<1>3. \A j \in a .. m : j > a => ~IsLast(list[j])
  BY Zenon DEF Run
<1>4. a = b \/ (b \in a .. m /\ b > a) \/ (a \in b .. m /\ a > b)
  OBVIOUS
<1> QED BY <1>1, <1>2, <1>3, <1>4, Zenon

(* LfnEntry keeps the books. *)
LEMMA PendingPiece ==
  ASSUME NEW list, NEW m \in Nat, NEW ok \in BOOLEAN, NEW sum, NEW buf, NEW len,
         Pending(list, m, ok, sum, buf, len), IsLfn(list[m + 1]), SeqNo(list[m + 1]) \in Nat
  PROVE  LET x == list[m + 1]
             goes == InName(SeqNo(x)) /\ (IsLast(x) \/ (ok /\ x.sum = sum))
         IN  /\ goes => Pending(list, m + 1, TRUE, x.sum,
                                Store(IF IsLast(x) THEN Lfn0 ELSE buf, SeqNo(x), x.chars),
                                IF IsLast(x) THEN SeqNo(x) * kPiece ELSE len)
             /\ ~goes => \A b \in 1 .. m + 1 : ~Run(list, b, m + 1)
<1> DEFINE x == list[m + 1]
<1>0. /\ m + 1 \in 1 .. m + 1 /\ (\A b \in 1 .. m : b \in 1 .. m + 1)
      /\ (\A b \in 1 .. m + 1 : b \in 1 .. m \/ b = m + 1)
      /\ (\A j \in m + 1 .. m + 1 : j = m + 1 /\ ~(j > m + 1))
  OBVIOUS
<1>1. ASSUME InName(SeqNo(x)), IsLast(x)
      PROVE  Pending(list, m + 1, TRUE, x.sum, Store(Lfn0, SeqNo(x), x.chars), SeqNo(x) * kPiece)
  <2>1. Run(list, m + 1, m + 1)
    BY <1>0, <1>1, Zenon DEF Run
  <2>2. Store(Lfn0, SeqNo(x), x.chars) = Spelled(list, m + 1, m + 1)
    BY <1>0, <1>1, SpelledNothing, StoreSpells, Zenon
  <2> QED BY <1>0, <2>1, <2>2, Zenon DEF Pending
<1>2. ASSUME InName(SeqNo(x)), ~IsLast(x), ok, x.sum = sum
      PROVE  Pending(list, m + 1, TRUE, x.sum, Store(buf, SeqNo(x), x.chars), len)
  <2>1. PICK b \in 1 .. m : /\ Run(list, b, m) /\ sum = list[b].sum
                            /\ buf = Spelled(list, b, m) /\ len = SeqNo(list[b]) * kPiece
    BY <1>2, Zenon DEF Pending
  <2>2. Run(list, b, m + 1)
    BY <1>2, <2>1, RunShorter, Zenon
  <2>3. Store(buf, SeqNo(x), x.chars) = Spelled(list, b, m + 1)
    BY <1>0, <1>2, <2>1, StoreSpells, Zenon
  <2> QED BY <1>0, <1>2, <2>1, <2>2, <2>3, Zenon DEF Pending
<1>3. ASSUME ~InName(SeqNo(x)) PROVE \A b \in 1 .. m + 1 : ~Run(list, b, m + 1)
  BY <1>3, NoPiece, Zenon
<1>4. ASSUME ~IsLast(x), ~(ok /\ x.sum = sum), NEW a \in 1 .. m + 1, Run(list, a, m + 1) PROVE FALSE
  <2>1. a \in 1 .. m
    BY <1>0, <1>4, Zenon DEF Run
  <2>2. Run(list, a, m) /\ x.sum = list[a].sum
    BY <1>4, <2>1, RunShorter, Zenon
  <2>3. ok
    BY <2>1, <2>2, Zenon DEF Pending
  <2>4. PICK b \in 1 .. m : Run(list, b, m) /\ sum = list[b].sum
    BY <2>3, Zenon DEF Pending
  <2>5. a = b
    BY <2>1, <2>2, <2>4, RunUnique, Zenon
  <2> QED BY <1>4, <2>2, <2>3, <2>4, <2>5, Zenon
<1> QED BY <1>1, <1>2, <1>3, <1>4, Zenon

(* What the run from b to m is read as: Spelled(), with other characters    *)
(* past ASCII. *)
Meant(list, b, m) ==
  [n \in 0 .. kMaxNameLen + kPiece |->
     LET at == {j \in b .. m : SeqNo(list[j]) = 1 + (n \div kPiece)} IN
     IF at = {} THEN NUL
     ELSE Character(list[CHOOSE j \in at : \A g \in at : g <= j].chars[1 + (n % kPiece)])]

(* A character past ASCII, as lookup() stores it and as it is. *)
Alike(x, y) == x = y \/ (x = Question /\ y = Words)

(* The one is NUL when the other is; a path without '?' spells neither. *)
LEMMA AlikeIs ==
  ASSUME NEW x, NEW y, Alike(x, y)
  PROVE  (x = NUL <=> y = NUL) /\ \A c \in Characters : upper(x) = upper(c) <=> upper(y) = upper(c)
<1>1. CASE x = y
  BY <1>1, Zenon
<1>2. CASE x = Question /\ y = Words
  <2>1. upper(Question) = Question /\ upper(Words) = Words
    BY DEF upper, Question, Words
  <2>2. \A c \in Characters : upper(c) # Question /\ upper(c) # Words
    BY DEF Characters, Byte, Question, Words, upper
  <2>3. Question # NUL /\ Words # NUL
    BY DEF Question, Words, NUL
  <2> QED BY <1>2, <2>1, <2>2, <2>3, Zenon
<1> QED BY <1>1, <1>2, Zenon DEF Alike

(* A text ends at its first c. *)
LEMMA UpToIs ==
  ASSUME NEW S, NEW q \in Seq(S), NEW c
  PROVE  \E n \in 0 .. Len(q) :
           /\ (\A m \in 1 .. n : q[m] # c) /\ (n < Len(q) => q[n + 1] = c)
           /\ Len(UpTo(q, c)) = n /\ \A m \in 1 .. n : UpTo(q, c)[m] = q[m]
<1> DEFINE N == Len(q)
           End(n) == (\A m \in 1 .. n : q[m] # c) /\ (n < N => q[n + 1] = c)
           first == CHOOSE n \in 0 .. N : End(n)
<1>1. N \in Nat /\ \A m \in 1 .. N : q[m] \in S
  OBVIOUS
<1>2. \E n \in 0 .. N : End(n)
  <2> DEFINE W == {j \in 1 .. N : q[j] = c}
  <2>1. 1 \in 1 .. N + 1
    BY <1>1
  <2>2. PICK m \in 1 .. N + 1 : (\A j \in 1 .. m - 1 : j \notin W) /\ (m <= N => m \in W)
    <3> HIDE DEF W, N
    <3> QED BY <1>1, <2>1, FirstPlace, Zenon
  <2> HIDE DEF N
  <2>3. m - 1 \in 0 .. N /\ (m - 1 < N => m <= N /\ (m - 1) + 1 = m) /\ \A j \in 1 .. m - 1 : j \in 1 .. N
    BY <1>1
  <2>4. End(m - 1)
    BY <2>2, <2>3, Zenon
  <2> QED BY <2>3, <2>4, Zenon
<1>3. UpTo(q, c) = SubSeq(q, 1, first)
  BY Zenon DEF UpTo
<1> HIDE DEF End
<1>4. first \in 0 .. N /\ End(first)
  BY <1>2, Zenon
<1> HIDE DEF first, N
<1>5. Len(SubSeq(q, 1, first)) = first /\ \A m \in 1 .. first : SubSeq(q, 1, first)[m] = q[m]
  <2>1. first \in Nat /\ \A m \in 1 .. first : m \in 1 .. N
    BY <1>1, <1>4
  <2> QED BY <1>1, <1>4, <2>1 DEF N
<1> QED BY <1>3, <1>4, <1>5, Zenon DEF End, N

(* Texts that are alike are equal to the same components. *)
LEMMA TextsAlike ==
  ASSUME NEW a, NEW b, NEW len \in Nat, \A n \in 1 .. len : Alike(a[n - 1], b[n - 1]),
         NEW component \in Seq(Characters)
  PROVE  equal_nocase(Text(b, len), component) <=> equal_nocase(Text(a, len), component)
<1> DEFINE f == [n \in 1 .. len |-> a[n - 1]]
           g == [n \in 1 .. len |-> b[n - 1]]
           S == {a[n - 1] : n \in 1 .. len}
           T == {b[n - 1] : n \in 1 .. len}
<1>1. /\ f \in Seq(S) /\ g \in Seq(T) /\ Len(f) = len /\ Len(g) = len
      /\ Text(a, len) = UpTo(f, NUL) /\ Text(b, len) = UpTo(g, NUL)
  <2>1. f \in [1 .. len -> S] /\ g \in [1 .. len -> T]
    BY Zenon
  <2> HIDE DEF f, g, S, T
  <2>2. f \in Seq(S) /\ g \in Seq(T) /\ Len(f) = len /\ Len(g) = len
    BY <2>1
  <2> QED BY <2>2, Zenon DEF Text, f, g
<1>2. \A n \in 1 .. len : Alike(f[n], g[n])
  BY Zenon
<1> HIDE DEF f, g, S, T
<1>3. \A n \in 1 .. len :
        /\ f[n] = NUL <=> g[n] = NUL
        /\ \A c \in Characters : upper(f[n]) = upper(c) <=> upper(g[n]) = upper(c)
  BY <1>2, AlikeIs, Zenon
<1>4. PICK k \in 0 .. len :
        /\ (\A m \in 1 .. k : f[m] # NUL) /\ (k < len => f[k + 1] = NUL)
        /\ Len(UpTo(f, NUL)) = k /\ \A m \in 1 .. k : UpTo(f, NUL)[m] = f[m]
  <2>1. f \in Seq(S) /\ Len(f) = len
    BY <1>1, Zenon
  <2>2. \E k \in 0 .. Len(f) :
          /\ (\A m \in 1 .. k : f[m] # NUL) /\ (k < Len(f) => f[k + 1] = NUL)
          /\ Len(UpTo(f, NUL)) = k /\ \A m \in 1 .. k : UpTo(f, NUL)[m] = f[m]
    <3>1. f \in Seq(S)
      BY <2>1, Zenon
    <3> QED BY ONLY <3>1, UpToIs, Zenon
  <2> QED BY <2>1, <2>2, Zenon
<1>5. PICK h \in 0 .. len :
        /\ (\A m \in 1 .. h : g[m] # NUL) /\ (h < len => g[h + 1] = NUL)
        /\ Len(UpTo(g, NUL)) = h /\ \A m \in 1 .. h : UpTo(g, NUL)[m] = g[m]
  <2>1. g \in Seq(T) /\ Len(g) = len
    BY <1>1, Zenon
  <2>2. \E h \in 0 .. Len(g) :
          /\ (\A m \in 1 .. h : g[m] # NUL) /\ (h < Len(g) => g[h + 1] = NUL)
          /\ Len(UpTo(g, NUL)) = h /\ \A m \in 1 .. h : UpTo(g, NUL)[m] = g[m]
    <3>1. g \in Seq(T)
      BY <2>1, Zenon
    <3> QED BY ONLY <3>1, UpToIs, Zenon
  <2> QED BY <2>1, <2>2, Zenon
<1>6. h = k
  <2>1. /\ \A m \in 1 .. k : m \in 1 .. len
        /\ h < len => h + 1 \in 1 .. len
        /\ k < len => k + 1 \in 1 .. len
        /\ h < k => h < len /\ h + 1 \in 1 .. k
        /\ k < h => k < len /\ k + 1 \in 1 .. h
        /\ h < k \/ k < h \/ h = k
    OBVIOUS
  <2> QED BY <1>3, <1>4, <1>5, <2>1, Zenon
<1>7. CASE Len(component) = k
  <2>1. \A m \in 1 .. k : m \in 1 .. len /\ component[m] \in Characters
    <3>1. \A m \in 1 .. k : m \in 1 .. len
      OBVIOUS
    <3> QED BY <1>7, <3>1, ElementOfSeq, Zenon
  <2>2. \A m \in 1 .. k : /\ upper(f[m]) = upper(component[m]) <=> upper(g[m]) = upper(component[m])
                          /\ UpTo(f, NUL)[m] = f[m] /\ UpTo(g, NUL)[m] = g[m]
    BY <1>3, <1>4, <1>5, <1>6, <2>1, Zenon
  <2>3. Len(UpTo(f, NUL)) = k /\ Len(UpTo(g, NUL)) = k
    BY <1>4, <1>5, <1>6, Zenon
  <2>4. equal_nocase(UpTo(g, NUL), component) <=> equal_nocase(UpTo(f, NUL), component)
    BY <1>7, <2>2, <2>3, Zenon DEF equal_nocase
  <2> QED BY <1>1, <2>4, Zenon
<1>8. CASE Len(component) # k
  BY <1>1, <1>4, <1>5, <1>6, <1>8, Zenon DEF equal_nocase
<1> QED BY <1>7, <1>8, Zenon

(* For a path without '?' it is the same what lookup() stores. *)
LEMMA MeantOrSpelled ==
  ASSUME NEW list, NEW b, NEW m, NEW len \in 0 .. kMaxNameLen + kPiece, NEW component \in Seq(Characters)
  PROVE  equal_nocase(Text(Meant(list, b, m), len), component) <=> equal_nocase(Text(Spelled(list, b, m), len), component)
<1>1. len \in Nat /\ \A n \in 1 .. len : n - 1 \in 0 .. kMaxNameLen + kPiece
  BY FindAssumption
<1>2. \A ch : Alike(ToChar(ch), Character(ch))
  BY SMT DEF Alike, ToChar, Character
<1>3. ASSUME NEW n \in 0 .. kMaxNameLen + kPiece PROVE Alike(Spelled(list, b, m)[n], Meant(list, b, m)[n])
  <2> DEFINE at == {j \in b .. m : SeqNo(list[j]) = 1 + (n \div kPiece)}
             ch == list[CHOOSE j \in at : \A g \in at : g <= j].chars[1 + (n % kPiece)]
  <2>1. Spelled(list, b, m)[n] = IF at = {} THEN NUL ELSE ToChar(ch)
    BY Zenon DEF Spelled, Letter, Decide
  <2>2. Meant(list, b, m)[n] = IF at = {} THEN NUL ELSE Character(ch)
    BY Zenon DEF Meant
  <2> HIDE DEF at, ch
  <2>3. Alike(NUL, NUL)
    BY Zenon DEF Alike
  <2> QED BY <1>2, <2>1, <2>2, <2>3, Zenon
<1>4. \A n \in 1 .. len : Alike(Spelled(list, b, m)[n - 1], Meant(list, b, m)[n - 1])
  BY <1>1, <1>3, Zenon
<1> QED BY <1>1, <1>4, TextsAlike, Zenon

(* The long name of the entry that comes next is the one that is pending, if *)
(* it has the checksum. *)
LEMMA PendingName ==
  ASSUME NEW list, NEW m \in Nat, NEW ok \in BOOLEAN, NEW sum, NEW buf, NEW len,
         Pending(list, m, ok, sum, buf, len), NEW component \in Seq(Characters),
         \A j \in 1 .. m : SeqNo(list[j]) \in Nat
  PROVE  (\E n \in LongNames(list, m + 1) : equal_nocase(n, component))
           <=> ok /\ short_name_checksum(list[m + 1]) = sum /\ equal_nocase(Text(buf, len), component)
<1> DEFINE sc == short_name_checksum(list[m + 1])
           Heads == {a \in 1 .. m : Run(list, a, m) /\ list[a].sum = sc}
           Heads0 == {a \in 1 .. (m + 1) - 1 :
                       /\ IsLast(list[a])
                       /\ \A j \in a .. (m + 1) - 1 :
                            /\ IsLfn(list[j]) /\ InName(SeqNo(list[j]))
                            /\ list[j].sum = short_name_checksum(list[m + 1])
                            /\ j > a => ~IsLast(list[j])}
           Name(b) == Text(Spelled(list, b, m), SeqNo(list[b]) * kPiece)
<1>1. (m + 1) - 1 = m /\ \A a \in 1 .. m : a \in a .. m
  OBVIOUS
<1>2. Heads0 = Heads
  <2>1. ASSUME NEW a \in 1 .. m
        PROVE  (/\ IsLast(list[a])
                /\ \A j \in a .. m :
                     /\ IsLfn(list[j]) /\ InName(SeqNo(list[j]))
                     /\ list[j].sum = sc
                     /\ j > a => ~IsLast(list[j]))
               <=> Run(list, a, m) /\ list[a].sum = sc
    BY <1>1, Zenon DEF Run
  <2> QED BY <1>1, <2>1, Zenon
<1> DEFINE Name0(b) == Text(Meant(list, b, (m + 1) - 1), SeqNo(list[b]) * kPiece)
           Name1(b) == Text(Meant(list, b, m), SeqNo(list[b]) * kPiece)
<1>3. LongNames(list, m + 1) = {Name0(b) : b \in Heads0}
  BY Zenon DEF LongNames, Meant
<1>b. \A b : Name0(b) = Name1(b)
  BY <1>1, Zenon
<1>c. ASSUME NEW b \in 1 .. m, Run(list, b, m)
      PROVE  equal_nocase(Name1(b), component) <=> equal_nocase(Name(b), component)
  <2>1. SeqNo(list[b]) \in Nat /\ InName(SeqNo(list[b]))
    BY <1>1, <1>c, Zenon DEF Run
  <2>2. DOMAIN Lfn0 = 0 .. kMaxNameLen + kPiece
    BY Zenon DEF Lfn0
  <2>3. SeqNo(list[b]) * kPiece \in 0 .. kMaxNameLen + kPiece
    BY <2>1, <2>2, StoreInBounds, Zenon
  <2> QED BY <2>3, MeantOrSpelled, Zenon
<1> HIDE DEF Heads0, Name, Name0, Name1
<1>4. LongNames(list, m + 1) = {Name1(b) : b \in Heads}
  BY <1>2, <1>3, <1>b, Zenon
<1>5. (\E n \in LongNames(list, m + 1) : equal_nocase(n, component))
         <=> \E b \in 1 .. m : Run(list, b, m) /\ list[b].sum = sc /\ equal_nocase(Name(b), component)
  BY <1>4, <1>c, Zenon
<1> HIDE DEF sc
<1>6. CASE ok
  <2>1. PICK b \in 1 .. m : /\ Run(list, b, m) /\ sum = list[b].sum
                            /\ buf = Spelled(list, b, m) /\ len = SeqNo(list[b]) * kPiece
    BY <1>6, Zenon DEF Pending
  <2>2. \A a \in 1 .. m : Run(list, a, m) => a = b
    BY <2>1, RunUnique, Zenon
  <2>3. Name(b) = Text(buf, len)
    BY <2>1, Zenon DEF Name
  <2> QED BY <1>5, <1>6, <2>1, <2>2, <2>3, Zenon DEF sc
<1>7. CASE ~ok
  BY <1>5, <1>7, Zenon DEF Pending
<1> QED BY <1>6, <1>7, Zenon

-----------------------------------------------------------------------------
(* The walk through a directory.                                           *)

(* A cluster is entered. *)
LEMMA WalkIn ==
  ASSUME NEW v, NEW h, NEW c, NEW n, NEW o, Walk(v, "chain", h, c, n, o), valid_cluster(c), h <= cluster_count
  PROVE  Walk(v, "sector", h, c, 0, o) /\ Before("sector", h, 0, o) = Before("chain", h, n, o)
<1>1. sectors_per_cluster \in Nat /\ EntriesPerSector \in Nat
  BY Sizes
<1>2. 0 \in 0 .. sectors_per_cluster /\ 0 * EntriesPerSector + 0 = 0
  BY <1>1
<1>3. "sector" # "chain" /\ "sector" # "entry"
  OBVIOUS
<1> QED BY <1>2, <1>3, Zenon DEF Walk, Before

(* A sector is. *)
LEMMA WalkSector ==
  ASSUME NEW v, NEW h, NEW c, NEW n, NEW o, Walk(v, "sector", h, c, n, o), n < sectors_per_cluster
  PROVE  Walk(v, "entry", h, c, n, 1) /\ Before("entry", h, n, 1) = Before("sector", h, n, o)
<1>1. EntriesPerSector \in Nat
  BY Sizes
<1>2. 1 \in 1 .. EntriesPerSector + 1 /\ 1 - 1 = 0
  BY <1>1
<1>3. "sector" # "chain" /\ "entry" # "sector" /\ "entry" # "chain"
  OBVIOUS
<1> QED BY <1>2, <1>3, Zenon DEF Walk, Before

(* A sector is done. *)
LEMMA WalkSectorDone ==
  ASSUME NEW v, NEW h, NEW c, NEW n, NEW o, Walk(v, "entry", h, c, n, o), o > EntriesPerSector
  PROVE  Walk(v, "sector", h, c, n + 1, o) /\ Before("sector", h, n + 1, o) = Before("entry", h, n, o)
<1>1. sectors_per_cluster \in Nat /\ EntriesPerSector \in Nat
  BY Sizes
<1>2. "sector" # "chain" /\ "entry" # "sector" /\ "entry" # "chain" /\ "sector" # "entry"
  OBVIOUS
<1>3. n \in 0 .. sectors_per_cluster /\ n < sectors_per_cluster /\ o \in 1 .. EntriesPerSector + 1
  BY <1>2, Zenon DEF Walk
<1>4. n + 1 \in 0 .. sectors_per_cluster /\ o - 1 = EntriesPerSector
  BY <1>1, <1>3
<1>5. (n + 1) * EntriesPerSector + 0 = n * EntriesPerSector + EntriesPerSector
  BY <1>1, <1>3
<1> QED BY <1>2, <1>4, <1>5, Zenon DEF Walk, Before

(* A cluster is done. *)
LEMMA WalkNext ==
  ASSUME Given, NEW d \in Nat, NEW h, NEW c \in Nat, NEW n, NEW o,
         Walk(Visit(d), "sector", h, c, n, o), n >= sectors_per_cluster
  PROVE  /\ Walk(Visit(d), "chain", h + 1, fat[c], n, o)
         /\ Before("chain", h + 1, n, o) = Before("sector", h, n, o)
<1> DEFINE v == Visit(d)
<1>1. sectors_per_cluster \in Nat /\ EntriesPerSector \in Nat /\ cluster_count \in Nat
  BY Sizes, ValidIsCluster
<1>2. "sector" # "chain" /\ "chain" # "entry"
  OBVIOUS
<1>3. /\ h \in 0 .. cluster_count + 1 /\ h <= cluster_count /\ valid_cluster(c)
      /\ v[h] = c /\ n \in 0 .. sectors_per_cluster /\ \A g \in 0 .. h - 1 : v[g] # 0
  BY <1>2, Zenon DEF Walk
<1>4. /\ h + 1 \in 0 .. cluster_count + 1 /\ n = sectors_per_cluster /\ (h + 1) - 1 = h
      /\ \A g \in 0 .. (h + 1) - 1 : g \in 0 .. h - 1 \/ g = h
      /\ h + 1 <= cluster_count => h + 1 \in 1 .. cluster_count
  <2> HIDE DEF v
  <2> QED BY <1>1, <1>3
<1>5. c # 0
  BY <1>3, ValidIsCluster, Zenon
<1>6. h + 1 <= cluster_count => v[h + 1] = IF valid_cluster(fat[c]) THEN fat[c] ELSE 0
  <2>1. h + 1 <= cluster_count => v[h + 1] = Hop(v[(h + 1) - 1])
    BY <1>4, VisitIs, Zenon
  <2> QED BY <1>3, <1>4, <1>5, <2>1, Zenon DEF Hop
<1>7. \A g \in 0 .. (h + 1) - 1 : v[g] # 0
  BY <1>3, <1>4, <1>5, Zenon
<1>8. (h + 1) * PerCluster + 0 = h * PerCluster + (n * EntriesPerSector + 0)
  <2>1. PerCluster = sectors_per_cluster * EntriesPerSector /\ PerCluster \in Nat
    BY Sizes
  <2>2. (h + 1) * PerCluster = h * PerCluster + PerCluster /\ h * PerCluster \in Nat
    BY <1>1, <1>3, <2>1
  <2> QED BY <1>1, <1>4, <2>1, <2>2
<1> HIDE DEF v
<1>9. Walk(v, "chain", h + 1, fat[c], n, o)
  BY <1>2, <1>4, <1>6, <1>7, Zenon DEF Walk
<1> QED BY <1>2, <1>8, <1>9, Zenon DEF Before, v

(* The entry that is looked at is number m + 1 of the listing. *)
AtPlace(d, m, h, c, n, o) ==
  /\ m \in Nat /\ m + 1 \in DOMAIN Listing(d)
  /\ Listing(d)[m + 1] = sectors[cluster_lba(c) + n][o]
  /\ Walk(Visit(d), "entry", h, c, n, o + 1) /\ Before("entry", h, n, o + 1) = m + 1

(* It is the one that comes next. *)
LEMMA WalkEntry ==
  ASSUME Given, NEW d \in Nat, NEW h, NEW c \in Nat, NEW n, NEW o,
         Walk(Visit(d), "entry", h, c, n, o), o <= EntriesPerSector, NEW m, m = Before("entry", h, n, o)
  PROVE  AtPlace(d, m, h, c, n, o)
<1> DEFINE v == Visit(d)
<1>1. /\ sectors_per_cluster \in Nat /\ EntriesPerSector \in Nat /\ cluster_count \in Nat
      /\ PerCluster \in Nat
  BY Sizes, ValidIsCluster
<1>2. "entry" # "chain" /\ "entry" # "sector"
  OBVIOUS
<1>3. /\ h \in 0 .. cluster_count + 1 /\ h <= cluster_count /\ valid_cluster(c)
      /\ v[h] = c /\ n \in 0 .. sectors_per_cluster /\ n < sectors_per_cluster /\ o \in 1 .. EntriesPerSector + 1
  BY <1>2, Zenon DEF Walk
<1> HIDE DEF v
<1>4. /\ h \in 0 .. cluster_count /\ h \in Nat /\ n \in 0 .. sectors_per_cluster - 1 /\ o \in 1 .. EntriesPerSector
      /\ o + 1 \in 1 .. EntriesPerSector + 1 /\ o \in Nat /\ n \in Nat
  BY <1>1, <1>3
<1>5. c # 0
  BY <1>3, ValidIsCluster, Zenon
<1>6. m = h * PerCluster + (n * EntriesPerSector + (o - 1))
  BY <1>2, Zenon DEF Before
<1>7. Before("entry", h, n, o + 1) = h * PerCluster + (n * EntriesPerSector + ((o + 1) - 1))
  BY <1>2, Zenon DEF Before
<1>8. h * PerCluster \in Nat /\ n * EntriesPerSector \in Nat
  BY <1>1, <1>4
<1>9. m \in Nat /\ m + 1 = Place(h, n, o) /\ Before("entry", h, n, o + 1) = m + 1
  BY <1>4, <1>6, <1>7, <1>8 DEF Place
<1>10. /\ Place(h, n, o) \in DOMAIN Listing(d)
       /\ Listing(d)[Place(h, n, o)] = sectors[cluster_lba(c) + n][o]
  <2>1. \A g \in 0 .. cluster_count : v[g] # 0 =>
          \A t \in 0 .. sectors_per_cluster - 1, a \in 1 .. EntriesPerSector :
            /\ Place(g, t, a) \in DOMAIN Listing(d)
            /\ Listing(d)[Place(g, t, a)] = sectors[cluster_lba(v[g]) + t][a]
    BY ListingIs, Zenon DEF v
  <2> QED BY <1>3, <1>4, <1>5, <2>1, Zenon
<1>11. Walk(v, "entry", h, c, n, o + 1)
  BY <1>4, Zenon DEF Walk, v
<1> QED BY <1>9, <1>10, <1>11, Zenon DEF v, AtPlace

(* At the end of the chain there is no more. *)
LEMMA WalkOut ==
  ASSUME Given, NEW d \in Nat, NEW h, NEW c \in Nat, NEW n, NEW o, NEW component,
         Walk(Visit(d), "chain", h, c, n, o), ~(valid_cluster(c) /\ h <= cluster_count),
         Past(Listing(d), Before("chain", h, n, o), component)
  PROVE  Hits(Listing(d), component) = {}
<1> DEFINE v == Visit(d)
           m == Before("chain", h, n, o)
<1>1. cluster_count \in Nat /\ PerCluster \in Nat
  BY Sizes, ValidIsCluster
<1>2. h \in 0 .. cluster_count + 1 /\ (h <= cluster_count => v[h] = 0)
  BY Zenon DEF Walk
<1> HIDE DEF v
<1>3. h * PerCluster \in Nat /\ h * PerCluster + 0 = h * PerCluster
  BY <1>1, <1>2
<1>4. m = h * PerCluster
  BY <1>3, Zenon DEF Before
<1>5. h \in 0 .. cluster_count \/ h = cluster_count + 1
  BY <1>1, <1>2
<1>6. h \in 0 .. cluster_count => h <= cluster_count
  BY <1>1
<1>7. \A i \in DOMAIN Listing(d) : i \in Nat \ {0} /\ i <= m
  <2>1. /\ \A g \in 0 .. cluster_count : v[g] = 0 => \A i \in DOMAIN Listing(d) : i <= g * PerCluster
        /\ \A i \in DOMAIN Listing(d) : i \in Nat \ {0} /\ i <= (cluster_count + 1) * PerCluster
    BY ListingIs, Zenon DEF v
  <2> QED BY <1>2, <1>4, <1>5, <1>6, <2>1, Zenon
<1> HIDE DEF m
<1>8. \A i \in Nat \ {0} : i <= m => i \in 1 .. m
  BY <1>3, <1>4
<1>9. \A i \in 1 .. m : i \notin Hits(Listing(d), component)
  BY Zenon DEF Past, m
<1>10. Hits(Listing(d), component) \subseteq DOMAIN Listing(d)
  BY Zenon DEF Hits
<1> QED BY <1>7, <1>8, <1>9, <1>10, Zenon

(* Nor past its last entry. *)
LEMMA EndOut ==
  ASSUME NEW list, NEW m \in Nat, NEW component, Past(list, m, component), IsEnd(list[m + 1]),
         DOMAIN list \subseteq Nat \ {0}
  PROVE  Hits(list, component) = {}
<1>1. \A i \in Nat \ {0} : i \in 1 .. m \/ m + 1 \in 1 .. i
  OBVIOUS
<1>2. \A i \in 1 .. m : i \notin Hits(list, component)
  BY Zenon DEF Past
<1>3. \A i \in Hits(list, component) : i \in DOMAIN list /\ \A j \in 1 .. i : ~IsEnd(list[j])
  BY Zenon DEF Hits
<1> QED BY <1>1, <1>2, <1>3, Zenon

(* An entry is passed. *)
LEMMA PastOne ==
  ASSUME NEW list, NEW m \in Nat, NEW component, Past(list, m, component),
         ~IsEnd(list[m + 1]), m + 1 \notin Hits(list, component)
  PROVE  Past(list, m + 1, component)
<1>1. \A j \in 1 .. m + 1 : j \in 1 .. m \/ j = m + 1
  OBVIOUS
<1> QED BY <1>1, Zenon DEF Past

(* Whether the entry has the name. *)
LEMMA HitIs ==
  ASSUME NEW list, NEW m \in Nat, NEW component \in Seq(Characters), Past(list, m, component), m + 1 \in DOMAIN list,
         IsShort(list[m + 1]), \A j \in 1 .. m : SeqNo(list[j]) \in Nat,
         NEW ok \in BOOLEAN, NEW sum, NEW buf, NEW len, Pending(list, m, ok, sum, buf, len)
  PROVE  m + 1 \in Hits(list, component) <=>
           /\ "volume_id" \notin list[m + 1].attr
           /\ \/ ok /\ short_name_checksum(list[m + 1]) = sum /\ equal_nocase(Text(buf, len), component)
              \/ equal_nocase(format_short_name(list[m + 1]), component)
<1>1. \A j \in 1 .. m + 1 : j \in 1 .. m \/ j = m + 1
  OBVIOUS
<1>2. \A j \in 1 .. m + 1 : ~IsEnd(list[j])
  BY <1>1, Zenon DEF Past, IsShort
<1>3. (\E n \in LongNames(list, m + 1) : equal_nocase(n, component))
         <=> ok /\ short_name_checksum(list[m + 1]) = sum /\ equal_nocase(Text(buf, len), component)
  BY PendingName, Zenon
<1>4. (\E n \in {format_short_name(list[m + 1])} \cup LongNames(list, m + 1) : equal_nocase(n, component))
        <=> \/ equal_nocase(format_short_name(list[m + 1]), component)
            \/ \E n \in LongNames(list, m + 1) : equal_nocase(n, component)
  BY Zenon
<1>5. m + 1 \in Hits(list, component) <=>
        /\ "volume_id" \notin list[m + 1].attr
        /\ \E n \in {format_short_name(list[m + 1])} \cup LongNames(list, m + 1) : equal_nocase(n, component)
  BY <1>2, Zenon DEF Hits
<1> QED BY <1>3, <1>4, <1>5, Zenon

(* The first with the name is the one that is found. *)
LEMMA FirstHit ==
  ASSUME NEW list, NEW m \in Nat, NEW component, Past(list, m, component), m + 1 \in Hits(list, component),
         DOMAIN list \subseteq Nat \ {0}
  PROVE  LET hits == Hits(list, component) IN hits # {} /\ (CHOOSE i \in hits : \A j \in hits : i <= j) = m + 1
<1> DEFINE hits == Hits(list, component)
           first == CHOOSE i \in hits : \A j \in hits : i <= j
<1>1. hits \subseteq Nat \ {0}
  BY Zenon DEF Hits
<1>2. \A i \in hits : i \notin 1 .. m
  BY Zenon DEF Past
<1> HIDE DEF hits
<1>3. \A i \in hits : m + 1 <= i
  BY <1>1, <1>2
<1>4. m + 1 \in hits
  BY Zenon DEF hits
<1>5. first \in hits /\ \A j \in hits : first <= j
  BY <1>3, <1>4, Zenon
<1> HIDE DEF first
<1>6. first \in Nat /\ first <= m + 1 /\ m + 1 <= first
  BY <1>1, <1>3, <1>4, <1>5, Zenon
<1>7. first = m + 1
  BY <1>6
<1> QED BY <1>4, <1>7, Zenon DEF first, hits

-----------------------------------------------------------------------------
(* What a step has to show.                                                *)

(* What find() is called with stays. *)
LEMMA GivenStays ==
  ASSUME FindInv, PathInv, Frozen
  PROVE  Given /\ Given'
<1>1. Given
  BY Zenon DEF FindInv, PathInv, Given
<1> QED BY <1>1, Zenon DEF Given, Frozen

(* The components that have been taken are the first of the path. *)
LEMMA TakenIs ==
  ASSUME Given, Boundary
  PROVE  /\ Taken \in 0 .. Len(Components) /\ Len(Components) \in Nat
         /\ p - 1 \in 0 .. Len(path) /\ Len(path) \in Nat /\ p \in 1 .. Len(path) + 1
         /\ Split[p - 1] \in Names
         /\ \A k \in 1 .. Taken : Components[k] = Split[p - 1][k]
<1>1. Len(path) \in Nat /\ Split[0] = <<>> /\ \A n \in 0 .. Len(path) : Split[n] \in Names
  BY SplitIs, Zenon
<1>2. Len(Components) \in Nat
  BY ResolveIs, Zenon DEF Resolved
<1>3. p \in 1 .. Len(path) + 1 /\ (p = 1 \/ p = Len(path) + 1 \/ path[p] = Slash)
  BY Zenon DEF Boundary
<1>4. p - 1 \in 0 .. Len(path) /\ (p - 1) + 1 = p /\ (p = Len(path) + 1 => p - 1 = Len(path)) /\ (p = 1 => p - 1 = 0)
  BY <1>1, <1>3
<1>5. CASE p = 1
  <2>1. Split[p - 1] = <<>>
    BY <1>1, <1>4, <1>5, Zenon
  <2>2. Taken = 0
    BY <2>1 DEF Taken
  <2>3. 0 \in 0 .. Len(Components) /\ 1 .. 0 = {}
    BY <1>2
  <2> QED BY <1>1, <1>2, <1>3, <1>4, <2>2, <2>3, Zenon
<1>6. CASE p = Len(path) + 1 \/ path[p] = Slash
  <2>1. p - 1 = Len(path) \/ path[(p - 1) + 1] = Slash
    BY <1>4, <1>6, Zenon
  <2>2. /\ Len(Split[p - 1]) \in 0 .. Len(Components)
        /\ \A k \in 1 .. Len(Split[p - 1]) : Components[k] = Split[p - 1][k]
    BY <1>4, <2>1, SplitPrefix, Zenon
  <2> QED BY <1>1, <1>2, <1>3, <1>4, <2>2, Zenon DEF Taken
<1> QED BY <1>3, <1>5, <1>6, Zenon

(* find() stays at the same component. *)
LEMMA Still ==
  ASSUME Given, Given', Frozen, p' = p, name' = name, cur' = cur, Boundary
  PROVE  /\ Boundary' /\ Taken' = Taken
         /\ cur = Resolve[Taken] => (cur = Resolve[Taken])'
         /\ Context => Context'
<1>1. Split' = Split /\ Components' = Components
  BY FrozenParts, Zenon
<1>2. Boundary'
  BY Zenon DEF Boundary, Frozen
<1>3. Taken' = Taken
  BY <1>1, Zenon DEF Taken
<1>4. \A n \in 0 .. Len(Components) : Resolve'[n] = Resolve[n]
  BY ResolveSame, Zenon
<1>5. Taken \in 0 .. Len(Components) /\ Len(Components) \in Nat
  BY TakenIs, Zenon
<1>6. cur = Resolve[Taken] => cur' = Resolve'[Taken']
  BY <1>3, <1>4, <1>5, Zenon
<1>7. Taken >= 1 => Taken - 1 \in 0 .. Len(Components)
  BY <1>5
<1>8. Context => Context'
  BY <1>1, <1>2, <1>3, <1>4, <1>7, Zenon DEF Context
<1> QED BY <1>2, <1>3, <1>6, <1>8, Zenon

(* find() fails, or the path leads nowhere. *)
LEMMA GiveUp ==
  ASSUME Given, Given', Frozen, pc' = "return", cur' = None,
         failed' \/ \E n \in 0 .. Len(Components) : Resolve[n] = None
  PROVE  PathInv'
<1>1. Components' = Components /\ \A n \in 0 .. Len(Components) : Resolve'[n] = Resolve[n]
  BY ResolveSame, Zenon
<1>2. Len(Components) \in Nat
  BY ResolveIs, Zenon DEF Resolved
<1>3. Len(Components) \in 0 .. Len(Components)
  BY <1>2
<1>4. failed' \/ Resolve'[Len(Components')] = None
  BY <1>1, <1>3, NoneStays, Zenon
<1>5. FindsAnyPath'
  BY <1>4, Zenon DEF FindsAnyPath
<1>6. pc' # "idle" /\ pc' # "component" /\ pc' \notin {"chain", "sector", "entry"}
  OBVIOUS
<1>7. path' \in Seq(Characters)
  BY Zenon DEF Given
<1> QED BY <1>5, <1>6, <1>7, Zenon DEF PathInv, Looking

(* The directory has no such entry. *)
LEMMA NotHere ==
  ASSUME Given, Context, Hits(Listing(Here), name) = {}
  PROVE  \E n \in 0 .. Len(Components) : Resolve[n] = None
<1>1. Taken \in 0 .. Len(Components) /\ Len(Components) \in Nat
  BY TakenIs, Zenon DEF Context
<1>2. Taken \in 1 .. Len(Components)
  BY <1>1 DEF Context
<1>3. Resolve[Taken] = Search(cur, name)
  BY <1>2, ResolveIs, Zenon DEF Resolved, Context
<1>4. Search(cur, name) = None
  BY Zenon DEF Search, Here
<1> QED BY <1>1, <1>3, <1>4, Zenon

(* The component that is looked up, and the ordinals of the pieces before  *)
(* an entry. *)
LEMMA NameType ==
  ASSUME Given, Context
  PROVE  name \in Seq(Characters)
<1>1. Taken \in 0 .. Len(Components) /\ Len(Components) \in Nat
  BY TakenIs, Zenon DEF Context
<1>2. Taken \in 1 .. Len(Components)
  BY <1>1 DEF Context
<1> QED BY <1>2, ResolveIs, ElementOfSeq, Zenon DEF Resolved, Names, Context

LEMMA Ordinals ==
  ASSUME Given, Context, NEW m \in Nat, m + 1 \in DOMAIN Listing(Here)
  PROVE  \A j \in 1 .. m : SeqNo(Listing(Here)[j]) \in Nat
<1>1. Here \in Nat
  BY DirClusterType, Zenon DEF Here, Context
<1>2. \A j \in 1 .. m : j \in Nat \ {0} /\ j <= m + 1
  OBVIOUS
<1>3. \A j \in 1 .. m : Listing(Here)[j] \in Entry
  BY <1>1, <1>2, ListingIs, Zenon
<1> QED BY <1>3, EntryNumbers, Zenon

(* The directory has one. *)
LEMMA FoundHere ==
  ASSUME Given, Context, NEW m \in Nat, Past(Listing(Here), m, name), m + 1 \in Hits(Listing(Here), name)
  PROVE  Resolve[Taken] = FileOf(Listing(Here)[m + 1])
<1>1. Taken \in 0 .. Len(Components) /\ Len(Components) \in Nat
  BY TakenIs, Zenon DEF Context
<1>2. Taken \in 1 .. Len(Components)
  BY <1>1 DEF Context
<1>3. Resolve[Taken] = Search(cur, name)
  BY <1>2, ResolveIs, Zenon DEF Resolved, Context
<1> DEFINE list == Listing(Here)
           hits == Hits(list, name)
<1>4. Here \in Nat
  BY DirClusterType, Zenon DEF Here, Context
<1>5. DOMAIN list \subseteq Nat \ {0}
  BY <1>4, ListingIs, Zenon
<1>6. hits # {} /\ (CHOOSE i \in hits : \A j \in hits : i <= j) = m + 1
  BY <1>5, FirstHit, Zenon
<1>7. cur.dir /\ ~(Len(name) > kMaxNameLen)
  <2>1. name \in Seq(Characters)
    BY NameType, Zenon
  <2>2. Len(name) \in Nat /\ kMaxNameLen \in Nat
    BY <2>1, FindAssumption
  <2>3. Len(name) <= kMaxNameLen /\ cur.dir
    BY Zenon DEF Context
  <2> QED BY <2>2, <2>3
<1>8. Search(cur, name) = FileOf(list[CHOOSE i \in hits : \A j \in hits : i <= j])
  BY <1>6, <1>7, Zenon DEF Search, Here
<1> QED BY <1>3, <1>6, <1>8, Zenon

(* The search goes on. *)
LEMMA LookOn ==
  ASSUME Given, Given', Frozen, p' = p, name' = name, cur' = cur, Context, ~failed',
         pc' \in {"chain", "sector", "entry"}, lfn_ok' \in BOOLEAN,
         Walk(Visit(Here), pc', hops', cluster', s', off'),
         Past(Listing(Here), Before(pc', hops', s', off'), name),
         Pending(Listing(Here), Before(pc', hops', s', off'), lfn_ok', lfn_checksum', lfn', lfn_len')
  PROVE  PathInv'
<1>1. Context'
  BY Still, Zenon DEF Context
<1>2. Here' = Here
  BY Zenon DEF Here, DirCluster
<1>3. Visit(Here)' = Visit(Here) /\ Listing(Here)' = Listing(Here)
  BY <1>2, FrozenParts, Zenon
<1>4. Progress'
  BY <1>3, Zenon DEF Progress, Seen
<1>5. pc' # "idle" /\ pc' # "component" /\ pc' # "return"
  OBVIOUS
<1>6. FindsAnyPath'
  BY <1>5, Zenon DEF FindsAnyPath
<1>7. path' \in Seq(Characters)
  BY Zenon DEF Given
<1> QED BY <1>1, <1>4, <1>5, <1>6, <1>7, Zenon DEF PathInv, Looking

-----------------------------------------------------------------------------
(* The steps of lookup().                                                  *)

(* What is known in a search. *)
LEMMA Searching ==
  ASSUME FindInv, PathInv, Frozen, pc \in {"chain", "sector", "entry"}
  PROVE  /\ Given /\ Given' /\ Context /\ ~failed /\ Here \in Nat /\ cluster \in Nat
         /\ lfn_ok \in BOOLEAN
         /\ Walk(Visit(Here), pc, hops, cluster, s, off)
         /\ Past(Listing(Here), Before(pc, hops, s, off), name)
         /\ Pending(Listing(Here), Before(pc, hops, s, off), lfn_ok, lfn_checksum, lfn, lfn_len)
<1>1. Given /\ Given'
  BY GivenStays, Zenon
<1>2. Context /\ Progress
  BY Zenon DEF PathInv, Looking
<1>3. pc # "return"
  OBVIOUS
<1>4. ~failed
  BY <1>3, Zenon DEF PathInv
<1>5. Here \in Nat
  BY <1>2, DirClusterType, Zenon DEF Here, Context
<1>6. cluster \in Nat
  BY Zenon DEF FindInv
<1> QED BY <1>1, <1>2, <1>4, <1>5, <1>6, Zenon DEF Progress, Seen

(* The steps of the search that look at no entry. *)
LEMMA ChainStep ==
  ASSUME FindInv, PathInv, Chain
  PROVE  PathInv'
<1>0. /\ Frozen /\ p' = p /\ name' = name /\ cluster' = cluster /\ hops' = hops /\ off' = off /\ failed' = failed
      /\ lfn' = lfn /\ lfn_len' = lfn_len /\ lfn_ok' = lfn_ok /\ lfn_checksum' = lfn_checksum /\ pc = "chain"
  BY Zenon DEF Chain, Frozen, disk, long
<1>a. pc \in {"chain", "sector", "entry"}
  BY <1>0, Zenon
<1>1. /\ Given /\ Given' /\ Context /\ ~failed /\ Here \in Nat /\ cluster \in Nat
      /\ lfn_ok \in BOOLEAN
      /\ Walk(Visit(Here), "chain", hops, cluster, s, off)
      /\ Past(Listing(Here), Before("chain", hops, s, off), name)
      /\ Pending(Listing(Here), Before("chain", hops, s, off), lfn_ok, lfn_checksum, lfn, lfn_len)
  BY <1>0, <1>a, Searching, Zenon
<1>2. CASE valid_cluster(cluster) /\ hops <= cluster_count
  <2>1. pc' = "sector" /\ s' = 0 /\ cur' = cur
    BY <1>2, Zenon DEF Chain
  <2>2. /\ Walk(Visit(Here), "sector", hops, cluster, 0, off)
        /\ Before("sector", hops, 0, off) = Before("chain", hops, s, off)
    <3>1. Walk(Visit(Here), "chain", hops, cluster, s, off)
      BY <1>1, Zenon
    <3> QED BY <1>2, <3>1, WalkIn
  <2>3. pc' \in {"chain", "sector", "entry"}
    BY <2>1, Zenon
  <2> QED BY <1>0, <1>1, <2>1, <2>2, <2>3, LookOn, ZenonT(40)
<1>3. CASE ~(valid_cluster(cluster) /\ hops <= cluster_count)
  <2>1. pc' = "return" /\ cur' = None
    BY <1>3, Zenon DEF Chain, Return
  <2>2. Hits(Listing(Here), name) = {}
    BY <1>1, <1>3, WalkOut, Zenon
  <2>3. \E n \in 0 .. Len(Components) : Resolve[n] = None
    BY <1>1, <2>2, NotHere, Zenon
  <2> QED BY <1>0, <1>1, <2>1, <2>3, GiveUp, Zenon
<1> QED BY <1>2, <1>3, Zenon

(* A sector is begun. *)
LEMMA SectorStep ==
  ASSUME FindInv, PathInv, Sector
  PROVE  PathInv'
<1>0. /\ Frozen /\ p' = p /\ name' = name /\ cur' = cur /\ cluster' = cluster /\ hops' = hops /\ s' = s
      /\ failed' = failed /\ lfn' = lfn /\ lfn_len' = lfn_len /\ lfn_ok' = lfn_ok /\ lfn_checksum' = lfn_checksum
      /\ pc = "sector" /\ pc' = "entry" /\ off' = 1 /\ s < sectors_per_cluster
  BY Zenon DEF Sector, Frozen, disk, long
<1>a. pc \in {"chain", "sector", "entry"} /\ pc' \in {"chain", "sector", "entry"}
  BY <1>0, Zenon
<1>1. /\ Given /\ Given' /\ Context /\ ~failed /\ Here \in Nat /\ cluster \in Nat
      /\ lfn_ok \in BOOLEAN
      /\ Walk(Visit(Here), "sector", hops, cluster, s, off)
      /\ Past(Listing(Here), Before("sector", hops, s, off), name)
      /\ Pending(Listing(Here), Before("sector", hops, s, off), lfn_ok, lfn_checksum, lfn, lfn_len)
  BY <1>0, <1>a, Searching, Zenon
<1>2. Walk(Visit(Here), "entry", hops, cluster, s, 1) /\ Before("entry", hops, s, 1) = Before("sector", hops, s, off)
  <2>1. Walk(Visit(Here), "sector", hops, cluster, s, off) /\ s < sectors_per_cluster
    BY <1>0, <1>1, Zenon
  <2> QED BY <2>1, WalkSector
<1> QED BY <1>0, <1>a, <1>1, <1>2, LookOn, Zenon

(* A cluster is done. *)
LEMMA NextClusterStep ==
  ASSUME FindInv, PathInv, NextCluster
  PROVE  PathInv'
<1>0. /\ Frozen /\ p' = p /\ name' = name /\ cur' = cur /\ cluster' = fat[cluster] /\ hops' = hops + 1 /\ s' = s
      /\ failed' = failed /\ off' = off
      /\ lfn' = lfn /\ lfn_len' = lfn_len /\ lfn_ok' = lfn_ok /\ lfn_checksum' = lfn_checksum
      /\ pc = "sector" /\ pc' = "chain" /\ s >= sectors_per_cluster
  BY Zenon DEF NextCluster, Frozen, disk, long
<1>a. pc \in {"chain", "sector", "entry"} /\ pc' \in {"chain", "sector", "entry"}
  BY <1>0, Zenon
<1>1. /\ Given /\ Given' /\ Context /\ ~failed /\ Here \in Nat /\ cluster \in Nat
      /\ lfn_ok \in BOOLEAN
      /\ Walk(Visit(Here), "sector", hops, cluster, s, off)
      /\ Past(Listing(Here), Before("sector", hops, s, off), name)
      /\ Pending(Listing(Here), Before("sector", hops, s, off), lfn_ok, lfn_checksum, lfn, lfn_len)
  BY <1>0, <1>a, Searching, Zenon
<1>2. /\ Walk(Visit(Here), "chain", hops + 1, fat[cluster], s, off)
      /\ Before("chain", hops + 1, s, off) = Before("sector", hops, s, off)
  <2>1. /\ Given /\ Here \in Nat /\ cluster \in Nat /\ Walk(Visit(Here), "sector", hops, cluster, s, off)
        /\ s >= sectors_per_cluster
    BY <1>0, <1>1, Zenon
  <2> QED BY <2>1, WalkNext
<1> QED BY <1>0, <1>a, <1>1, <1>2, LookOn, Zenon

(* A sector is done. *)
LEMMA SectorDoneStep ==
  ASSUME FindInv, PathInv, SectorDone
  PROVE  PathInv'
<1>0. /\ Frozen /\ p' = p /\ name' = name /\ cur' = cur /\ cluster' = cluster /\ hops' = hops /\ s' = s + 1
      /\ failed' = failed /\ off' = off
      /\ lfn' = lfn /\ lfn_len' = lfn_len /\ lfn_ok' = lfn_ok /\ lfn_checksum' = lfn_checksum
      /\ pc = "entry" /\ pc' = "sector" /\ off > EntriesPerSector
  BY Zenon DEF SectorDone, Frozen, disk, long
<1>a. pc \in {"chain", "sector", "entry"} /\ pc' \in {"chain", "sector", "entry"}
  BY <1>0, Zenon
<1>1. /\ Given /\ Given' /\ Context /\ ~failed /\ Here \in Nat /\ cluster \in Nat
      /\ lfn_ok \in BOOLEAN
      /\ Walk(Visit(Here), "entry", hops, cluster, s, off)
      /\ Past(Listing(Here), Before("entry", hops, s, off), name)
      /\ Pending(Listing(Here), Before("entry", hops, s, off), lfn_ok, lfn_checksum, lfn, lfn_len)
  BY <1>0, <1>a, Searching, Zenon
<1>2. /\ Walk(Visit(Here), "sector", hops, cluster, s + 1, off)
      /\ Before("sector", hops, s + 1, off) = Before("entry", hops, s, off)
  <2>1. Walk(Visit(Here), "entry", hops, cluster, s, off) /\ off > EntriesPerSector
    BY <1>0, <1>1, Zenon
  <2> QED BY <2>1, WalkSectorDone
<1> QED BY <1>0, <1>a, <1>1, <1>2, LookOn, Zenon

(* What is known at an entry. *)
LEMMA LookingAtEntry ==
  ASSUME FindInv, PathInv, Frozen, AtEntry
  PROVE  LET m == Before("entry", hops, s, off)
             list == Listing(Here)
         IN  /\ Given /\ Given' /\ Context /\ ~failed /\ lfn_ok \in BOOLEAN
             /\ m \in Nat /\ m + 1 \in DOMAIN list /\ list[m + 1] = e /\ e \in Entry /\ SeqNo(e) \in Nat
             /\ DOMAIN list \subseteq Nat \ {0}
             /\ Walk(Visit(Here), "entry", hops, cluster, s, off + 1) /\ Before("entry", hops, s, off + 1) = m + 1
             /\ Past(list, m, name) /\ Pending(list, m, lfn_ok, lfn_checksum, lfn, lfn_len)
<1> DEFINE m == Before("entry", hops, s, off)
<1>0. pc = "entry" /\ off <= EntriesPerSector
  BY Zenon DEF AtEntry
<1>a. pc \in {"chain", "sector", "entry"}
  BY <1>0, Zenon
<1>1. /\ Given /\ Given' /\ Context /\ ~failed /\ Here \in Nat /\ cluster \in Nat
      /\ lfn_ok \in BOOLEAN
      /\ Walk(Visit(Here), "entry", hops, cluster, s, off)
      /\ Past(Listing(Here), m, name)
      /\ Pending(Listing(Here), m, lfn_ok, lfn_checksum, lfn, lfn_len)
  BY <1>0, <1>a, Searching, Zenon
<1>2. /\ m \in Nat /\ m + 1 \in DOMAIN Listing(Here)
      /\ Listing(Here)[m + 1] = sectors[cluster_lba(cluster) + s][off]
      /\ Walk(Visit(Here), "entry", hops, cluster, s, off + 1) /\ Before("entry", hops, s, off + 1) = m + 1
  <2>1. /\ Given /\ Here \in Nat /\ cluster \in Nat /\ Walk(Visit(Here), "entry", hops, cluster, s, off)
        /\ off <= EntriesPerSector /\ m = Before("entry", hops, s, off)
    BY <1>0, <1>1, Zenon
  <2> HIDE DEF m
  <2>2. AtPlace(Here, m, hops, cluster, s, off)
    BY <2>1, WalkEntry, Zenon
  <2> QED BY <2>2, Zenon DEF AtPlace
<1>3. e \in Entry /\ SeqNo(e) \in Nat
  BY EntryOfDisk, EntryNumbers, Zenon
<1>4. DOMAIN Listing(Here) \subseteq Nat \ {0}
  BY <1>1, ListingIs, Zenon
<1> QED BY <1>1, <1>2, <1>3, <1>4, Zenon DEF e

(* The end of the directory. *)
LEMMA EndEntryStep ==
  ASSUME FindInv, PathInv, EndEntry
  PROVE  PathInv'
<1> DEFINE m == Before("entry", hops, s, off)
<1>0. Frozen /\ AtEntry /\ IsEnd(e) /\ pc' = "return" /\ cur' = None
  BY Zenon DEF EndEntry, Return, Frozen, disk
<1>1. /\ Given /\ Given' /\ Context /\ m \in Nat /\ Listing(Here)[m + 1] = e
      /\ DOMAIN Listing(Here) \subseteq Nat \ {0} /\ Past(Listing(Here), m, name)
  BY <1>0, LookingAtEntry, Zenon
<1> HIDE DEF m
<1>2. Hits(Listing(Here), name) = {}
  BY <1>0, <1>1, EndOut, Zenon
<1>3. \E n \in 0 .. Len(Components) : Resolve[n] = None
  BY <1>1, <1>2, NotHere, Zenon
<1> QED BY <1>0, <1>1, <1>3, GiveUp, Zenon

(* An entry is passed, with whatever pieces are pending now. *)
LEMMA PassEntry ==
  ASSUME FindInv, PathInv, AtEntry, Continue, ~IsEnd(e), lfn_ok' \in BOOLEAN,
         Before("entry", hops, s, off) + 1 \notin Hits(Listing(Here), name),
         Pending(Listing(Here), Before("entry", hops, s, off) + 1, lfn_ok', lfn_checksum', lfn', lfn_len')
  PROVE  PathInv'
<1> DEFINE m == Before("entry", hops, s, off)
<1>0. /\ Frozen /\ p' = p /\ name' = name /\ cur' = cur /\ cluster' = cluster /\ hops' = hops /\ s' = s
      /\ failed' = failed /\ off' = off + 1 /\ pc' = pc /\ pc = "entry"
  BY Zenon DEF Continue, AtEntry, Frozen, disk
<1>a. pc' \in {"chain", "sector", "entry"} /\ pc' = "entry"
  BY <1>0, Zenon
<1>1. /\ Given /\ Given' /\ Context /\ ~failed
      /\ m \in Nat /\ Listing(Here)[m + 1] = e
      /\ Walk(Visit(Here), "entry", hops, cluster, s, off + 1) /\ Before("entry", hops, s, off + 1) = m + 1
      /\ Past(Listing(Here), m, name)
  BY <1>0, LookingAtEntry, Zenon
<1>2. m + 1 \notin Hits(Listing(Here), name)
     /\ Pending(Listing(Here), m + 1, lfn_ok', lfn_checksum', lfn', lfn_len')
  BY Zenon
<1> HIDE DEF m
<1>3. Past(Listing(Here), m + 1, name)
  BY <1>1, <1>2, PastOne, Zenon
<1> QED BY <1>0, <1>a, <1>1, <1>2, <1>3, LookOn, Zenon

(* What is not a short entry has no name. *)
LEMMA OnlyShort ==
  ASSUME NEW list, NEW i, ~IsShort(list[i]), NEW component
  PROVE  i \notin Hits(list, component)
BY Zenon DEF Hits

(* A deleted entry. *)
LEMMA DeletedEntryStep ==
  ASSUME FindInv, PathInv, DeletedEntry
  PROVE  PathInv'
<1> DEFINE m == Before("entry", hops, s, off)
<1>0. Frozen /\ AtEntry /\ IsDeleted(e) /\ Continue /\ lfn_ok' = FALSE
  BY Zenon DEF DeletedEntry, Continue, Frozen, disk
<1>1. m \in Nat /\ Listing(Here)[m + 1] = e /\ e \in Entry
  BY <1>0, LookingAtEntry, Zenon
<1>2. ~IsEnd(e) /\ ~IsShort(e) /\ ~IsLfn(e)
  BY <1>0 DEF IsEnd, IsDeleted, IsShort, IsLfn
<1>3. m + 1 \notin Hits(Listing(Here), name)
  BY <1>1, <1>2, OnlyShort, Zenon
<1>4. \A b \in 1 .. m + 1 : ~Run(Listing(Here), b, m + 1)
  BY <1>1, <1>2, NoPiece, Zenon
<1>5. Pending(Listing(Here), m + 1, lfn_ok', lfn_checksum', lfn', lfn_len')
  BY <1>0, <1>4, Zenon DEF Pending
<1>6. lfn_ok' \in BOOLEAN
  BY <1>0, Zenon
<1> QED BY <1>0, <1>2, <1>3, <1>5, <1>6, PassEntry, Zenon

(* A piece of a long name. *)
LEMMA LfnEntryStep ==
  ASSUME FindInv, PathInv, LfnEntry
  PROVE  PathInv'
<1> DEFINE m == Before("entry", hops, s, off)
           list == Listing(Here)
           goes == InName(SeqNo(e)) /\ (IsLast(e) \/ (lfn_ok /\ e.sum = lfn_checksum))
<1>0. Frozen /\ AtEntry /\ IsLfn(e) /\ Continue
  BY Zenon DEF LfnEntry, Continue, Frozen, disk
<1>1. /\ m \in Nat /\ list[m + 1] = e /\ SeqNo(e) \in Nat /\ lfn_ok \in BOOLEAN
      /\ Pending(list, m, lfn_ok, lfn_checksum, lfn, lfn_len)
  BY <1>0, LookingAtEntry, Zenon
<1>2. ~IsEnd(e) /\ ~IsShort(e)
  BY <1>0, Zenon DEF IsShort, IsLfn
<1>3. m + 1 \notin Hits(list, name)
  BY <1>1, <1>2, OnlyShort, Zenon
<1> HIDE DEF m, list
<1>4. /\ goes => Pending(list, m + 1, TRUE, e.sum, Store(IF IsLast(e) THEN Lfn0 ELSE lfn, SeqNo(e), e.chars),
                         IF IsLast(e) THEN SeqNo(e) * kPiece ELSE lfn_len)
      /\ ~goes => \A b \in 1 .. m + 1 : ~Run(list, b, m + 1)
  BY <1>0, <1>1, PendingPiece, Zenon
<1>5. CASE goes
  <2>1. /\ lfn' = Store(IF IsLast(e) THEN Lfn0 ELSE lfn, SeqNo(e), e.chars)
        /\ lfn_len' = (IF IsLast(e) THEN SeqNo(e) * kPiece ELSE lfn_len)
        /\ lfn_checksum' = e.sum /\ lfn_ok' = TRUE
    BY <1>5, Zenon DEF LfnEntry
  <2>2. Pending(list, m + 1, lfn_ok', lfn_checksum', lfn', lfn_len')
    <3> HIDE DEF goes
    <3> QED BY <1>4, <1>5, <2>1, Zenon
  <2>3. lfn_ok' \in BOOLEAN
    BY <2>1
  <2> QED BY <1>0, <1>2, <1>3, <2>2, <2>3, PassEntry, Zenon DEF m, list
<1>6. CASE ~goes
  <2>1. lfn_ok' = FALSE
    BY <1>6, Zenon DEF LfnEntry
  <2>2. Pending(list, m + 1, lfn_ok', lfn_checksum', lfn', lfn_len')
    <3> HIDE DEF goes
    <3> QED BY <1>4, <1>6, <2>1, Zenon DEF Pending
  <2>3. lfn_ok' \in BOOLEAN
    BY <2>1, Zenon
  <2> QED BY <1>0, <1>2, <1>3, <2>2, <2>3, PassEntry, Zenon DEF m, list
<1> QED BY <1>5, <1>6, Zenon

(* A short entry: the one that was looked up, or another. *)
LEMMA ShortEntryStep ==
  ASSUME FindInv, PathInv, ShortEntry
  PROVE  PathInv'
<1> DEFINE m == Before("entry", hops, s, off)
           list == Listing(Here)
           found == "volume_id" \notin e.attr /\ Matches
<1>0. Frozen /\ AtEntry /\ IsShort(e) /\ lfn_ok' = FALSE
  BY Zenon DEF ShortEntry, Continue, Frozen, disk
<1>1. /\ Given /\ Given' /\ Context /\ ~failed /\ lfn_ok \in BOOLEAN
      /\ m \in Nat /\ m + 1 \in DOMAIN list /\ list[m + 1] = e /\ e \in Entry
      /\ Past(list, m, name) /\ Pending(list, m, lfn_ok, lfn_checksum, lfn, lfn_len)
  BY <1>0, LookingAtEntry, Zenon
<1>a. name \in Seq(Characters) /\ \A j \in 1 .. m : SeqNo(list[j]) \in Nat
  BY <1>1, NameType, Ordinals, Zenon
<1> HIDE DEF m, list
<1>2. m + 1 \in Hits(list, name) <=>
        /\ "volume_id" \notin e.attr
        /\ \/ lfn_ok /\ short_name_checksum(e) = lfn_checksum /\ equal_nocase(Text(lfn, lfn_len), name)
           \/ equal_nocase(format_short_name(e), name)
  BY <1>0, <1>1, <1>a, HitIs, Zenon
<1>3. m + 1 \in Hits(list, name) <=> found
  BY <1>2, Zenon DEF Matches
<1>4. CASE found
  <2>1. /\ pc' = "component" /\ cur' = FileOf(e) /\ path' = path /\ p' = p /\ name' = name /\ failed' = failed
    BY <1>4, Zenon DEF ShortEntry, place
  <2>2. Resolve[Taken] = FileOf(e)
    BY <1>1, <1>3, <1>4, FoundHere, Zenon DEF m, list
  <2>3. Boundary /\ Boundary' /\ Taken' = Taken
    <3>1. Boundary
      BY <1>1, Zenon DEF Context
    <3>2. Split' = Split
      BY <1>0, FrozenParts, Zenon
    <3> QED BY <2>1, <3>1, <3>2, Zenon DEF Boundary, Taken
  <2>4. Resolve'[Taken] = Resolve[Taken]
    BY <1>0, <1>1, <2>3, TakenIs, ResolveSame, Zenon
  <2>5. cur' \in Files
    BY <1>1, <2>1, FileType, Zenon
  <2>6. pc' # "idle" /\ pc' # "return" /\ pc' \notin {"chain", "sector", "entry"}
    BY <2>1
  <2>7. FindsAnyPath'
    BY <2>6, Zenon DEF FindsAnyPath
  <2>8. path' \in Seq(Characters)
    BY <1>1, Zenon DEF Given
  <2> QED BY <1>1, <2>1, <2>2, <2>3, <2>4, <2>5, <2>6, <2>7, <2>8, Zenon DEF PathInv, Looking
<1>5. CASE ~found
  <2>1. Continue
    BY <1>5, Zenon DEF ShortEntry
  <2>2. ~IsEnd(e) /\ ~IsLfn(e)
    BY <1>0, Zenon DEF IsShort, IsLfn
  <2>3. \A b \in 1 .. m + 1 : ~Run(list, b, m + 1)
    BY <1>1, <2>2, NoPiece, Zenon
  <2>4. Pending(list, m + 1, lfn_ok', lfn_checksum', lfn', lfn_len')
    BY <1>0, <2>3, Zenon DEF Pending
  <2>5. lfn_ok' \in BOOLEAN
    BY <1>0, Zenon
  <2>6. m + 1 \notin Hits(list, name)
    BY <1>3, <1>5, Zenon
  <2> QED BY <1>0, <2>1, <2>2, <2>4, <2>5, <2>6, PassEntry, Zenon DEF m, list
<1> QED BY <1>4, <1>5, Zenon

-----------------------------------------------------------------------------
(* The steps of find().                                                    *)

(* find() begins at the root. *)
LEMMA FindStep ==
  ASSUME FindInv, PathInv, Find
  PROVE  PathInv'
<1>0. Frozen /\ pc = "idle" /\ pc' = "component" /\ p' = p /\ cur' = cur /\ failed' = failed
  BY Zenon DEF Find, Frozen, disk
<1>1. Given /\ Given' /\ p' = 1 /\ cur' = Root /\ path' = path
  BY <1>0, GivenStays, Zenon DEF PathInv, Frozen
<1>2. Len(path) \in Nat /\ Split[0] = <<>>
  BY <1>1, SplitIs, Zenon
<1>3. 1 \in 1 .. Len(path) + 1 /\ 1 - 1 = 0 /\ Len(<<>>) = 0
  BY <1>2
<1>4. Boundary'
  BY <1>1, <1>3, Zenon DEF Boundary
<1>5. Split' = Split
  BY <1>0, FrozenParts, Zenon
<1>6. Taken' = 0
  BY <1>1, <1>2, <1>3, <1>5, Zenon DEF Taken
<1>7. (Given => Resolved)'
  BY ResolveIs, PTL
<1>8. Resolve'[0] = Root
  BY <1>1, <1>7, Zenon DEF Resolved
<1>9. pc' # "idle" /\ pc' # "return" /\ pc' \notin {"chain", "sector", "entry"} /\ pc # "return"
  BY <1>0
<1>10. FindsAnyPath'
  BY <1>9, Zenon DEF FindsAnyPath
<1>11. path' \in Seq(Characters) /\ ~failed' /\ cur' \in Files
  BY <1>0, <1>1, <1>9, FileType, Zenon DEF PathInv
<1> QED BY <1>1, <1>4, <1>6, <1>8, <1>9, <1>10, <1>11, Zenon DEF PathInv, Looking

(* It ends without the disk's help. *)
LEMMA FailSteps ==
  ASSUME FindInv, PathInv, FindNothing \/ SectorFails
  PROVE  PathInv'
<1>0. Frozen /\ pc' = "return" /\ cur' = None /\ failed'
  BY Zenon DEF FindNothing, SectorFails, Return, Frozen, disk
<1> QED BY <1>0, GivenStays, GiveUp, Zenon

(* Another call begins as the first. *)
LEMMA BackStep ==
  ASSUME FindInv, PathInv, Back
  PROVE  PathInv'
<1>0. pc' = "idle" /\ p' = 1 /\ cur' = Root /\ failed' = FALSE /\ path' = path
  BY Zenon DEF Back
<1>1. pc' # "component" /\ pc' # "return" /\ pc' \notin {"chain", "sector", "entry"}
  BY <1>0
<1>2. FindsAnyPath'
  BY <1>1, Zenon DEF FindsAnyPath
<1>3. path' \in Seq(Characters)
  BY <1>0, Zenon DEF PathInv
<1> QED BY <1>0, <1>1, <1>2, <1>3, Zenon DEF PathInv, Looking

(* There are no more components. *)
LEMMA FoundStep ==
  ASSUME FindInv, PathInv, Found
  PROVE  PathInv'
<1>0. /\ Frozen /\ pc = "component" /\ pc' = "return" /\ failed' = failed /\ SkipSlashes(p) > Len(path)
      /\ cur' = [first_cluster |-> IF cur.dir THEN DirCluster(cur.first_cluster) ELSE cur.first_cluster,
                 size |-> IF cur.dir THEN 0 ELSE cur.size,
                 dir |-> cur.dir]
  BY Zenon DEF Found, Return, Frozen, disk
<1>1. Given /\ Given' /\ Boundary /\ cur \in Files /\ cur = Resolve[Taken]
  BY <1>0, GivenStays, Zenon DEF PathInv
<1>2. Len(path) \in Nat /\ p \in 1 .. Len(path) + 1
  BY <1>1, TakenIs, Zenon
<1> DEFINE start == SkipSlashes(p)
<1>3. start \in p .. Len(path) + 1 /\ \A j \in p .. start - 1 : path[j] = Slash
  BY <1>1, <1>2, SlashesIs, Zenon
<1>a. start > Len(path)
  BY <1>0, Zenon
<1> HIDE DEF start
<1>4. start - 1 = Len(path) /\ Len(path) \in p - 1 .. Len(path)
  BY <1>2, <1>3, <1>a
<1>5. Split[Len(path)] = Split[p - 1]
  BY <1>1, <1>2, <1>3, <1>4, SplitSlashes, Zenon
<1>6. Taken = Len(Components)
  BY <1>1, <1>5, SplitIs, Zenon DEF Taken
<1>7. Len(Components) \in 0 .. Len(Components)
  BY <1>1, <1>6, TakenIs, Zenon
<1>8. Resolve'[Len(Components')] = cur
  BY <1>0, <1>1, <1>6, <1>7, ResolveSame, Zenon
<1>9. cur # None
  BY <1>1, FileType, Zenon
<1>b. pc # "return"
  BY <1>0
<1>10. ~failed'
  BY <1>0, <1>b, Zenon DEF PathInv
<1>11. FindsAnyPath'
  <2>1. /\ cur'.dir = cur.dir /\ cur'.size = (IF cur.dir THEN 0 ELSE cur.size)
        /\ cur'.first_cluster = (IF cur.dir THEN DirCluster(cur.first_cluster) ELSE cur.first_cluster)
    BY <1>0
  <2> QED BY <1>8, <1>9, <1>10, <2>1, Zenon DEF FindsAnyPath
<1>12. pc' # "idle" /\ pc' # "component" /\ pc' \notin {"chain", "sector", "entry"}
  BY <1>0
<1>13. path' \in Seq(Characters)
  BY <1>1, Zenon DEF Given
<1> QED BY <1>10, <1>11, <1>12, <1>13, Zenon DEF PathInv, Looking

(* The next component. *)
LEMMA NextComponent ==
  ASSUME Given, Boundary, SkipSlashes(p) <= Len(path)
  PROVE  LET start == SkipSlashes(p)
             end == ToSlash(start)
         IN  /\ end \in 1 .. Len(path) + 1 /\ (end = Len(path) + 1 \/ path[end] = Slash)
             /\ Len(Split[end - 1]) = Taken + 1 /\ Taken + 1 \in 1 .. Len(Components)
             /\ Components[Taken + 1] = SubSeq(path, start, end - 1)
             /\ Len(SubSeq(path, start, end - 1)) = end - start
<1> DEFINE start == SkipSlashes(p)
           end == ToSlash(start)
           N == Len(path)
<1>1. N \in Nat /\ p \in 1 .. N + 1 /\ Split[p - 1] \in Names /\ (p = 1 \/ p = N + 1 \/ path[p] = Slash)
  BY TakenIs, Zenon DEF Boundary
<1>2. start \in p .. N + 1 /\ (\A j \in p .. start - 1 : path[j] = Slash) /\ (start <= N => path[start] # Slash)
  BY <1>1, SlashesIs, Zenon
<1>a. start <= N
  OBVIOUS
<1> HIDE DEF start, N
<1>3. start \in 1 .. N + 1 /\ start \in 1 .. N
  BY <1>1, <1>2, <1>a
<1>4. end \in start .. N + 1 /\ (\A j \in start .. end - 1 : path[j] # Slash) /\ (end <= N => path[end] = Slash)
  BY <1>3, SlashesIs, Zenon DEF N
<1> HIDE DEF end
<1>5. start = 1 \/ path[start - 1] = Slash
  <2>1. start = p \/ start - 1 \in p .. start - 1
    BY <1>1, <1>2
  <2>2. start # N + 1
    BY <1>1, <1>3
  <2> QED BY <1>1, <1>2, <1>a, <2>1, <2>2, Zenon
<1>6. end # start
  BY <1>2, <1>4, <1>a, Zenon
<1>7. /\ end - 1 \in start .. N /\ end \in 1 .. N + 1 /\ (end = N + 1 \/ end <= N) /\ (end - 1) + 1 = end
      /\ end - 1 \in 0 .. N /\ start - 1 \in p - 1 .. N /\ (end = N + 1 => end - 1 = N)
      /\ start \in Int /\ end - 1 \in Int
      /\ (end - 1) - start + 1 = end - start /\ start <= end - 1
  BY <1>1, <1>2, <1>3, <1>4, <1>6
<1>8. Split[start - 1] = Split[p - 1]
  BY <1>1, <1>2, <1>7, SplitSlashes, Zenon DEF N
<1>9. Split[end - 1] = Append(Split[p - 1], SubSeq(path, start, end - 1))
  BY <1>3, <1>4, <1>5, <1>7, <1>8, SplitComponent, Zenon DEF N
<1> DEFINE w == SubSeq(path, start, end - 1)
           names == Split[p - 1]
           n == Len(names)
<1>10. w \in Seq(Characters) /\ Len(w) = end - start
  <2>1. \A j \in start .. end - 1 : path[j] \in Characters
    BY <1>1, <1>3, <1>7 DEF Given, N
  <2> DEFINE last == end - 1
  <2>2. start \in Int /\ last \in Int /\ start <= last /\ \A j \in start .. last : path[j] \in Characters
    BY <1>7, <2>1, Zenon
  <2> HIDE DEF last
  <2>3. SubSeq(path, start, last) \in Seq(Characters) /\ Len(SubSeq(path, start, last)) = last - start + 1
    BY <2>2, SubSeqProperties, Zenon
  <2> QED BY <1>7, <2>3, Zenon DEF last
<1> HIDE DEF w, names
<1>11. names \in Seq(Seq(Characters)) /\ Split[end - 1] = Append(names, w)
  BY <1>1, <1>9, Zenon DEF names, w, Names
<1>12. n \in Nat /\ n + 1 \in 1 .. n + 1 /\ Len(Append(names, w)) = n + 1 /\ Append(names, w)[n + 1] = w
  BY <1>10, <1>11
<1>13. Taken = n
  BY Zenon DEF Taken, names
<1>14. /\ Len(Split[end - 1]) \in 0 .. Len(Components)
       /\ \A k \in 1 .. Len(Split[end - 1]) : Components[k] = Split[end - 1][k]
  BY <1>4, <1>7, SplitPrefix, Zenon DEF N
<1>15. Len(Components) \in Nat
  BY ResolveIs, Zenon DEF Resolved
<1>16. n + 1 \in 0 .. Len(Components) /\ Components[n + 1] = w
  BY <1>11, <1>12, <1>14, Zenon
<1>17. n + 1 \in 1 .. Len(Components)
  BY <1>12, <1>15, <1>16
<1> HIDE DEF n
<1> QED BY <1>4, <1>7, <1>10, <1>11, <1>12, <1>13, <1>16, <1>17, Zenon DEF start, end, N, w

(* It is looked up, if it can be. *)
LEMMA DescendStep ==
  ASSUME FindInv, PathInv, Descend
  PROVE  PathInv'
<1> DEFINE start == SkipSlashes(p)
           end == ToSlash(start)
           w == SubSeq(path, start, end - 1)
<1>0. /\ Frozen /\ pc = "component" /\ start <= Len(path) /\ p' = end /\ name' = w /\ failed' = failed /\ path' = path
  BY Zenon DEF Descend, Frozen, disk
<1>1. Given /\ Given' /\ Boundary /\ cur \in Files /\ cur = Resolve[Taken]
  BY <1>0, GivenStays, Zenon DEF PathInv
<1>2. /\ end \in 1 .. Len(path) + 1 /\ (end = Len(path) + 1 \/ path[end] = Slash)
      /\ Len(Split[end - 1]) = Taken + 1 /\ Taken + 1 \in 1 .. Len(Components)
      /\ Components[Taken + 1] = w /\ Len(w) = end - start
  BY <1>0, <1>1, NextComponent, Zenon
<1>a. /\ IF ~cur.dir \/ end - start > kMaxNameLen
         THEN pc' = "return" /\ cur' = None
         ELSE /\ pc' = "chain"
              /\ cluster' = DirCluster(cur.first_cluster)
              /\ hops' = 0 /\ s' = 0 /\ off' = 0
              /\ lfn' = Lfn0 /\ lfn_len' = 0 /\ lfn_ok' = FALSE /\ lfn_checksum' = 0
              /\ cur' = cur
  BY Zenon DEF Descend, Return
<1> HIDE DEF start, end, w
<1>3. Taken \in 0 .. Len(Components) /\ Len(Components) \in Nat
  BY <1>1, TakenIs, Zenon
<1>4. (Taken + 1) - 1 = Taken /\ Taken + 1 >= 1 /\ Taken + 1 \in 0 .. Len(Components)
  BY <1>3, <1>2
<1>5. Resolve[Taken + 1] = Search(cur, w)
  <2>1. Resolved
    BY <1>1, ResolveIs, Zenon
  <2>2. Resolve[Taken + 1] = Search(Resolve[(Taken + 1) - 1], Components[Taken + 1])
    BY <1>2, <2>1, Zenon DEF Resolved
  <2> QED BY <1>1, <1>2, <1>4, <2>2, Zenon
<1>6. CASE ~cur.dir \/ end - start > kMaxNameLen
  <2>1. Search(cur, w) = None
    BY <1>2, <1>6, Zenon DEF Search
  <2>2. \E n \in 0 .. Len(Components) : Resolve[n] = None
    BY <1>4, <1>5, <2>1, Zenon
  <2> QED BY <1>0, <1>1, <1>6, <1>a, <2>2, GiveUp, Zenon
<1>7. CASE ~(~cur.dir \/ end - start > kMaxNameLen)
  <2>1. /\ pc' = "chain" /\ cluster' = Here /\ hops' = 0 /\ s' = 0 /\ off' = 0
        /\ lfn_ok' = FALSE /\ cur' = cur /\ cur.dir /\ ~(end - start > kMaxNameLen)
    BY <1>7, <1>a, Zenon DEF Here
  <2>2. end - start <= kMaxNameLen
    <3>1. w \in Seq(Characters)
      <4>1. Components \in Names
        BY <1>1, ResolveIs, Zenon DEF Resolved
      <4> QED BY <1>2, <4>1, ElementOfSeq, Zenon DEF Names
    <3>2. Len(w) \in Nat /\ kMaxNameLen \in Nat
      BY <3>1, FindAssumption
    <3> QED BY <1>2, <2>1, <3>2
  <2>3. Split' = Split /\ Components' = Components
    BY <1>0, FrozenParts, Zenon
  <2>4. Boundary'
    BY <1>0, <1>2, Zenon DEF Boundary
  <2>5. Taken' = Taken + 1
    BY <1>0, <1>2, <2>3, Zenon DEF Taken
  <2>6. Resolve'[Taken] = Resolve[Taken]
    BY <1>0, <1>1, <1>3, ResolveSame, Zenon
  <2>7. Context'
    <3>1. Taken' >= 1 /\ Taken' - 1 = Taken
      BY <1>4, <2>5, Zenon
    <3> QED BY <1>0, <1>1, <1>2, <2>1, <2>2, <2>3, <2>4, <2>5, <2>6, <3>1, Zenon DEF Context
  <2>8. Here' = Here /\ Here \in Nat
    BY <1>1, <2>1, DirClusterType, Zenon DEF Here, DirCluster
  <2>9. Visit(Here)' = Visit(Here) /\ Listing(Here)' = Listing(Here)
    BY <1>0, <2>8, FrozenParts, Zenon
  <2>10. Walk(Visit(Here), "chain", 0, Here, 0, 0)
    <3>1. Visit(Here)[0] = IF valid_cluster(Here) THEN Here ELSE 0
      BY <1>1, <2>8, VisitIs, Zenon
    <3>2. cluster_count \in Nat
      BY ValidIsCluster
    <3>3. 0 \in 0 .. cluster_count + 1 /\ 0 .. 0 - 1 = {} /\ "chain" # "entry"
      BY <3>2
    <3> QED BY <3>1, <3>3, Zenon DEF Walk
  <2>11. Before("chain", 0, 0, 0) = 0
    <3>1. 0 * PerCluster + 0 = 0
      BY Sizes
    <3> QED BY <3>1, Zenon DEF Before
  <2>12. 1 .. 0 = {}
    OBVIOUS
  <2>13. Past(Listing(Here), 0, w) /\ Pending(Listing(Here), 0, FALSE, lfn_checksum', lfn', lfn_len')
    BY <2>12, Zenon DEF Past, Pending
  <2>a. lfn_ok' \in BOOLEAN
    BY <2>1, Zenon
  <2>14. Progress'
    BY <1>0, <2>1, <2>9, <2>10, <2>11, <2>13, <2>a, Zenon DEF Progress, Seen
  <2>15. pc' # "idle" /\ pc' # "component" /\ pc' # "return" /\ pc # "return"
    BY <1>0, <2>1
  <2>16. FindsAnyPath'
    BY <2>15, Zenon DEF FindsAnyPath
  <2>17. path' \in Seq(Characters) /\ ~failed'
    BY <1>0, <2>15, Zenon DEF PathInv
  <2> QED BY <2>7, <2>14, <2>15, <2>16, <2>17, Zenon DEF PathInv, Looking
<1> QED BY <1>6, <1>7, Zenon

(* Nothing happens. *)
LEMMA StutterStep ==
  ASSUME FindInv, PathInv, UNCHANGED vars
  PROVE  PathInv'
<1>0. /\ Frozen /\ pc' = pc /\ p' = p /\ name' = name /\ cur' = cur /\ failed' = failed
      /\ cluster' = cluster /\ hops' = hops /\ s' = s /\ off' = off
      /\ lfn' = lfn /\ lfn_len' = lfn_len /\ lfn_ok' = lfn_ok /\ lfn_checksum' = lfn_checksum
  BY Zenon DEF vars, disk, place, long, Frozen
<1>1. Given /\ Given'
  BY <1>0, GivenStays, Zenon
<1>2. CASE pc \in {"chain", "sector", "entry"}
  <2>1. /\ Context /\ ~failed /\ lfn_ok \in BOOLEAN
        /\ Walk(Visit(Here), pc, hops, cluster, s, off)
        /\ Past(Listing(Here), Before(pc, hops, s, off), name)
        /\ Pending(Listing(Here), Before(pc, hops, s, off), lfn_ok, lfn_checksum, lfn, lfn_len)
    BY <1>0, <1>2, Searching, Zenon
  <2> QED BY <1>0, <1>1, <1>2, <2>1, LookOn, Zenon
<1>3. CASE pc \notin {"chain", "sector", "entry"}
  <2>1. pc = "component" => (Boundary /\ cur \in Files /\ cur = Resolve[Taken])'
    BY <1>0, <1>1, Still, Zenon DEF PathInv
  <2>2. Components' = Components /\ \A n \in 0 .. Len(Components) : Resolve'[n] = Resolve[n]
    BY <1>0, <1>1, ResolveSame, Zenon
  <2>3. Len(Components) \in Nat
    BY <1>1, ResolveIs, Zenon DEF Resolved
  <2>4. Len(Components) \in 0 .. Len(Components)
    BY <2>3
  <2>5. Resolve'[Len(Components')] = Resolve[Len(Components)]
    BY <2>2, <2>4, Zenon
  <2>6. FindsAnyPath'
    BY <1>0, <2>5, Zenon DEF FindsAnyPath, DirCluster, PathInv
  <2>7. path' \in Seq(Characters)
    BY <1>0, Zenon DEF PathInv, Frozen
  <2> QED BY <1>0, <1>3, <2>1, <2>6, <2>7, Zenon DEF PathInv, Looking
<1> QED BY <1>2, <1>3, Zenon

(* FindsPath: find() returns the entry the path names, whatever the disk   *)
(* holds, if there is no '?' in the path.                                  *)
THEOREM FindIsResolution == Spec => []FindsPath
<1> DEFINE PlainInv == path \in Seq(Byte \ {NUL}) /\ (path \in Seq(Characters) => PathInv)
<1>1. Init => PlainInv
  <2> SUFFICES ASSUME Init PROVE path \in Seq(Byte \ {NUL}) /\ (path \in Seq(Characters) => PathInv)
    BY Zenon
  <2>1. pc = "idle" /\ p = 1 /\ cur = Root /\ failed = FALSE
    BY Zenon DEF Init
  <2>2. pc # "component" /\ pc # "return" /\ pc \notin {"chain", "sector", "entry"}
    BY <2>1
  <2>3. path \in Seq(Byte \ {NUL})
    BY FindAssumption, Zenon DEF Init
  <2>4. FindsAnyPath
    BY <2>2, Zenon DEF FindsAnyPath
  <2> QED BY <2>1, <2>2, <2>3, <2>4, Zenon DEF PathInv, Looking
<1>2. FindInv /\ PathInv /\ [Next]_vars => PathInv'
  BY FindStep, FailSteps, BackStep, FoundStep, DescendStep, StutterStep, ChainStep, SectorStep, NextClusterStep,
     SectorDoneStep, EndEntryStep, DeletedEntryStep, LfnEntryStep, ShortEntryStep, Zenon DEF Next, Running
<1>3. [Next]_vars => path' = path
  BY Zenon DEF Next, Running, vars, Find, FindNothing, Found, Descend, Chain, Sector, NextCluster, SectorFails,
               SectorDone, EndEntry, DeletedEntry, LfnEntry, ShortEntry, Continue, Back
<1>4. FindInv /\ PlainInv /\ [Next]_vars => PlainInv'
  BY <1>2, <1>3, Zenon
<1>5. FindInv /\ PlainInv => FindsPath
  <2> SUFFICES ASSUME FindInv, PlainInv, \A n \in DOMAIN path : path[n] # Question PROVE FindsAnyPath
    BY Zenon DEF FindsPath
  <2>1. path \in Seq(Byte \ {NUL})
    BY Zenon
  <2>2. path \in Seq(Characters)
    BY <2>1 DEF Characters
  <2> QED BY <2>2, Zenon DEF PathInv
<1> HIDE DEF PlainInv
<1> QED BY <1>1, <1>4, <1>5, FindInvariance, PTL DEF Spec
=============================================================================
