------------------------------ MODULE Fat32Find ------------------------------
(***************************************************************************)
(* Fat32::find() and Fat32::lookup() (fat32.cpp): a path is resolved one   *)
(* component at a time, each by a search of a directory's cluster chain in *)
(* which the pieces of a long name are put together on the way to the      *)
(* short entry they belong to.                                             *)
(*                                                                         *)
(* Characters are their codes, and a directory entry is the fields its 32  *)
(* bytes hold.  The directories are whatever the disk holds: stale pieces, *)
(* deleted entries, and chains that run in a circle included.  The lengths *)
(* the format fixes (8 and 3 characters of a short name, 13 of a piece) are*)
(* constants.                                                              *)
(***************************************************************************)
EXTENDS Integers, Sequences

CONSTANTS
  sectors_per_cluster, cluster_count, root_cluster,
  EntriesPerSector,
  kBase, kExt,    \* the characters of a short name and of its extension
  kPiece,         \* the characters of a piece of a long name
  kMaxNameLen,
  Lookups         \* [fat, sectors, path]: the volumes, and the paths asked of them

valid_cluster(cluster) == cluster >= 2 /\ cluster < cluster_count + 2

Clusters == 2 .. cluster_count + 1

(* Sectors are numbered from the start of the data region.                 *)
cluster_lba(c) == (c - 2) * sectors_per_cluster

Lbas == 0 .. cluster_count * sectors_per_cluster - 1

NUL == 0
Space == 32
Dot == 46
Slash == 47
Question == 63

Byte == 0 .. 255
Word == 0 .. 65535
Words == 65536

(* The attribute byte, as the set of its bits.                             *)
kAttrLfn == {"read_only", "hidden", "system", "volume_id"}

(* e0 is byte 0: the first of the short name, or the ordinal of a piece.   *)
Entry ==
  [e0 : Byte, rest : [1 .. kBase + kExt - 1 -> Byte],
   attr : SUBSET (kAttrLfn \cup {"directory", "archive"}),
   sum : Byte, chars : [1 .. kPiece -> Word],
   high : Word, low : Word, size : Nat]

ASSUME FindAssumption ==
  /\ {sectors_per_cluster, cluster_count, EntriesPerSector, kBase, kExt, kPiece, kMaxNameLen} \subseteq Nat \ {0}
  /\ root_cluster \in Clusters
  /\ \A l \in Lookups :
       /\ l.fat \in [Clusters -> Nat]
       /\ l.sectors \in [Lbas -> [1 .. EntriesPerSector -> Entry]]
       /\ l.path \in Seq(Byte \ {NUL})

VARIABLES
  fat, sectors,                 \* the disk: the FAT, and the entries of each sector
  pc, path, p, name, cur,       \* find(): where it is, its argument, p, [p, end), `cur`
  cluster, hops, s, off,        \* lookup(): the place it has reached
  lfn, lfn_len, lfn_ok, lfn_checksum,
  failed                        \* whether the disk has failed it

disk  == <<fat, sectors>>
place == <<cluster, hops, s, off>>
long  == <<lfn, lfn_len, lfn_ok, lfn_checksum>>
vars  == <<disk, pc, path, p, name, cur, place, long, failed>>

(* An Entry of find(), or the File made of one; None is what it returns    *)
(* instead.                                                                *)
Root == [first_cluster |-> root_cluster, size |-> 0, dir |-> TRUE]

None == [first_cluster |-> 0, size |-> -1, dir |-> FALSE]

(* char lfn[kMaxNameLen + 14], after its memset().                         *)
Lfn0 == [n \in 0 .. kMaxNameLen + kPiece |-> NUL]

Init ==
  /\ \E l \in Lookups : fat = l.fat /\ sectors = l.sectors /\ path = l.path
  /\ pc = "idle" /\ p = 1 /\ name = <<>> /\ cur = Root
  /\ cluster = 0 /\ hops = 0 /\ s = 0 /\ off = 0
  /\ lfn = Lfn0 /\ lfn_len = 0 /\ lfn_ok = FALSE /\ lfn_checksum = 0
  /\ failed = FALSE

-----------------------------------------------------------------------------
(* Names                                                                   *)

upper(c) == IF c \in 97 .. 122 THEN c - 32 ELSE c

equal_nocase(a, b) ==
  /\ Len(a) = Len(b)
  /\ \A n \in 1 .. Len(a) : upper(a[n]) = upper(b[n])

(* str up to its first c.                                                  *)
UpTo(str, c) ==
  LET n == CHOOSE n \in 0 .. Len(str) :
             /\ \A m \in 1 .. n : str[m] # c
             /\ n < Len(str) => str[n + 1] = c
  IN  SubSeq(str, 1, n)

name11(entry) == <<entry.e0>> \o entry.rest

short_name_checksum(entry) ==
  LET sum[n \in 0 .. kBase + kExt] ==
        IF n = 0 THEN 0
        ELSE ((sum[n - 1] % 2) * 128 + (sum[n - 1] \div 2) + name11(entry)[n]) % 256
  IN  sum[kBase + kExt]

(* "HELLO   TXT" as "HELLO.TXT"; a leading 0x05 stands for 0xE5.           *)
format_short_name(entry) ==
  LET base == SubSeq(name11(entry), 1, kBase)
      ext == SubSeq(name11(entry), kBase + 1, kBase + kExt)
  IN  UpTo(IF base[1] = 5 THEN <<229>> \o Tail(base) ELSE base, Space)
      \o (IF ext[1] = Space THEN <<>> ELSE <<Dot>> \o UpTo(ext, Space))

(* A UTF-16 unit of a piece, as a char.                                    *)
ToChar(ch) == IF ch = 65535 THEN NUL ELSE IF ch < 128 THEN ch ELSE Question

-----------------------------------------------------------------------------
(* find()                                                                  *)

Find ==
  /\ pc = "idle"
  /\ pc' = "component"
  /\ UNCHANGED <<disk, path, p, name, cur, place, long, failed>>

Return(file) ==
  /\ pc' = "return"
  /\ cur' = file

(* No volume, or no path.                                                  *)
FindNothing ==
  /\ pc = "idle"
  /\ Return(None)
  /\ failed' = TRUE
  /\ UNCHANGED <<disk, path, p, name, place, long>>

(* The first place from n on that is, or that is not, a slash.             *)
SkipSlashes(n) ==
  CHOOSE m \in n .. Len(path) + 1 :
    /\ \A j \in n .. m - 1 : path[j] = Slash
    /\ m <= Len(path) => path[m] # Slash

ToSlash(n) ==
  CHOOSE m \in n .. Len(path) + 1 :
    /\ \A j \in n .. m - 1 : path[j] # Slash
    /\ m <= Len(path) => path[m] = Slash

DirCluster(c) == IF c = 0 THEN root_cluster ELSE c

(* No more components: the answer, whose cluster 0 means the root and whose*)
(* size, for a directory, is 0.                                            *)
Found ==
  /\ pc = "component" /\ SkipSlashes(p) > Len(path)
  /\ Return([first_cluster |-> IF cur.dir THEN DirCluster(cur.first_cluster) ELSE cur.first_cluster,
             size |-> IF cur.dir THEN 0 ELSE cur.size,
             dir |-> cur.dir])
  /\ UNCHANGED <<disk, path, p, name, place, long, failed>>

(* lookup() of the next component; ".." of a directory of the root has     *)
(* cluster 0.                                                              *)
Descend ==
  LET start == SkipSlashes(p)
      end == ToSlash(start)
  IN  /\ pc = "component" /\ start <= Len(path)
      /\ p' = end /\ name' = SubSeq(path, start, end - 1)
      /\ IF ~cur.dir \/ end - start > kMaxNameLen
         THEN Return(None) /\ UNCHANGED <<place, long>>
         ELSE /\ pc' = "chain"
              /\ cluster' = DirCluster(cur.first_cluster)
              /\ hops' = 0 /\ s' = 0 /\ off' = 0
              /\ lfn' = Lfn0 /\ lfn_len' = 0 /\ lfn_ok' = FALSE /\ lfn_checksum' = 0
              /\ UNCHANGED cur
      /\ UNCHANGED <<disk, path, failed>>

-----------------------------------------------------------------------------
(* lookup(): clusters, sectors, entries.                                   *)

Chain ==
  /\ pc = "chain"
  /\ IF valid_cluster(cluster) /\ hops <= cluster_count
     THEN pc' = "sector" /\ s' = 0 /\ UNCHANGED cur
     ELSE Return(None) /\ UNCHANGED s
  /\ UNCHANGED <<disk, path, p, name, cluster, hops, off, long, failed>>

Sector ==
  /\ pc = "sector" /\ s < sectors_per_cluster
  /\ pc' = "entry" /\ off' = 1
  /\ UNCHANGED <<disk, path, p, name, cur, cluster, hops, s, long, failed>>

(* Faulty: does not count the clusters visited.                            *)
NextClusterNoHop ==
  /\ pc = "sector" /\ s >= sectors_per_cluster
  /\ pc' = "chain" /\ cluster' = fat[cluster]
  /\ UNCHANGED <<disk, path, p, name, cur, hops, s, off, long, failed>>

(* The cluster is done: fat_next().                                        *)
NextCluster ==
  /\ pc = "sector" /\ s >= sectors_per_cluster
  /\ pc' = "chain" /\ cluster' = fat[cluster] /\ hops' = hops + 1
  /\ UNCHANGED <<disk, path, p, name, cur, s, off, long, failed>>

(* Either reads the disk, which may fail.                                  *)
SectorFails ==
  /\ pc = "sector"
  /\ failed' = TRUE
  /\ Return(None)
  /\ UNCHANGED <<disk, path, p, name, place, long>>

SectorDone ==
  /\ pc = "entry" /\ off > EntriesPerSector
  /\ pc' = "sector" /\ s' = s + 1
  /\ UNCHANGED <<disk, path, p, name, cur, cluster, hops, off, long, failed>>

e == sectors[cluster_lba(cluster) + s][off]

AtEntry == pc = "entry" /\ off <= EntriesPerSector

Continue ==
  /\ off' = off + 1
  /\ UNCHANGED <<disk, pc, path, p, name, cur, cluster, hops, s, failed>>

IsEnd(entry) == entry.e0 = 0
IsDeleted(entry) == entry.e0 = 229
IsLfn(entry) == ~IsEnd(entry) /\ ~IsDeleted(entry) /\ entry.attr = kAttrLfn
IsShort(entry) == ~IsEnd(entry) /\ ~IsDeleted(entry) /\ entry.attr # kAttrLfn

EndEntry ==
  /\ AtEntry /\ IsEnd(e)
  /\ Return(None)
  /\ UNCHANGED <<disk, path, p, name, place, long, failed>>

DeletedEntry ==
  /\ AtEntry /\ IsDeleted(e)
  /\ lfn_ok' = FALSE
  /\ Continue
  /\ UNCHANGED <<lfn, lfn_len, lfn_checksum>>

(* The ordinal: bits 0-5 are the position, bit 6 marks the last piece.     *)
SeqNo(entry) == entry.e0 % 64
IsLast(entry) == (entry.e0 \div 64) % 2 = 1

(* Faulty: allows the piece after the last that fits.                      *)
InNameOneMore(seq) == seq # 0 /\ (seq - 1) * kPiece <= kMaxNameLen + kPiece

InName(seq) == seq # 0 /\ seq * kPiece <= kMaxNameLen + kPiece

(* buf after kPiece stores from position (seq - 1) * kPiece on: a store    *)
(* past its end would make it longer.                                      *)
Store(buf, seq, chars) ==
  LET at == (seq - 1) * kPiece IN
  [n \in DOMAIN buf \cup at .. at + kPiece - 1 |->
     IF n \in at .. at + kPiece - 1 THEN ToChar(chars[n - at + 1]) ELSE buf[n]]

(* A last piece, which comes first, or one that goes on with its run.      *)
LfnEntry ==
  /\ AtEntry /\ IsLfn(e)
  /\ IF InName(SeqNo(e)) /\ (IsLast(e) \/ (lfn_ok /\ e.sum = lfn_checksum))
     THEN /\ lfn' = Store(IF IsLast(e) THEN Lfn0 ELSE lfn, SeqNo(e), e.chars)
          /\ lfn_len' = IF IsLast(e) THEN SeqNo(e) * kPiece ELSE lfn_len
          /\ lfn_checksum' = e.sum
          /\ lfn_ok' = TRUE
     ELSE lfn_ok' = FALSE /\ UNCHANGED <<lfn, lfn_len, lfn_checksum>>
  /\ Continue

(* The first len characters of buf, up to a NUL.                           *)
Text(buf, len) == UpTo([n \in 1 .. len |-> buf[n - 1]], NUL)

Matches ==
  \/ /\ lfn_ok /\ short_name_checksum(e) = lfn_checksum
     /\ equal_nocase(Text(lfn, lfn_len), name)
  \/ equal_nocase(format_short_name(e), name)

FileOf(entry) ==
  [first_cluster |-> entry.high * Words + entry.low, size |-> entry.size, dir |-> "directory" \in entry.attr]

(* Faulty: leaves the pieces pending after the short entry.                *)
ShortKeepsLfn ==
  /\ AtEntry /\ IsShort(e)
  /\ IF "volume_id" \notin e.attr /\ Matches
     THEN /\ pc' = "component"
          /\ cur' = FileOf(e)
          /\ UNCHANGED <<disk, path, p, name, place, failed>>
     ELSE Continue
  /\ UNCHANGED long

(* The short entry the pieces, if any, belong to.  A volume label is none. *)
ShortEntry ==
  /\ AtEntry /\ IsShort(e)
  /\ lfn_ok' = FALSE
  /\ IF "volume_id" \notin e.attr /\ Matches
     THEN /\ pc' = "component"
          /\ cur' = FileOf(e)
          /\ UNCHANGED <<disk, path, p, name, place, failed>>
     ELSE Continue
  /\ UNCHANGED <<lfn, lfn_len, lfn_checksum>>

(* Back to the caller, who may ask again.                                  *)
Back ==
  /\ pc = "return"
  /\ pc' = "idle" /\ p' = 1 /\ name' = <<>> /\ cur' = Root
  /\ cluster' = 0 /\ hops' = 0 /\ s' = 0 /\ off' = 0
  /\ lfn' = Lfn0 /\ lfn_len' = 0 /\ lfn_ok' = FALSE /\ lfn_checksum' = 0
  /\ failed' = FALSE
  /\ UNCHANGED <<disk, path>>

-----------------------------------------------------------------------------
Running ==
  \/ Found \/ Descend \/ Chain \/ Sector \/ NextCluster \/ SectorFails \/ SectorDone
  \/ EndEntry \/ DeletedEntry \/ LfnEntry \/ ShortEntry \/ Back

Next == Find \/ FindNothing \/ Running

Spec == Init /\ [][Next]_vars

(* A find() that has begun goes on.                                        *)
FairSpec == Spec /\ WF_vars(Running)

-----------------------------------------------------------------------------
(* lookup() stays within its buffer and the volume, whatever the disk says:*)
(* it writes no character past the end of lfn[], whatever ordinals the     *)
(* pieces carry, will read none past it (lfn_len comes from an ordinal),   *)
(* and reads no sector outside the data region.                            *)
InBounds ==
  /\ DOMAIN lfn = 0 .. kMaxNameLen + kPiece
  /\ lfn_len \in 0 .. kMaxNameLen + kPiece
  /\ pc = "entry" => cluster_lba(cluster) + s \in Lbas

(* The reference.  The components of the path: its runs of other characters*)
(* than slashes.                                                           *)
Components ==
  LET split[n \in 0 .. Len(path)] ==
        IF n = 0 THEN <<>>
        ELSE IF path[n] = Slash THEN split[n - 1]
        ELSE IF n = 1 \/ path[n - 1] = Slash THEN Append(split[n - 1], <<path[n]>>)
        ELSE [split[n - 1] EXCEPT ![Len(split[n - 1])] = Append(@, path[n])]
  IN  split[Len(path)]

(* The clusters of the directory at c, in order, 0 past the end of the     *)
(* chain.                                                                  *)
Visit(c) ==
  LET v[h \in 0 .. cluster_count] ==
        IF h = 0 THEN (IF valid_cluster(c) THEN c ELSE 0)
        ELSE IF v[h - 1] # 0 /\ valid_cluster(fat[v[h - 1]]) THEN fat[v[h - 1]] ELSE 0
  IN  v

PerCluster == sectors_per_cluster * EntriesPerSector

(* Its entries, as one sequence.                                           *)
Listing(c) ==
  LET v == Visit(c)
      n == {h \in DOMAIN v : v[h] # 0}
      len == IF n = {} THEN 0 ELSE PerCluster * (1 + CHOOSE h \in n : \A g \in n : g <= h)
  IN  [i \in 1 .. len |->
         LET within == (i - 1) % PerCluster IN
         sectors[cluster_lba(v[(i - 1) \div PerCluster]) + (within \div EntriesPerSector)]
                [1 + (within % EntriesPerSector)]]

(* The character a unit of a long name is.  One past ASCII is none that    *)
(* a caller can spell.                                                     *)
Character(ch) == IF ch = 65535 THEN NUL ELSE IF ch < 128 THEN ch ELSE Words

(* The long name of the short entry list[i]: spelled by a run of pieces    *)
(* from a last piece list[b] up to i, all with its checksum.               *)
LongNames(list, i) ==
  {Text([n \in 0 .. kMaxNameLen + kPiece |->
           LET at == {j \in b .. i - 1 : SeqNo(list[j]) = 1 + (n \div kPiece)} IN
           IF at = {} THEN NUL
           ELSE Character(list[CHOOSE j \in at : \A g \in at : g <= j].chars[1 + (n % kPiece)])],
        SeqNo(list[b]) * kPiece) :
     b \in {a \in 1 .. i - 1 :
              /\ IsLast(list[a])
              /\ \A j \in a .. i - 1 :
                   /\ IsLfn(list[j]) /\ InName(SeqNo(list[j]))
                   /\ list[j].sum = short_name_checksum(list[i])
                   /\ j > a => ~IsLast(list[j])}}

(* Where the name is, of those before the end of the directory.            *)
Hits(list, component) ==
  {i \in DOMAIN list :
     /\ \A j \in 1 .. i : ~IsEnd(list[j])
     /\ IsShort(list[i]) /\ "volume_id" \notin list[i].attr
     /\ \E n \in {format_short_name(list[i])} \cup LongNames(list, i) : equal_nocase(n, component)}

(* The entry the first n components of the path lead to.                   *)
Resolve[n \in 0 .. Len(Components)] ==
  IF n = 0 THEN Root
  ELSE LET dir == Resolve[n - 1]
           list == Listing(DirCluster(dir.first_cluster))
           hits == Hits(list, Components[n])
       IN  IF ~dir.dir \/ Len(Components[n]) > kMaxNameLen \/ hits = {} THEN None
           ELSE FileOf(list[CHOOSE i \in hits : \A j \in hits : i <= j])

(* find() returns the entry the path names: the first, in each directory   *)
(* on the way, that has the component, in any case, for its short name or  *)
(* for the long name its pieces spell; and nothing if there is none.  No   *)
(* path matches a long name with a character past ASCII, as the comment in *)
(* lookup() has it; but lookup() stores such a character as '?', and for a *)
(* path with a '?' this does not hold.                                     *)
FindsAnyPath ==
  pc = "return" =>
    LET r == Resolve[Len(Components)] IN
    IF failed \/ r = None THEN cur = None
    ELSE /\ cur.dir = r.dir
         /\ cur.size = (IF r.dir THEN 0 ELSE r.size)
         /\ cur.first_cluster = (IF r.dir THEN DirCluster(r.first_cluster) ELSE r.first_cluster)

(* So it does for every path without a '?', which is in no legal name.     *)
FindsPath == (\A n \in DOMAIN path : path[n] # Question) => FindsAnyPath

(* Every find() returns, from a directory whose chain is circular too.     *)
FindReturns == pc = "component" ~> pc = "return"
=============================================================================
