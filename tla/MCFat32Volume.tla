--------------------------- MODULE MCFat32Volume ----------------------------
(* Fat32Volume for TLC: bytes of four values, boot sectors whose fields    *)
(* take their extreme values on disks that hold nothing in particular, and *)
(* one readable volume of three clusters of two sectors with every FAT and *)
(* with reads that start and end inside a sector, at its edge and at the   *)
(* edge of a cluster.                                                      *)
EXTENDS Fat32Volume

MCSignature == <<1, 2>>
MCFsInfoMagic == <<82, 97>>
MCFat32Label == <<2, 1, 3, 3, 2, 0, 0, 0>>

Label(a, b, c) == <<a, b, c, 0, 0, 0, 0, 0, 0, 0, 0>>

(* The signature, least significant byte first, is 9.                      *)
Volumes ==
  [bytes_per_sector : {8}, sectors_per_cluster : 0 .. 3, reserved_sectors : {0, 1, 3},
   num_fats : 0 .. 2, root_entries : {0}, total16 : {0, 15}, fat_size16 : {0}, total32 : {0, 6, 255},
   sectors_per_fat : {0, 1, 130, 255}, root_cluster : {0, 2, 5, 255}, fsinfo_sector : {0, 1, 3},
   volume_id : {27}, signature : {9}, type : {MCFat32Label}, label : {Label(1, 0, 0)}, lead : {82}, struct : {97},
   free_clusters : {228}]

Plain ==
  CHOOSE v \in Volumes : v.sectors_per_cluster = 1 /\ v.reserved_sectors = 3 /\ v.num_fats = 1 /\ v.total16 = 15
    /\ v.total32 = 0 /\ v.sectors_per_fat = 1 /\ v.root_cluster = 2 /\ v.fsinfo_sector = 1

(* What is not FAT32 in one field only, other labels, and a bad FSInfo.    *)
Variants ==
  UNION {{[Plain EXCEPT !.signature = n] : n \in {5, 10}},
         {[Plain EXCEPT !.bytes_per_sector = 4], [Plain EXCEPT !.root_entries = 4], [Plain EXCEPT !.fat_size16 = 1],
          [Plain EXCEPT !.type[3] = 0], [Plain EXCEPT !.lead = 0], [Plain EXCEPT !.struct = 82]},
         {[Plain EXCEPT !.label = Label(a, b, c)] : a, b, c \in {0, 1}},
         {[Plain EXCEPT !.label[11] = 1]}}

(* Eleven sectors: one is reserved, three are the FAT, and one is left over*)
(* behind the clusters.                                                    *)
Readable ==
  [Plain EXCEPT !.sectors_per_cluster = 2, !.reserved_sectors = 1, !.total16 = 0, !.total32 = 11,
                !.sectors_per_fat = 3, !.fsinfo_sector = 0]

(* An image is the links of the FAT of the readable volume, or none.       *)
Links == [2 .. 4 -> {2, 3, 4, 15}]

MCDisks ==
  [boot : Volumes \cup Variants, sector_count : {5, 300}, image : {<<>>}]
    \cup [boot : {Readable}, sector_count : {11}, image : Links]

(* The top four bits of an entry are any.                                  *)
MCDiskImages ==
  [i \in Links \cup {<<>>} |->
    [w \in 0 .. 599 |->
      IF w - 2 \in DOMAIN i THEN i[w - 2] + 16 * ((5 * w) % 16) ELSE (37 * w + 11) % 256]]

MCEntries ==
  [i \in Links \cup {<<>>} |->
    [first_cluster_ : IF i = <<>> THEN {2} ELSE FirstClusters, size_ : IF i = <<>> THEN {27} ELSE FileSizes,
     dir_ : IF i = <<>> THEN {FALSE} ELSE BOOLEAN]]
=============================================================================
