---------------------------- MODULE MCFat32Find ----------------------------
(* Fat32Find for TLC, with short names of two characters and an extension  *)
(* of one, and pieces of two characters.                                   *)
EXTENDS Fat32Find

Blank ==
  [e0 |-> 0, rest |-> <<Space, Space>>, attr |-> {}, sum |-> 0, chars |-> <<NUL, NUL>>,
   high |-> 0, low |-> 0, size |-> 0]

Deleted == [Blank EXCEPT !.e0 = 229]

Short(n, low, attr) ==
  [Blank EXCEPT !.e0 = n[1], !.rest = Tail(n), !.attr = attr, !.low = low, !.size = low + 5]

(* "AB.C", "C", and a name that begins with 0xE5.                          *)
ABC == <<65, 66, 67>>
C == <<67, Space, Space>>
E5 == <<5, Space, Space>>

Sum(n) == short_name_checksum(Short(n, 0, {}))

Lfn(seq, last, n, chars) ==
  [Blank EXCEPT !.e0 = seq + (IF last THEN 64 ELSE 0), !.attr = kAttrLfn, !.sum = Sum(n), !.chars = chars]

(* Long names: one directory of four entries in two clusters, the last of  *)
(* them short.  The long name of AB.C is "abc", or 'c' and a character past*)
(* ASCII.                                                                  *)
Shorts == {Short(ABC, 3, {"archive"}), Short(C, 2, {}), Short(E5, 3, {"read_only"})}

Others ==
  {Blank, Deleted, Short(ABC, 2, {"volume_id"}),
   Lfn(2, TRUE, ABC, <<99, 65535>>), Lfn(1, FALSE, ABC, <<97, 98>>), Lfn(1, FALSE, C, <<97, 98>>),
   Lfn(1, TRUE, ABC, <<67, 233>>), Lfn(0, FALSE, ABC, <<99, NUL>>), Lfn(4, TRUE, ABC, <<99, NUL>>)}

OnDisk(entries) == [n \in Lbas |-> <<entries[2 * n + 1], entries[2 * n + 2]>>]

AsFat(f) == [c \in Clusters |-> f[c]]

(* "aBc", "/ab.C//", 'c' and 0xE9, and 0xE5.                               *)
NameLookups ==
  [fat : {AsFat(<<0, 3, 99>>)},
   sectors : {OnDisk(<<a, b, c, d>>) : a, b, c \in Shorts \cup Others, d \in Shorts \ {Short(C, 2, {})}},
   path : {<<97, 66, 99>>, <<Slash, 97, 98, Dot, 67, Slash, Slash>>, <<99, 233, Slash>>, <<229>>}]

(* "c?/", where there is no such name.                                     *)
QuestionLookups == {[l EXCEPT !.path = <<99, Question, Slash>>] : l \in NameLookups}

(* Paths: directories that may lead to each other, a file, and one whose   *)
(* cluster is theirs only in its low half.                                 *)
PathEntries ==
  {Blank, Short(C, 0, {"directory"}), Short(C, 3, {"directory"}), Short(ABC, 2, {"directory"}),
   Short(ABC, 3, {}), [Short(ABC, 3, {"directory"}) EXCEPT !.high = 1]}

(* "/", "C", "AB.C/C", "C//AB.C/", "C/C/AB.C", and one too long.           *)
PathLookups ==
  [fat : {AsFat(f) : f \in {<<0, 99, 99>>, <<0, 99, 3>>, <<0, 3, 99>>, <<0, 3, 2>>}},
   sectors : {OnDisk(<<a, b, c, d>>) : a, b, c \in PathEntries, d \in {Short(C, 3, {"directory"}), Short(ABC, 2, {"directory"})}},
   path : {<<Slash>>, <<67>>, <<65, 66, Dot, 67, Slash, 67>>, <<67, Slash, Slash, 65, 66, Dot, 67, Slash>>,
           <<67, Slash, 67, Slash, 65, 66, Dot, 67>>, <<67, Slash, 67, 67, 67, 67, 67>>}]

MCLookups == NameLookups \cup PathLookups
=============================================================================
