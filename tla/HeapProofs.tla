---------------------------- MODULE HeapProofs ----------------------------
(***************************************************************************)
(* Proofs about Heap: for any arena, alignment and number of cores, and    *)
(* sizes that do not wrap, the blocks tile the arena, every block in use   *)
(* is owned, and the heap is the allocator its header promises.            *)
(***************************************************************************)
EXTENDS Heap, TLAPS, WellFoundedInduction

-----------------------------------------------------------------------------
(* Induction over the naturals, for sets of them.                          *)

(* A set of naturals that is not empty has a least element. *)
LEMMA Least ==
  ASSUME NEW T, T \subseteq Nat, T # {}
  PROVE  \E n \in T : \A m \in T : n <= m
<1> DEFINE R == OpToRel(<, Nat)
<1>1. IsWellFoundedOn(R, Nat)
  BY NatLessThanWellFounded, Zenon
<1>2. \A a, b \in Nat : a < b => <<a, b>> \in R
  BY Zenon DEF OpToRel
<1> HIDE DEF R
<1>3. PICK x \in T : \A y \in T : ~ (<<y, x>> \in R)
  BY <1>1, WFMin, Zenon
<1>4. ASSUME NEW y \in T PROVE x <= y
  <2>1. ~ (y < x)
    BY <1>2, <1>3, Zenon
  <2> QED BY <2>1
<1> QED BY <1>4, Zenon

(* A set with 0 in it and with every successor of its elements holds all   *)
(* naturals.                                                               *)
LEMMA Induction ==
  ASSUME NEW T, 0 \in T, \A n \in Nat : n \in T => n + 1 \in T
  PROVE  \A n \in Nat : n \in T
<1> SUFFICES ASSUME Nat \ T # {} PROVE FALSE
  OBVIOUS
<1>1. PICK n \in Nat \ T : \A m \in Nat \ T : n <= m
  BY Least, Zenon
<1>2. n # 0 /\ n - 1 \in Nat
  BY <1>1
<1>3. n - 1 \in T
  BY <1>1, <1>2
<1> QED BY <1>1, <1>2, <1>3

-----------------------------------------------------------------------------
(* Multiples of the alignment.                                             *)

(* A multiple of m that is smaller than m is none. *)
LEMMA SmallMultiple ==
  ASSUME NEW m \in Nat \ {0}, NEW d \in Int, m * d < m, -m < m * d
  PROVE  d = 0
<1>1. CASE d >= 1
  <2>1. PICK e \in Nat : d = e + 1
    <3>1. d - 1 \in Nat /\ d = (d - 1) + 1
      BY <1>1
    <3> QED BY <3>1, Zenon
  <2>2. m * d = m * e + m /\ m * e \in Nat
    BY <2>1
  <2> QED BY <2>2
<1>2. CASE d <= -1
  <2>1. PICK e \in Nat : d = -1 - e
    <3>1. -1 - d \in Nat /\ d = -1 - (-1 - d)
      BY <1>2
    <3> QED BY <3>1, Zenon
  <2>2. m * d = -m - m * e /\ m * e \in Nat
    BY <2>1
  <2> QED BY <2>2
<1> QED BY <1>1, <1>2

(* What has no remainder is a multiple, and the other way round. *)
LEMMA Multiple ==
  ASSUME NEW m \in Nat \ {0}
  PROVE  /\ \A a \in Int : a % m = 0 => a \div m \in Int /\ a = m * (a \div m)
         /\ \A q \in Int : m * q \in Int /\ (m * q) % m = 0
<1>1. ASSUME NEW a \in Int
      PROVE  a \div m \in Int /\ a % m \in Int /\ 0 <= a % m /\ a % m < m /\ a = m * (a \div m) + (a % m)
  OBVIOUS
<1>2. ASSUME NEW a \in Int, a % m = 0 PROVE a \div m \in Int /\ a = m * (a \div m)
  BY <1>1, <1>2
<1>3. ASSUME NEW q \in Int PROVE m * q \in Int /\ (m * q) % m = 0
  <2> DEFINE a == m * q
             p == a \div m
             r == a % m
  <2>1. a \in Int
    OBVIOUS
  <2>2. p \in Int /\ r \in Int /\ 0 <= r /\ r < m /\ a = m * p + r
    BY <1>1, <2>1, Zenon
  <2>3. m * q = m * p + r
    BY <2>2, Zenon
  <2> HIDE DEF a, p, r
  <2>4. m * (q - p) = r
    BY <2>2, <2>3
  <2>5. q - p = 0
    BY <2>2, <2>4, SmallMultiple
  <2>6. r = 0
    BY <2>4, <2>5
  <2> QED BY <2>1, <2>6, Zenon DEF a, r
<1> QED BY <1>2, <1>3, Zenon

(* Sums and differences of multiples are multiples. *)
LEMMA Multiples ==
  ASSUME NEW m \in Nat \ {0}, NEW a \in Int, NEW b \in Int, a % m = 0, b % m = 0
  PROVE  (a + b) % m = 0 /\ (a - b) % m = 0
<1>1. PICK x \in Int, y \in Int : a = m * x /\ b = m * y
  BY Multiple, Zenon
<1>2. a + b = m * (x + y) /\ a - b = m * (x - y)
  BY <1>1
<1>3. x + y \in Int /\ x - y \in Int
  OBVIOUS
<1> QED BY <1>2, <1>3, Multiple, Zenon

(* Two multiples are at least one apart. *)
LEMMA Apart ==
  ASSUME NEW m \in Nat \ {0}, NEW a \in Int, NEW b \in Int, a % m = 0, b % m = 0, a < b
  PROVE  a + m <= b
<1> SUFFICES ASSUME b < a + m PROVE FALSE
  OBVIOUS
<1>1. PICK x \in Int, y \in Int : a = m * x /\ b = m * y
  BY Multiple, Zenon
<1>2. m * (y - x) = b - a
  BY <1>1
<1>3. y - x = 0
  BY <1>2, SmallMultiple
<1> QED BY <1>2, <1>3

(* Rounding up: what align_up() and the size of a block rest on. *)
LEMMA RoundsUp ==
  ASSUME NEW m \in Nat \ {0}, NEW n \in Nat
  PROVE  LET t == n + m - 1
             r == t - (t % m)
         IN  /\ r \in Nat /\ r % m = 0 /\ n <= r /\ r <= n + m - 1
             /\ \A s \in Int : s % m = 0 /\ n <= s => r <= s
<1> DEFINE t == n + m - 1
           q == t \div m
           r == t - (t % m)
<1>1. t \in Nat /\ q \in Int /\ t % m \in Int /\ 0 <= t % m /\ t % m < m /\ t = m * q + (t % m)
  OBVIOUS
<1>2. r = m * q /\ r \in Int
  BY <1>1
<1>3. r % m = 0
  <2> HIDE DEF t, q, r
  <2> QED BY <1>1, <1>2, Multiple, Zenon
<1>4. n <= r /\ r <= n + m - 1 /\ r \in Nat
  BY <1>1, <1>2
<1>5. ASSUME NEW s \in Int, s % m = 0, n <= s PROVE r <= s
  <2> HIDE DEF r
  <2> SUFFICES ASSUME s < r PROVE FALSE
    BY <1>2
  <2>1. s + m <= r
    BY <1>2, <1>3, <1>5, Apart, Zenon
  <2> QED BY <1>4, <1>5, <2>1
<1> QED BY <1>3, <1>4, <1>5, Zenon

-----------------------------------------------------------------------------
(* Blocks that tile the arena, as a set of headers.                        *)

MemType == [Addr -> [block_size : 0 .. kArenaSize, in_use : BOOLEAN]]

End(m, b) == b + m[b].block_size

Tiles(m, B) ==
  /\ B \subseteq Addr /\ 0 \in B
  /\ \A b \in B :
       /\ m[b].block_size >= kMinBlockSize
       /\ End(m, b) \in B \cup {kArenaSize}
       /\ m[footer_of(m, b)] = m[b]
       /\ \A c \in B : b < c => End(m, b) <= c

(* The alignment and the size of the arena. *)
LEMMA Align == kAlignment \in Nat \ {0} /\ kAlignment \in Int /\ kArenaSize \in Nat /\ kArenaSize >= 2 * kAlignment
BY HeapAssumption

(* The sizes. *)
LEMMA SizesNat == Sizes \subseteq Nat
<1>1. 2^SizeBits \in Nat /\ Sizes \subseteq 0 .. 2^SizeBits - 1
  BY HeapAssumption, Zenon
<1> QED BY <1>1

(* The arena. *)
LEMMA Arena ==
  /\ kAlignment \in Nat \ {0} /\ kAlignment \in Int /\ kAlignment % kAlignment = 0
  /\ kArenaSize \in Nat /\ kArenaSize % kAlignment = 0 /\ kArenaSize >= 2 * kAlignment
  /\ \A a : a \in Addr <=> a \in Int /\ 0 <= a /\ a < kArenaSize /\ a % kAlignment = 0
  /\ 0 \in Addr /\ NULL \notin Int
<1>1. kAlignment \in Nat \ {0} /\ kArenaSize \in Nat /\ kArenaSize % kAlignment = 0 /\ kArenaSize >= 2 * kAlignment
      /\ NULL \notin Int
  BY HeapAssumption, Zenon
<1>2. kAlignment * 1 = kAlignment /\ kAlignment * 0 = 0 /\ 0 \in Int /\ 1 \in Int
  BY <1>1
<1>3. kAlignment % kAlignment = 0 /\ 0 % kAlignment = 0
  BY <1>1, <1>2, Multiple
<1>4. ASSUME NEW a PROVE a \in Addr <=> a \in Int /\ 0 <= a /\ a < kArenaSize /\ a % kAlignment = 0
  <2>1. a \in 0 .. kArenaSize - 1 <=> a \in Int /\ 0 <= a /\ a < kArenaSize
    BY <1>1
  <2> QED BY <2>1, Zenon DEF Addr
<1>5. 0 \in Addr
  BY <1>1, <1>3, <1>4
<1> QED BY <1>1, <1>3, <1>4, <1>5, Align, Zenon

(* What is at an address. *)
LEMMA TagAt ==
  ASSUME NEW m \in MemType, NEW a \in Addr
  PROVE  m[a].block_size \in Nat /\ m[a].block_size <= kArenaSize /\ m[a].in_use \in BOOLEAN
<1>1. m[a] \in [block_size : 0 .. kArenaSize, in_use : BOOLEAN]
  BY Zenon DEF MemType
<1> QED BY <1>1, Arena

(* One block of a tiling. *)
LEMMA BlockFacts ==
  ASSUME NEW m \in MemType, NEW B, Tiles(m, B), NEW b \in B
  PROVE  /\ b \in Addr /\ b \in Nat /\ b < kArenaSize /\ b % kAlignment = 0
         /\ m[b].block_size \in Nat /\ m[b].block_size % kAlignment = 0 /\ m[b].block_size >= 2 * kAlignment
         /\ End(m, b) = b + m[b].block_size /\ End(m, b) \in Nat /\ End(m, b) <= kArenaSize /\ End(m, b) % kAlignment = 0
         /\ footer_of(m, b) \in Addr /\ footer_of(m, b) = End(m, b) - kAlignment
<1> DEFINE n == m[b].block_size
           e == End(m, b)
<1>1. b \in Addr /\ e \in B \cup {kArenaSize} /\ B \subseteq Addr
  BY Zenon DEF Tiles
<1>2. b \in Int /\ 0 <= b /\ b < kArenaSize /\ b % kAlignment = 0
  BY <1>1, Arena, Zenon
<1>3. e \in Int /\ e <= kArenaSize /\ e % kAlignment = 0
  BY <1>1, Arena
<1>4. n \in Nat /\ n >= 2 * kAlignment
  <2>1. n >= kMinBlockSize
    BY Zenon DEF Tiles
  <2> QED BY <1>1, <2>1, TagAt, Zenon DEF kMinBlockSize, kTagSize
<1>5. e = b + n /\ footer_of(m, b) = b + n - kAlignment
  BY Zenon DEF End, footer_of, kTagSize
<1> HIDE DEF n, e
<1>6. n = e - b /\ e \in Nat /\ e - kAlignment >= 0 /\ e - kAlignment < kArenaSize
  BY <1>2, <1>3, <1>4, <1>5, Arena
<1>7. n % kAlignment = 0 /\ (e - kAlignment) % kAlignment = 0
  <2>1. (e - b) % kAlignment = 0 /\ (e - kAlignment) % kAlignment = 0
    BY <1>2, <1>3, Arena, Multiples, Zenon
  <2> QED BY <1>6, <2>1, Zenon
<1>8. footer_of(m, b) = e - kAlignment
  BY <1>2, <1>4, <1>5, Arena
<1>9. e - kAlignment \in Addr
  BY <1>6, <1>7, Arena
<1> QED BY <1>1, <1>2, <1>3, <1>4, <1>5, <1>6, <1>7, <1>8, <1>9 DEF n, e

(* Two blocks of a tiling do not overlap. *)
LEMMA Disjoint ==
  ASSUME NEW m \in MemType, NEW B, Tiles(m, B), NEW b \in B, NEW c \in B, b # c
  PROVE  End(m, b) <= c \/ End(m, c) <= b
<1>1. b \in Nat /\ c \in Nat
  BY BlockFacts, Zenon
<1>2. b < c \/ c < b
  BY <1>1
<1> QED BY <1>2, Zenon DEF Tiles

(* Where an address inside a block, between its tags, lies: on no tag. *)
LEMMA Inside ==
  ASSUME NEW m \in MemType, NEW B, Tiles(m, B), NEW b \in B, NEW a \in Int, b < a, a < footer_of(m, b), NEW c \in B
  PROVE  a # c /\ a # footer_of(m, c)
<1>1. CASE b = c
  BY <1>1, BlockFacts
<1>2. CASE b # c
  <2>1. /\ b \in Nat /\ c \in Nat /\ End(m, b) \in Nat /\ End(m, c) \in Nat /\ kAlignment \in Nat \ {0}
        /\ footer_of(m, b) = End(m, b) - kAlignment /\ footer_of(m, c) = End(m, c) - kAlignment
    BY BlockFacts, Arena, Zenon
  <2>2. End(m, c) >= c + 2 * kAlignment
    BY BlockFacts, Arena
  <2>3. End(m, b) <= c \/ End(m, c) <= b
    BY <1>2, Disjoint, Zenon
  <2> QED BY <2>1, <2>2, <2>3
<1> QED BY <1>1, <1>2, Zenon

(* The block before a block. *)
LEMMA Previous ==
  ASSUME NEW m \in MemType, NEW B, Tiles(m, B), NEW b \in B, b # 0
  PROVE  \E a \in B : End(m, a) = b /\ a < b /\ prev_block(m, b) = a
<1> DEFINE D == {d \in Nat : d > 0 /\ b - d \in B}
<1>0. b \in Nat /\ b < kArenaSize /\ kArenaSize \in Nat
  BY BlockFacts, Arena, Zenon
<1>1. b \in D
  <2>1. b - b = 0 /\ 0 \in B /\ b > 0
    BY <1>0 DEF Tiles
  <2> QED BY <1>0, <2>1, Zenon
<1>2. PICK d \in D : \A x \in D : d <= x
  BY <1>1, Least, Zenon
<1> DEFINE a == b - d
           e == End(m, a)
<1>3. a \in B /\ d \in Nat /\ d > 0
  BY <1>2, Zenon
<1>4. a \in Nat /\ e \in Nat /\ e > a /\ a < b
  <2>1. a \in Nat /\ e \in Nat /\ e = a + m[a].block_size /\ m[a].block_size >= 2 * kAlignment /\ m[a].block_size \in Nat
    BY <1>3, BlockFacts, Zenon
  <2> QED BY <1>0, <1>3, <2>1, Arena
<1>5. e \in B \cup {kArenaSize} /\ e <= b
  BY <1>3, <1>4, Zenon DEF Tiles
<1>6. e \in B
  BY <1>0, <1>4, <1>5
<1>7. e = b
  <2> SUFFICES ASSUME e < b PROVE FALSE
    BY <1>0, <1>4, <1>5
  <2> HIDE DEF a, e
  <2>1. b - e \in Nat /\ b - e > 0 /\ b - (b - e) = e
    BY <1>0, <1>4
  <2>2. b - e \in D
    BY <1>6, <2>1, Zenon
  <2>3. d <= b - e
    BY <1>2, <2>2, Zenon
  <2> QED BY <1>0, <1>3, <1>4, <2>3 DEF a
<1>8. m[b - kTagSize] = m[a]
  <2>1. footer_of(m, a) = b - kTagSize
    BY <1>3, <1>7, BlockFacts, Zenon DEF kTagSize
  <2> QED BY <1>3, <2>1, Zenon DEF Tiles
<1>9. prev_block(m, b) = a
  <2>1. prev_block(m, b) = b - m[a].block_size
    BY <1>8, Zenon DEF prev_block
  <2>2. b = a + m[a].block_size /\ m[a].block_size \in Nat
    BY <1>3, <1>7, BlockFacts, Zenon DEF End
  <2> HIDE DEF a
  <2> QED BY <1>4, <2>1, <2>2
<1> QED BY <1>3, <1>4, <1>7, <1>9, Zenon

(* The block after a block. *)
LEMMA Following ==
  ASSUME NEW m \in MemType, NEW B, Tiles(m, B), NEW b \in B
  PROVE  \/ End(m, b) = kArenaSize /\ next_block(m, b) = NULL
         \/ End(m, b) \in B /\ End(m, b) < kArenaSize /\ next_block(m, b) = End(m, b)
<1>1. next_block(m, b) = IF End(m, b) < kArenaSize THEN End(m, b) ELSE NULL
  BY Zenon DEF next_block, End
<1>2. End(m, b) \in B \cup {kArenaSize}
  BY Zenon DEF Tiles
<1>3. CASE End(m, b) = kArenaSize
  BY <1>1, <1>3, Arena
<1>4. CASE End(m, b) \in B
  BY <1>1, <1>4, BlockFacts, Zenon
<1> QED BY <1>2, <1>3, <1>4, Zenon

-----------------------------------------------------------------------------
(* How write_tags() changes a tiling.                                      *)

(* The addresses of the tags. *)
Tags(m, B) == B \cup {footer_of(m, b) : b \in B}

(* The blocks from lo to hi are replaced by the blocks N. *)
Patch(m, w, B, lo, hi, N) ==
  /\ lo \in B /\ hi \in B \cup {kArenaSize} /\ lo < hi
  /\ \A a \in Addr : a < lo \/ hi <= a => w[a] = m[a]
  /\ lo \in N
  /\ \A b \in N :
       /\ b \in Addr /\ lo <= b /\ b < hi
       /\ w[b].block_size >= kMinBlockSize
       /\ End(w, b) \in N \cup {hi}
       /\ w[footer_of(w, b)] = w[b]
       /\ \A c \in N : b < c => End(w, b) <= c

Patched(B, lo, hi, N) == {c \in B : c < lo \/ hi <= c} \cup N

(* What is left of a tiling when some of its blocks are replaced. *)
LEMMA Kept ==
  ASSUME NEW m \in MemType, NEW B, Tiles(m, B), NEW w \in MemType, NEW lo, NEW hi, NEW N, Patch(m, w, B, lo, hi, N),
         NEW c \in B, c < lo \/ hi <= c
  PROVE  /\ w[c] = m[c] /\ End(w, c) = End(m, c) /\ footer_of(w, c) = footer_of(m, c)
         /\ w[footer_of(m, c)] = m[footer_of(m, c)]
         /\ c < lo => End(m, c) <= lo
<1>1. lo \in B /\ \A a \in Addr : a < lo \/ hi <= a => w[a] = m[a]
  BY Zenon DEF Patch
<1>2. /\ c \in Addr /\ c \in Nat /\ footer_of(m, c) \in Addr /\ footer_of(m, c) = End(m, c) - kAlignment
      /\ End(m, c) = c + m[c].block_size /\ m[c].block_size \in Nat /\ m[c].block_size >= 2 * kAlignment
  BY BlockFacts, Zenon
<1>3. w[c] = m[c]
  BY <1>1, <1>2, Zenon
<1>4. End(w, c) = End(m, c) /\ footer_of(w, c) = footer_of(m, c)
  BY <1>3, Zenon DEF End, footer_of
<1>5. c < lo => End(m, c) <= lo
  BY <1>1, Zenon DEF Tiles
<1>6. lo \in Nat /\ hi \in Nat
  <2>1. lo \in Nat
    BY <1>1, BlockFacts, Zenon
  <2>2. CASE hi = kArenaSize
    BY <2>1, <2>2, Arena, Zenon
  <2>3. CASE hi \in B
    BY <2>1, <2>3, BlockFacts, Zenon
  <2> QED BY <2>2, <2>3, Zenon DEF Patch
<1>7. footer_of(m, c) < lo \/ hi <= footer_of(m, c)
  BY <1>2, <1>5, <1>6, Arena
<1> QED BY <1>1, <1>2, <1>3, <1>4, <1>5, <1>7, Zenon

TilesKept(m, w, B, B2, N) == Tiles(w, B2) /\ \A c \in B2 : c \notin N => c \in B /\ w[c] = m[c]

(* Blocks replaced by blocks that fill the same room give a tiling. *)
LEMMA PatchTiles ==
  ASSUME NEW m \in MemType, NEW B, Tiles(m, B), NEW w \in MemType, NEW lo, NEW hi, NEW N, Patch(m, w, B, lo, hi, N)
  PROVE  TilesKept(m, w, B, Patched(B, lo, hi, N), N)
<1> DEFINE B2 == Patched(B, lo, hi, N)
<1>1. \A c : c \in B2 <=> (c \in B /\ (c < lo \/ hi <= c)) \/ c \in N
  BY Zenon DEF Patched
<1>2. lo \in B /\ lo \in N /\ hi \in B \cup {kArenaSize} /\ lo < hi
  BY Zenon DEF Patch
<1>3. lo \in Nat /\ hi \in Nat /\ hi <= kArenaSize
  <2>1. lo \in Nat
    BY <1>2, BlockFacts, Zenon
  <2>2. CASE hi = kArenaSize
    BY <2>1, <2>2, Arena
  <2>3. CASE hi \in B
    BY <2>1, <2>3, BlockFacts, Arena
  <2> QED BY <1>2, <2>2, <2>3, Zenon
<1>4. ASSUME NEW c \in B, c < lo \/ hi <= c
      PROVE  /\ w[c] = m[c] /\ End(w, c) = End(m, c) /\ footer_of(w, c) = footer_of(m, c)
             /\ w[footer_of(m, c)] = m[footer_of(m, c)]
             /\ c < lo => End(m, c) <= lo
  BY <1>4, Kept, Zenon
<1>5. ASSUME NEW b \in N
      PROVE  /\ b \in Addr /\ lo <= b /\ b < hi
             /\ w[b].block_size >= kMinBlockSize
             /\ End(w, b) \in N \cup {hi}
             /\ w[footer_of(w, b)] = w[b]
             /\ \A c \in N : b < c => End(w, b) <= c
  BY Zenon DEF Patch
<1>6. /\ B \subseteq Addr /\ 0 \in B
      /\ \A b \in B : /\ m[b].block_size >= kMinBlockSize
                      /\ End(m, b) \in B \cup {kArenaSize}
                      /\ m[footer_of(m, b)] = m[b]
                      /\ \A c \in B : b < c => End(m, b) <= c
  BY Zenon DEF Tiles
<1>7. B2 \subseteq Addr
  BY <1>1, <1>5, <1>6, Zenon
<1>8. 0 \in B2
  <2>1. CASE lo = 0
    BY <1>1, <1>2, <2>1, Zenon
  <2>2. CASE lo # 0
    <3>1. 0 < lo
      BY <1>3, <2>2
    <3> QED BY <1>1, <1>6, <3>1, Zenon
  <2> QED BY <2>1, <2>2, Zenon
<1>9. ASSUME NEW b \in B2
      PROVE  w[b].block_size >= kMinBlockSize /\ w[footer_of(w, b)] = w[b] /\ End(w, b) \in B2 \cup {kArenaSize}
  <2>1. CASE b \in N
    <3>1. w[b].block_size >= kMinBlockSize /\ w[footer_of(w, b)] = w[b] /\ End(w, b) \in N \cup {hi}
      BY <1>5, <2>1, Zenon
    <3>2. hi <= hi
      BY <1>3
    <3> QED BY <1>1, <1>2, <3>1, <3>2, Zenon
  <2>2. CASE b \in B /\ (b < lo \/ hi <= b)
    <3>1. /\ w[b] = m[b] /\ End(w, b) = End(m, b) /\ footer_of(w, b) = footer_of(m, b)
          /\ w[footer_of(m, b)] = m[footer_of(m, b)]
          /\ b < lo => End(m, b) <= lo
      BY <1>4, <2>2, Zenon
    <3>2. m[b].block_size >= kMinBlockSize /\ End(m, b) \in B \cup {kArenaSize} /\ m[footer_of(m, b)] = m[b]
      BY <1>6, <2>2, Zenon
    <3>3. b \in Nat /\ End(m, b) = b + m[b].block_size /\ m[b].block_size \in Nat
      BY <2>2, BlockFacts, Zenon
    <3>4. End(m, b) < lo \/ End(m, b) = lo \/ hi <= End(m, b)
      BY <1>3, <2>2, <3>1, <3>3
    <3> QED BY <1>1, <1>2, <3>1, <3>2, <3>4, Zenon
  <2> QED BY <1>1, <2>1, <2>2, Zenon
<1>10. ASSUME NEW b \in B2, NEW c \in B2, b < c PROVE End(w, b) <= c
  <2>0. b \in Nat /\ c \in Nat
    BY <1>7, Arena
  <2>1. CASE b \in N /\ c \in N
    BY <1>5, <1>10, <2>1, Zenon
  <2>2. CASE b \in N /\ c \in B /\ (c < lo \/ hi <= c)
    <3>1. lo <= b /\ b < hi /\ End(w, b) \in N \cup {hi}
      BY <1>5, <2>2, Zenon
    <3>2. hi <= c
      BY <1>3, <1>10, <2>0, <2>2, <3>1
    <3>3. CASE End(w, b) = hi
      BY <3>2, <3>3, Zenon
    <3>4. CASE End(w, b) \in N
      <4>1. End(w, b) \in Nat /\ End(w, b) < hi
        BY <1>5, <3>4, Arena
      <4> QED BY <1>3, <2>0, <3>2, <4>1
    <3> QED BY <3>1, <3>3, <3>4, Zenon
  <2>3. CASE b \in B /\ (b < lo \/ hi <= b) /\ c \in N
    <3>1. lo <= c /\ c < hi
      BY <1>5, <2>3, Zenon
    <3>2. b < lo
      BY <1>3, <1>10, <2>0, <2>3, <3>1
    <3>3. End(w, b) = End(m, b) /\ End(m, b) <= lo /\ End(m, b) \in Nat
      BY <1>4, <2>3, <3>2, BlockFacts, Zenon
    <3> QED BY <1>3, <2>0, <3>1, <3>3
  <2>4. CASE b \in B /\ (b < lo \/ hi <= b) /\ c \in B
    BY <1>4, <1>6, <1>10, <2>4, Zenon
  <2> QED BY <1>1, <2>1, <2>2, <2>3, <2>4, Zenon
<1>11. Tiles(w, B2)
  BY <1>7, <1>8, <1>9, <1>10, Zenon DEF Tiles
<1>12. ASSUME NEW c \in B2, c \notin N PROVE c \in B /\ w[c] = m[c]
  BY <1>1, <1>4, <1>12, Zenon
<1> QED BY <1>11, <1>12, Zenon DEF TilesKept

(* Two tags have been written, and nothing else. *)
Tagged(m, w, lo, n, u) ==
  LET f == lo + n - kAlignment IN
  /\ w \in MemType /\ f \in Addr /\ lo < f
  /\ w[lo] = Tag(n, u) /\ w[f] = Tag(n, u)
  /\ End(w, lo) = lo + n /\ footer_of(w, lo) = f
  /\ w[lo].block_size = n /\ w[lo].in_use = u
  /\ \A a \in Addr : a # lo /\ a # f => w[a] = m[a]

(* What write_tags() writes. *)
LEMMA WriteTags ==
  ASSUME NEW m \in MemType, NEW lo \in Addr, NEW n \in Nat, n % kAlignment = 0, n >= 2 * kAlignment,
         lo + n <= kArenaSize, NEW u \in BOOLEAN
  PROVE  Tagged(m, write_tags(m, lo, n, u), lo, n, u)
<1> DEFINE w == write_tags(m, lo, n, u)
           f == lo + n - kAlignment
           h == [m EXCEPT ![lo] = Tag(n, u)]
           T == [block_size : 0 .. kArenaSize, in_use : BOOLEAN]
<1>1. lo \in Int /\ 0 <= lo /\ lo < kArenaSize /\ lo % kAlignment = 0
  BY Arena, Zenon
<1>2. f \in Int /\ 0 <= f /\ f < kArenaSize /\ lo < f
  BY <1>1, Arena
<1>3. f % kAlignment = 0
  <2>1. n - kAlignment \in Int /\ n \in Int
    BY Align
  <2>2. (n - kAlignment) % kAlignment = 0
    BY <2>1, Arena, Multiples, Zenon
  <2> QED BY <1>1, <2>1, <2>2, Arena, Multiples, Zenon
<1>4. f \in Addr /\ lo # f
  <2>1. f \in Addr
    BY <1>2, <1>3, Arena, Zenon
  <2> QED BY <1>1, <1>2, <2>1
<1>5. Tag(n, u) \in T /\ Tag(n, u).block_size = n /\ Tag(n, u).in_use = u
  <2>1. n \in 0 .. kArenaSize
    BY <1>1, Arena
  <2> QED BY <2>1, Zenon DEF Tag
<1>6. h[lo].block_size = n
  <2>1. lo \in DOMAIN m
    BY Zenon DEF MemType
  <2> QED BY <1>5, <2>1, Zenon
<1>7. footer_of(h, lo) = f
  BY <1>6, Zenon DEF footer_of, kTagSize
<1>8. w = [h EXCEPT ![f] = Tag(n, u)]
  BY <1>7, Zenon DEF write_tags
<1> HIDE DEF f, T
<1>9. h \in [Addr -> T] /\ h[lo] = Tag(n, u) /\ \A a \in Addr : a # lo => h[a] = m[a]
  <2>1. m \in [Addr -> T]
    BY Zenon DEF MemType, T
  <2> QED BY <1>5, <2>1, Zenon
<1> HIDE DEF h
<1>10. w \in [Addr -> T] /\ w[f] = Tag(n, u) /\ \A a \in Addr : a # f => w[a] = h[a]
  BY <1>4, <1>5, <1>8, <1>9, Zenon
<1> HIDE DEF w
<1>11. w[lo] = Tag(n, u) /\ \A a \in Addr : a # lo /\ a # f => w[a] = m[a]
  BY <1>4, <1>9, <1>10, Zenon
<1>12. w[lo].block_size = n /\ w[lo].in_use = u
  BY <1>5, <1>11, Zenon
<1>13. End(w, lo) = lo + n /\ footer_of(w, lo) = f
  BY <1>12, Zenon DEF End, footer_of, kTagSize, f
<1>14. w \in MemType
  BY <1>10, Zenon DEF MemType, T
<1> QED BY <1>2, <1>4, <1>10, <1>11, <1>12, <1>13, <1>14, Zenon DEF Tagged, f, w

(* The blocks from lo on, n bytes of them, are one now, and nothing but    *)
(* its tags has changed.                                                   *)
JoinedTo(m, w, B, B2, lo, n, u) ==
  /\ w \in MemType /\ Tiles(w, B2)
  /\ w[lo].block_size = n /\ w[lo].in_use = u
  /\ \A c \in B2 : c # lo => w[c] = m[c]
  /\ \A a \in Addr \ Tags(w, B2) : w[a] = m[a]

(* Tags written round a block, or round several blocks in a row. *)
LEMMA Joined ==
  ASSUME NEW m \in MemType, NEW B, Tiles(m, B), NEW lo \in B, NEW n \in Nat, n >= 2 * kAlignment,
         lo + n \in B \cup {kArenaSize}, NEW u \in BOOLEAN
  PROVE  JoinedTo(m, write_tags(m, lo, n, u), B, {c \in B : c <= lo \/ lo + n <= c}, lo, n, u)
<1> DEFINE w  == write_tags(m, lo, n, u)
           hi == lo + n
           f  == lo + n - kAlignment
           N  == {lo}
           B2 == {c \in B : c <= lo \/ lo + n <= c}
<1>1. lo \in Addr /\ lo \in Nat /\ lo < kArenaSize /\ lo % kAlignment = 0
  BY BlockFacts, Zenon
<1>2. hi \in Nat /\ hi <= kArenaSize /\ hi % kAlignment = 0
  <2>1. CASE hi = kArenaSize
    BY <2>1, Arena
  <2>2. CASE hi \in B
    BY <2>2, BlockFacts, Arena
  <2> QED BY <2>1, <2>2, Zenon
<1>3. n % kAlignment = 0
  <2>1. hi - lo = n /\ hi \in Int /\ lo \in Int
    BY <1>1
  <2> HIDE DEF hi
  <2>2. (hi - lo) % kAlignment = 0
    BY <1>1, <1>2, <2>1, Arena, Multiples, Zenon
  <2> QED BY <2>1, <2>2, Zenon
<1>4. /\ w \in MemType /\ f \in Addr /\ lo < f
      /\ w[lo] = Tag(n, u) /\ w[f] = Tag(n, u)
      /\ End(w, lo) = hi /\ footer_of(w, lo) = f
      /\ w[lo].block_size = n /\ w[lo].in_use = u
      /\ \A a \in Addr : a # lo /\ a # f => w[a] = m[a]
  <2>1. Tagged(m, w, lo, n, u)
    BY <1>1, <1>2, <1>3, WriteTags, Zenon
  <2> QED BY <2>1, Zenon DEF Tagged
<1> HIDE DEF w
<1>5. ASSUME NEW a \in Addr, a < lo \/ hi <= a PROVE a # lo /\ a # f
  <2>1. a \in Nat
    BY Arena
  <2> QED BY <1>1, <1>5, <2>1, Arena
<1>6. lo < hi /\ lo <= lo /\ ~ (lo < lo)
  BY <1>1, Arena
<1>7. w[lo].block_size >= kMinBlockSize
  BY <1>4, Arena, Zenon DEF kMinBlockSize, kTagSize
<1> HIDE DEF hi, f
<1>8. Patch(m, w, B, lo, hi, N)
  <2>1. hi \in B \cup {kArenaSize}
    BY Zenon DEF hi
  <2>2. \A a \in Addr : a < lo \/ hi <= a => w[a] = m[a]
    BY <1>4, <1>5, Zenon
  <2>3. w[footer_of(w, lo)] = w[lo]
    BY <1>4, Zenon
  <2> QED BY <1>1, <1>4, <1>6, <1>7, <2>1, <2>2, <2>3, Zenon DEF Patch
<1>9. Tiles(w, Patched(B, lo, hi, N)) /\ \A c \in Patched(B, lo, hi, N) : c \notin N => c \in B /\ w[c] = m[c]
  <2>1. w \in MemType
    BY <1>4, Zenon
  <2> HIDE DEF N
  <2>2. TilesKept(m, w, B, Patched(B, lo, hi, N), N)
    BY <1>8, <2>1, PatchTiles, Zenon
  <2> QED BY <2>2, Zenon DEF TilesKept
<1>10. Patched(B, lo, hi, N) = B2
  <2>1. ASSUME NEW c \in B PROVE c < lo \/ hi <= c \/ c = lo <=> c <= lo \/ hi <= c
    <3>1. c \in Nat
      BY BlockFacts, Zenon
    <3> QED BY <1>1, <1>2, <3>1
  <2>2. \A c : c \in B2 <=> c \in B /\ (c <= lo \/ hi <= c)
    BY Zenon DEF hi
  <2> HIDE DEF B2
  <2> QED BY <2>1, <2>2, Zenon DEF Patched
<1>11. lo \in B2
  BY <1>6, Zenon
<1>12. \A a \in Addr \ Tags(w, B2) : w[a] = m[a]
  <2> HIDE DEF B2
  <2> SUFFICES ASSUME NEW a \in Addr, a \notin Tags(w, B2) PROVE w[a] = m[a]
    BY Zenon
  <2>1. a # lo /\ a # f
    BY <1>4, <1>11, Zenon DEF Tags
  <2> QED BY <1>4, <2>1, Zenon
<1>13. \A c \in B2 : c # lo => w[c] = m[c]
  BY <1>9, <1>10, Zenon
<1>14. JoinedTo(m, w, B, B2, lo, n, u)
  BY <1>4, <1>9, <1>10, <1>12, <1>13, Zenon DEF JoinedTo
<1> QED BY <1>14, Zenon DEF w

(* A block is two now, the first n bytes long, and nothing but their tags  *)
(* has changed.                                                            *)
SplitTo(m, w, B, b, n) ==
  LET x  == b + n
      B2 == B \cup {x}
  IN  /\ x \notin B
      /\ w \in MemType /\ Tiles(w, B2)
      /\ w[b].block_size = n /\ w[b].in_use = TRUE
      /\ w[x].block_size = m[b].block_size - n /\ w[x].in_use = FALSE
      /\ \A c \in B : c # b => w[c] = m[c]
      /\ \A a \in Addr \ Tags(w, B2) : w[a] = m[a]

(* Tags written round the first n bytes of a block and round the rest. *)
LEMMA Splits ==
  ASSUME NEW m \in MemType, NEW B, Tiles(m, B), NEW b \in B, NEW n \in Nat, n >= 2 * kAlignment, n % kAlignment = 0,
         m[b].block_size - n >= 2 * kAlignment
  PROVE  LET v == write_tags(m, b, n, TRUE) IN
         /\ next_block(v, b) = b + n
         /\ SplitTo(m, write_tags(v, b + n, m[b].block_size - n, FALSE), B, b, n)
<1> DEFINE r  == m[b].block_size - n
           v  == write_tags(m, b, n, TRUE)
           x  == b + n
           w  == write_tags(v, x, r, FALSE)
           B2 == B \cup {x}
           hi == End(m, b)
           f  == b + n - kAlignment
           g  == x + r - kAlignment
           N  == {b, x}
<1>1. /\ b \in Addr /\ b \in Nat /\ b < kArenaSize /\ b % kAlignment = 0
      /\ m[b].block_size \in Nat /\ m[b].block_size % kAlignment = 0
      /\ hi = b + m[b].block_size /\ hi \in Nat /\ hi <= kArenaSize
  BY BlockFacts
<1>2. /\ r \in Nat /\ r >= 2 * kAlignment /\ x \in Nat /\ x + r = hi /\ x < kArenaSize
      /\ b + n <= kArenaSize /\ x + r <= kArenaSize
      /\ b < f /\ f < x /\ x < g /\ g < hi /\ b < x /\ x < hi
  BY <1>1, Align
<1>3. r % kAlignment = 0 /\ x % kAlignment = 0
  <2>1. m[b].block_size \in Int /\ n \in Int /\ b \in Int
    BY <1>1
  <2> QED BY <1>1, <2>1, Arena, Multiples, Zenon
<1>4. x \in Addr
  BY <1>2, <1>3, Arena
<1>5. /\ v \in MemType /\ f \in Addr
      /\ v[b] = Tag(n, TRUE) /\ v[f] = Tag(n, TRUE)
      /\ End(v, b) = x
      /\ v[b].block_size = n /\ v[b].in_use = TRUE
      /\ \A a \in Addr : a # b /\ a # f => v[a] = m[a]
  <2>1. TRUE \in BOOLEAN
    OBVIOUS
  <2>2. Tagged(m, v, b, n, TRUE)
    BY <1>1, <1>2, <2>1, WriteTags, Zenon
  <2> HIDE DEF v
  <2> QED BY <2>2, Zenon DEF Tagged
<1>6. next_block(v, b) = x
  <2>1. b + v[b].block_size = x
    BY <1>5, Zenon DEF End
  <2> QED BY <1>2, <2>1, Zenon DEF next_block
<1> HIDE DEF v
<1>7. /\ w \in MemType /\ g \in Addr
      /\ w[x] = Tag(r, FALSE) /\ w[g] = Tag(r, FALSE)
      /\ End(w, x) = x + r /\ footer_of(w, x) = g
      /\ w[x].block_size = r /\ w[x].in_use = FALSE
      /\ \A a \in Addr : a # x /\ a # g => w[a] = v[a]
  <2>1. FALSE \in BOOLEAN
    OBVIOUS
  <2>2. Tagged(v, w, x, r, FALSE)
    BY <1>2, <1>3, <1>4, <1>5, <2>1, WriteTags, Zenon
  <2> HIDE DEF w
  <2> QED BY <2>2, Zenon DEF Tagged
<1> HIDE DEF w, r
<1>8. b \in Nat /\ f \in Int /\ g \in Int /\ x \in Nat /\ hi \in Nat
  BY <1>1, <1>2, <1>5, <1>7, Arena, Zenon
<1>8a. b < f /\ f < x /\ x < g /\ g < hi /\ x + r = hi
  BY <1>2, Zenon
<1> HIDE DEF x, f, g, hi
<1>9. b # x /\ b # g /\ f # x /\ f # g /\ b < x /\ b <= b /\ b < hi /\ b <= x /\ x < hi /\ ~ (b < b) /\ ~ (x < x) /\ ~ (x < b) /\ x <= x
  BY <1>8, <1>8a
<1>10. w[b] = Tag(n, TRUE) /\ w[f] = Tag(n, TRUE) /\ w[b].block_size = n /\ w[b].in_use = TRUE
  <2>1. w[b] = v[b] /\ w[f] = v[f]
    BY <1>1, <1>5, <1>7, <1>9, Zenon
  <2> QED BY <1>5, <2>1, Zenon
<1>11. End(w, b) = x /\ footer_of(w, b) = f
  BY <1>10, Zenon DEF End, footer_of, kTagSize, x, f
<1>12. ASSUME NEW a \in Addr, a < b \/ hi <= a PROVE w[a] = m[a]
  <2>1. a \in Nat
    BY Arena
  <2>2. a # b /\ a # f /\ a # x /\ a # g
    BY <1>8, <1>8a, <1>12, <2>1
  <2> QED BY <1>5, <1>7, <2>2, Zenon
<1>13. n >= kMinBlockSize /\ r >= kMinBlockSize
  BY <1>2, Arena DEF kMinBlockSize, kTagSize
<1>14. Patch(m, w, B, b, hi, N)
  <2>1. hi \in B \cup {kArenaSize}
    BY Zenon DEF Tiles, hi
  <2>2. \A a \in Addr : a < b \/ hi <= a => w[a] = m[a]
    BY <1>12, Zenon
  <2>3. w[footer_of(w, b)] = w[b] /\ w[footer_of(w, x)] = w[x] /\ End(w, x) = hi /\ End(w, b) <= x
    BY <1>7, <1>8a, <1>9, <1>10, <1>11, Zenon
  <2>4. w[b].block_size >= kMinBlockSize /\ w[x].block_size >= kMinBlockSize
    BY <1>7, <1>10, <1>13, Zenon
  <2> QED BY <1>1, <1>4, <1>9, <1>11, <2>1, <2>2, <2>3, <2>4, Zenon DEF Patch
<1>15. /\ Tiles(w, Patched(B, b, hi, N))
       /\ \A c \in Patched(B, b, hi, N) : c \notin N => c \in B /\ w[c] = m[c]
  <2>1. w \in MemType
    BY <1>7, Zenon
  <2> HIDE DEF N
  <2>2. TilesKept(m, w, B, Patched(B, b, hi, N), N)
    BY <1>14, <2>1, PatchTiles, Zenon
  <2> QED BY <2>2, Zenon DEF TilesKept
<1>16. ASSUME NEW c \in B, c # b PROVE c < b \/ hi <= c
  <2>1. c \in Nat /\ End(m, c) = c + m[c].block_size /\ m[c].block_size >= 2 * kAlignment /\ m[c].block_size \in Nat
    BY BlockFacts, Zenon
  <2>2. End(m, b) <= c \/ End(m, c) <= b
    BY <1>16, Disjoint, Zenon
  <2> QED BY <1>8, <2>1, <2>2, Arena DEF hi
<1>17. x \notin B
  <2> SUFFICES ASSUME x \in B PROVE FALSE
    BY Zenon
  <2>1. x < b \/ hi <= x
    BY <1>9, <1>16, Zenon
  <2> QED BY <1>8, <1>8a, <2>1
<1>18. Patched(B, b, hi, N) = B2
  BY <1>16, Zenon DEF Patched
<1>19. ASSUME NEW c \in B, c # b PROVE w[c] = m[c]
  BY <1>15, <1>17, <1>18, <1>19, Zenon
<1>20. \A a \in Addr \ Tags(w, B2) : w[a] = m[a]
  <2> SUFFICES ASSUME NEW a \in Addr, a \notin Tags(w, B2) PROVE w[a] = m[a]
    BY Zenon
  <2>1. a # b /\ a # f /\ a # x /\ a # g
    BY <1>7, <1>11, Zenon DEF Tags
  <2> QED BY <1>5, <1>7, <2>1, Zenon
<1>21. w[x].block_size = m[b].block_size - n
  BY <1>7, Zenon DEF r
<1>22. SplitTo(m, w, B, b, n)
  BY <1>7, <1>10, <1>15, <1>17, <1>18, <1>19, <1>20, <1>21, Zenon DEF SplitTo, x
<1> QED BY <1>6, <1>22, Zenon DEF w, v, r, x

-----------------------------------------------------------------------------
(* The walk over the headers.                                              *)

Jump(h) == IF h \in Addr THEN h + mem[h].block_size ELSE h

(* The places fill the arena. *)
LEMMA PlacesFill == Places \in Nat /\ Places * kAlignment = kArenaSize
<1>1. Places \in Int /\ kArenaSize = kAlignment * Places
  BY Arena, Align, Multiple DEF Places, kTagSize
<1>2. Places >= 0
  <2> SUFFICES ASSUME Places <= -1 PROVE FALSE
    BY <1>1
  <2>1. PICK d \in Nat : Places = -1 - d
    <3>1. -1 - Places \in Nat /\ Places = -1 - (-1 - Places)
      BY <1>1
    <3> QED BY <3>1, Zenon
  <2>2. kArenaSize = -kAlignment - kAlignment * d /\ kAlignment * d \in Nat
    BY <1>1, <2>1, Align
  <2> QED BY <2>2, Align
<1> QED BY <1>1, <1>2, Align

(* A jump ends at a number. *)
LEMMA JumpType ==
  ASSUME mem \in MemType, NEW h \in Nat
  PROVE  Jump(h) \in Nat
<1>1. CASE h \in Addr
  BY <1>1, TagAt DEF Jump
<1> QED BY <1>1, Zenon DEF Jump

(* There is a function that takes the walk. *)
LEMMA WalkExists ==
  ASSUME mem \in MemType, NEW n \in Nat
  PROVE  \E f : f = [i \in 0 .. n |-> IF i = 0 THEN 0 ELSE Jump(f[i - 1])]
<1> DEFINE Good(k, f) == f[0] = 0 /\ \A i \in 1 .. k : f[i] = Jump(f[i - 1])
           T == {k \in Nat : \E f \in [0 .. k -> Nat] : Good(k, f)}
<1>1. 0 \in T
  <2> DEFINE f == [i \in 0 .. 0 |-> 0]
  <2>1. f \in [0 .. 0 -> Nat] /\ Good(0, f)
    OBVIOUS
  <2> QED BY <2>1, Zenon
<1>2. ASSUME NEW k \in Nat, k \in T PROVE k + 1 \in T
  <2>1. PICK f \in [0 .. k -> Nat] : Good(k, f)
    BY <1>2, Zenon
  <2> DEFINE g == [i \in 0 .. k + 1 |-> IF i = k + 1 THEN Jump(f[k]) ELSE f[i]]
  <2>2. g \in [0 .. k + 1 -> Nat]
    <3> SUFFICES ASSUME NEW i \in 0 .. k + 1 PROVE g[i] \in Nat
      OBVIOUS
    <3>1. f[k] \in Nat
      OBVIOUS
    <3>2. Jump(f[k]) \in Nat
      BY <3>1, JumpType, Zenon
    <3> QED BY <3>2
  <2>3. g[0] = 0
    BY <2>1
  <2>4. ASSUME NEW i \in 1 .. k + 1 PROVE g[i] = Jump(g[i - 1])
    <3>1. g[i - 1] = f[i - 1]
      OBVIOUS
    <3>2. g[i] = Jump(f[i - 1])
      BY <2>1
    <3> QED BY <3>1, <3>2, Zenon
  <2>5. k + 1 \in Nat
    OBVIOUS
  <2> HIDE DEF g
  <2> QED BY <2>2, <2>3, <2>4, <2>5, Zenon
<1> HIDE DEF T
<1>3. n \in T
  BY <1>1, <1>2, Induction, Zenon
<1>4. PICK f \in [0 .. n -> Nat] : Good(n, f)
  BY <1>3, Zenon DEF T
<1>5. f = [i \in 0 .. n |-> IF i = 0 THEN 0 ELSE Jump(f[i - 1])]
  BY <1>4
<1> QED BY <1>5, Zenon

(* Header solves the recursion that defines it. *)
LEMMA HeaderRec ==
  ASSUME mem \in MemType
  PROVE  Header = [i \in 0 .. Places |-> IF i = 0 THEN 0 ELSE Jump(Header[i - 1])]
<1>1. \E f : f = [i \in 0 .. Places |-> IF i = 0 THEN 0 ELSE Jump(f[i - 1])]
  BY WalkExists, PlacesFill, Zenon
<1> QED BY <1>1, Zenon DEF Header, Jump

(* The walk from one header to the next. *)
LEMMA HeaderDef ==
  ASSUME mem \in MemType
  PROVE  /\ DOMAIN Header = 0 .. Places
         /\ Header[0] = 0
         /\ \A i \in 0 .. Places - 1 : Header[i + 1] = Jump(Header[i])
<1>0. Places \in Nat
  BY PlacesFill, Zenon
<1>1. DOMAIN Header = 0 .. Places
  BY HeaderRec, Zenon
<1>2. Header[0] = 0
  BY <1>0, HeaderRec
<1>3. ASSUME NEW i \in 0 .. Places - 1 PROVE Header[i + 1] = Jump(Header[i])
  <2>1. i + 1 \in 0 .. Places /\ i + 1 # 0 /\ i + 1 - 1 = i
    BY <1>0
  <2> QED BY <2>1, HeaderRec
<1> QED BY <1>1, <1>2, <1>3, Zenon

(* The walk over a tiled arena goes from block to block. *)
LEMMA WalkStep ==
  ASSUME mem \in MemType, NEW B, Tiles(mem, B)
  PROVE  /\ kArenaSize \notin B
         /\ \A i \in 0 .. Places : Header[i] \in B \cup {kArenaSize}
         /\ \A i \in 0 .. Places - 1 :
              /\ Header[i] \in B => Header[i + 1] = End(mem, Header[i])
              /\ Header[i] = kArenaSize => Header[i + 1] = kArenaSize
<1> DEFINE N == Places
           T == {i \in Nat : i <= N => Header[i] \in B \cup {kArenaSize}}
<1>0. N \in Nat
  BY PlacesFill, Zenon
<1>1. kArenaSize \notin Addr /\ B \subseteq Addr /\ 0 \in B
  <2>1. ~ (kArenaSize < kArenaSize)
    BY Arena
  <2> QED BY <2>1, Arena, Zenon DEF Tiles
<1>2. ASSUME NEW i \in 0 .. N - 1
      PROVE  /\ Header[i] \in B => Header[i + 1] = End(mem, Header[i])
             /\ Header[i] = kArenaSize => Header[i + 1] = kArenaSize
  <2>1. Header[i + 1] = Jump(Header[i])
    BY HeaderDef, Zenon
  <2> QED BY <1>1, <2>1, Zenon DEF Jump, End
<1>3. 0 \in T
  BY <1>1, HeaderDef
<1>4. ASSUME NEW i \in Nat, i \in T PROVE i + 1 \in T
  <2> SUFFICES ASSUME i + 1 <= N PROVE Header[i + 1] \in B \cup {kArenaSize}
    OBVIOUS
  <2>1. i \in 0 .. N - 1 /\ Header[i] \in B \cup {kArenaSize}
    BY <1>0, <1>4
  <2>2. Header[i] \in B => End(mem, Header[i]) \in B \cup {kArenaSize}
    BY Zenon DEF Tiles
  <2> QED BY <1>2, <2>1, <2>2, Zenon
<1> HIDE DEF T
<1>5. \A i \in Nat : i \in T
  BY <1>3, <1>4, Induction
<1>6. \A i \in 0 .. N : Header[i] \in B \cup {kArenaSize}
  BY <1>0, <1>5 DEF T
<1> QED BY <1>1, <1>2, <1>6, Zenon

(* The walk ends at the end of the arena: every hop goes over at least one *)
(* place.                                                                  *)
LEMMA WalkEnds ==
  ASSUME mem \in MemType, NEW B, Tiles(mem, B)
  PROVE  Header[Places] = kArenaSize
<1> DEFINE N == Places
           T == {i \in Nat : i <= N => Header[i] = kArenaSize \/ (Header[i] \in B /\ i * kAlignment <= Header[i])}
<1>0. N \in Nat /\ N * kAlignment = kArenaSize
  BY PlacesFill, Zenon
<1>1. \A i \in 0 .. N - 1 : /\ Header[i] \in B => Header[i + 1] = End(mem, Header[i])
                            /\ Header[i] = kArenaSize => Header[i + 1] = kArenaSize
  BY WalkStep, Zenon
<1>2. \A i \in 0 .. N : Header[i] \in B \cup {kArenaSize}
  BY WalkStep, Zenon
<1>3. 0 \in T
  <2>1. Header[0] = 0 /\ 0 \in B
    BY HeaderDef, Zenon DEF Tiles
  <2>2. 0 * kAlignment <= 0
    BY Align
  <2> QED BY <2>1, <2>2
<1>4. ASSUME NEW i \in Nat, i \in T PROVE i + 1 \in T
  <2> SUFFICES ASSUME i + 1 <= N, Header[i + 1] # kArenaSize
               PROVE  Header[i + 1] \in B /\ (i + 1) * kAlignment <= Header[i + 1]
    OBVIOUS
  <2>1. i \in 0 .. N - 1 /\ i + 1 \in 0 .. N /\ i <= N
    BY <1>0
  <2>2. Header[i + 1] \in B /\ Header[i] # kArenaSize
    BY <1>1, <1>2, <2>1, Zenon
  <2>3. Header[i] \in B /\ i * kAlignment <= Header[i]
    BY <1>4, <2>1, <2>2
  <2>4. /\ Header[i] \in Nat /\ End(mem, Header[i]) \in Nat /\ mem[Header[i]].block_size \in Nat
        /\ End(mem, Header[i]) = Header[i] + mem[Header[i]].block_size /\ mem[Header[i]].block_size >= 2 * kAlignment
        /\ Header[i + 1] = End(mem, Header[i])
    BY <1>1, <2>1, <2>3, BlockFacts, Zenon
  <2>5. (i + 1) * kAlignment = i * kAlignment + kAlignment /\ i * kAlignment \in Nat
    BY Align
  <2>6. (i + 1) * kAlignment <= Header[i + 1]
    BY <2>3, <2>4, <2>5, Align
  <2> QED BY <2>2, <2>6
<1> HIDE DEF T
<1>5. N \in T
  BY <1>0, <1>3, <1>4, Induction
<1>6. Header[N] = kArenaSize \/ (Header[N] \in B /\ kArenaSize <= Header[N])
  BY <1>0, <1>5 DEF T
<1>7. Header[N] \in B => Header[N] \in Nat /\ Header[N] < kArenaSize
  BY BlockFacts, Zenon
<1> QED BY <1>6, <1>7, Align

(* The walk over a tiled arena meets every block, and nothing else. *)
LEMMA Walk ==
  ASSUME mem \in MemType, NEW B, Tiles(mem, B)
  PROVE  Blocks = B /\ Header[Places] = kArenaSize
<1> DEFINE N == Places
<1>0. N \in Nat
  BY PlacesFill, Zenon
<1>1. /\ kArenaSize \notin B
      /\ \A i \in 0 .. N : Header[i] \in B \cup {kArenaSize}
      /\ \A i \in 0 .. N - 1 : Header[i] \in B => Header[i + 1] = End(mem, Header[i])
  BY WalkStep, Zenon
<1>2. Header[N] = kArenaSize
  BY WalkEnds, Zenon
<1>3. DOMAIN Header = 0 .. N /\ Header[0] = 0
  BY HeaderDef, Zenon
<1>4. ASSUME NEW b \in B PROVE \E i \in 0 .. N : Header[i] = b
  <2> SUFFICES ASSUME \A i \in 0 .. N : Header[i] # b PROVE FALSE
    BY Zenon
  <2>0. b \in Nat /\ b < kArenaSize /\ kArenaSize \in Nat
    BY BlockFacts, Arena, Zenon
  <2> DEFINE T == {i \in Nat : i <= N => Header[i] \in B /\ Header[i] < b}
  <2>1. 0 \in T
    <3>1. 0 # b /\ 0 \in B
      <4>1. 0 \in 0 .. N
        BY <1>0
      <4> QED BY <1>3, <4>1, Zenon DEF Tiles
    <3> QED BY <1>3, <2>0, <3>1
  <2>2. ASSUME NEW i \in Nat, i \in T PROVE i + 1 \in T
    <3> SUFFICES ASSUME i + 1 <= N PROVE Header[i + 1] \in B /\ Header[i + 1] < b
      OBVIOUS
    <3>1. i \in 0 .. N - 1 /\ i + 1 \in 0 .. N
      BY <1>0
    <3>2. Header[i] \in B /\ Header[i] < b
      BY <1>0, <2>2
    <3>3. Header[i + 1] = End(mem, Header[i]) /\ End(mem, Header[i]) <= b /\ Header[i + 1] # b
      BY <1>1, <3>1, <3>2, Zenon DEF Tiles
    <3>4. Header[i + 1] \in B \cup {kArenaSize} /\ End(mem, Header[i]) \in Nat
      BY <1>1, <3>1, <3>2, BlockFacts, Zenon
    <3> QED BY <2>0, <3>3, <3>4
  <2> HIDE DEF T
  <2>3. N \in T
    BY <1>0, <2>1, <2>2, Induction
  <2>4. Header[N] < b
    BY <1>0, <2>3 DEF T
  <2> QED BY <1>2, <2>0, <2>4
<1>5. \A b : b \in Blocks <=> b # kArenaSize /\ \E i \in 0 .. N : Header[i] = b
  BY <1>3, Zenon DEF Blocks
<1>6. \A b : b \in Blocks <=> b \in B
  BY <1>1, <1>4, <1>5
<1> QED BY <1>2, <1>6, Zenon

(* The same, now and in the next state. *)
LEMMA WalkNow ==
  \A B \in SUBSET Addr :
    mem \in MemType /\ Tiles(mem, B) => Blocks = B /\ Header[Places] = kArenaSize
BY Walk, Zenon

(* The same in the next state. *)
LEMMA WalkNext ==
  (\A B \in SUBSET Addr :
     mem \in MemType /\ Tiles(mem, B) => Blocks = B /\ Header[Places] = kArenaSize)'
BY WalkNow, PTL

(* A step that leaves a tiling leaves those blocks. *)
LEMMA NewBlocks ==
  ASSUME NEW B, mem' \in MemType, Tiles(mem', B)
  PROVE  Blocks' = B /\ Tiles(mem', Blocks')
<1>1. \A C \in SUBSET Addr : mem' \in MemType /\ Tiles(mem', C) => Blocks' = C
  BY WalkNext DEF Tiles, End, MemType, Addr
<1>2. B \in SUBSET Addr
  BY Zenon DEF Tiles
<1> QED BY <1>1, <1>2, Zenon

-----------------------------------------------------------------------------
(* The size of the block a caller needs.                                   *)

(* No size that is asked for wraps round while it is rounded up and the    *)
(* two tags are added to it.                                               *)
SizesFit == \A n \in Sizes : n + 3 * kAlignment <= 2^SizeBits

(* A remainder of a number smaller than the modulus. *)
LEMMA SmallMod ==
  ASSUME NEW m \in Nat, NEW t \in Nat, t < m
  PROVE  t % m = t
<1> DEFINE q == t \div m
           r == t % m
<1>1. m \in Nat \ {0}
  OBVIOUS
<1>2. q \in Int /\ r \in Int /\ 0 <= r /\ r < m /\ t = m * q + r
  BY <1>1
<1> HIDE DEF q, r
<1>3. m * q < m /\ -m < m * q
  BY <1>2
<1>4. q = 0
  BY <1>1, <1>2, <1>3, SmallMultiple
<1>5. m * q = 0
  BY <1>4
<1>6. r = t
  BY <1>2, <1>5
<1> QED BY <1>6 DEF r

(* It is the least multiple of the alignment with room for the bytes and   *)
(* the tags.                                                               *)
LEMMA Needed ==
  ASSUME SizesFit, NEW n \in Sizes
  PROVE  /\ needed(n) \in Nat /\ needed(n) % kAlignment = 0
         /\ n \in Nat /\ n + 2 * kAlignment <= needed(n) /\ 2 * kAlignment <= needed(n)
         /\ \A s \in Int : s % kAlignment = 0 /\ n + 2 * kAlignment <= s => needed(n) <= s
<1> DEFINE W == 2^SizeBits
           K == kAlignment
           t == n + K - 1
           r == t - (t % K)
<1>1. W \in Nat /\ n \in Nat /\ K \in Nat \ {0} /\ n + 3 * K <= W
  <2>1. W \in Nat /\ Sizes \subseteq 0 .. W - 1 /\ n + 3 * K <= W
    BY HeapAssumption, Zenon DEF SizesFit
  <2> HIDE DEF W
  <2> QED BY <2>1, Arena
<1> HIDE DEF W
<1>2. /\ r \in Nat /\ r % K = 0 /\ n <= r /\ r <= n + K - 1
      /\ \A s \in Int : s % K = 0 /\ n <= s => r <= s
  BY <1>1, RoundsUp, Zenon
<1>3. t \in Nat /\ t < W
  BY <1>1
<1>4. align_up(n, K) = r
  <2>1. t % W = t
    BY <1>1, <1>3, SmallMod
  <2> QED BY <2>1, Zenon DEF align_up, size_t, W
<1> HIDE DEF t, r
<1>5. r + 2 * K \in Nat /\ r + 2 * K < W
  BY <1>1, <1>2
<1>6. needed(n) = r + 2 * K
  <2>1. (r + 2 * K) % W = r + 2 * K
    BY <1>1, <1>5, SmallMod
  <2> QED BY <1>4, <2>1, Zenon DEF needed, size_t, kTagSize, W
<1>7. K + K = 2 * K /\ r + (K + K) = r + 2 * K /\ K + K \in Int
  BY <1>1, <1>2
<1>8. (K + K) % K = 0
  BY <1>1, Arena, Multiples
<1>9. (r + 2 * K) % K = 0
  <2>1. (r + (K + K)) % K = 0
    <3>1. r \in Int
      BY <1>2
    <3> QED BY <1>1, <1>2, <1>7, <1>8, <3>1, Multiples, Zenon
  <2> QED BY <1>7, <2>1, Zenon
<1>10. ASSUME NEW s \in Int, s % K = 0, n + 2 * K <= s PROVE r + 2 * K <= s
  <2>1. (s - (K + K)) % K = 0
    BY <1>1, <1>7, <1>8, <1>10, Multiples
  <2>2. s - (K + K) \in Int /\ n <= s - (K + K)
    BY <1>1, <1>10
  <2>3. r <= s - (K + K)
    BY <1>2, <2>1, <2>2, Zenon
  <2> QED BY <1>1, <1>2, <2>3
<1>11. n + 2 * K <= r + 2 * K /\ 2 * K <= r + 2 * K
  BY <1>1, <1>2
<1> QED BY <1>1, <1>5, <1>6, <1>9, <1>10, <1>11, Zenon

-----------------------------------------------------------------------------
(* What malloc() and free() make of the blocks.                            *)

(* No two free blocks are next to each other. *)
Separate(m, B) == \A b, c \in B : End(m, b) = c => m[b].in_use \/ m[c].in_use

(* Two blocks with the same end are one. *)
LEMMA SameEnd ==
  ASSUME NEW m \in MemType, NEW B, Tiles(m, B), NEW b \in B, NEW c \in B, End(m, b) = End(m, c)
  PROVE  b = c
<1> SUFFICES ASSUME b # c PROVE FALSE
  BY Zenon
<1>1. End(m, b) <= c \/ End(m, c) <= b
  BY Disjoint, Zenon
<1>2. ASSUME NEW d \in B PROVE d \in Nat /\ End(m, d) \in Nat /\ d < End(m, d)
  <2>1. d \in Nat /\ End(m, d) \in Nat /\ m[d].block_size \in Nat /\ End(m, d) = d + m[d].block_size /\ m[d].block_size >= 2 * kAlignment
    BY BlockFacts, Zenon
  <2> QED BY <2>1, Align
<1> QED BY <1>1, <1>2

(* malloc() takes a free block, and perhaps leaves one behind it. *)
LEMMA TakeBlocks ==
  ASSUME mem \in MemType, NEW B, Tiles(mem, B), Separate(mem, B), NEW b \in B, ~mem[b].in_use,
         NEW n \in Nat, n >= 2 * kAlignment, n % kAlignment = 0, n <= mem[b].block_size
  PROVE  \E B2 :
           LET w == Take(b, n) IN
           /\ w \in MemType /\ Tiles(w, B2) /\ Separate(w, B2)
           /\ B \subseteq B2
           /\ w[b].in_use /\ n <= w[b].block_size
           /\ \A c \in B : c # b => w[c] = mem[c]
           /\ \A c \in B2 : c \notin B => ~w[c].in_use
           /\ \A a \in Addr \ Tags(w, B2) : w[a] = mem[a]
<1> DEFINE w == Take(b, n)
           r == mem[b].block_size - n
           v == write_tags(mem, b, n, TRUE)
<1>1. mem[b].block_size \in Nat /\ mem[b].block_size >= 2 * kAlignment /\ b \in Nat
  BY BlockFacts, Zenon
<1>2. CASE r >= kMinBlockSize
  <2> DEFINE x == b + n
             B2 == B \cup {x}
  <2>1. r >= 2 * kAlignment
    BY <1>2 DEF kMinBlockSize, kTagSize
  <2>2. next_block(v, b) = x /\ SplitTo(mem, write_tags(v, x, r, FALSE), B, b, n)
    BY <2>1, Splits, Zenon
  <2>3. w = write_tags(v, x, r, FALSE)
    BY <1>2, <2>2, Zenon DEF Take
  <2>4. /\ x \notin B
        /\ w \in MemType /\ Tiles(w, B2)
        /\ w[b].block_size = n /\ w[b].in_use = TRUE
        /\ w[x].block_size = r /\ w[x].in_use = FALSE
        /\ \A c \in B : c # b => w[c] = mem[c]
        /\ \A a \in Addr \ Tags(w, B2) : w[a] = mem[a]
    <3>1. SplitTo(mem, w, B, b, n)
      BY <2>2, <2>3, Zenon
    <3> HIDE DEF w
    <3> QED BY <3>1, Zenon DEF SplitTo
  <2> HIDE DEF w
  <2>5. End(w, b) = x
    BY <2>4, Zenon DEF End
  <2>6. End(w, x) = End(mem, b)
    <3>1. End(w, x) = (b + n) + r /\ End(mem, b) = b + mem[b].block_size
      BY <2>4, Zenon DEF End
    <3> QED BY <1>1, <3>1
  <2>7. ASSUME NEW c \in B, c # b PROVE End(w, c) = End(mem, c) /\ End(w, c) # x
    <3>1. End(w, c) = End(mem, c)
      BY <2>4, <2>7, Zenon DEF End
    <3>2. ~ (End(w, c) = End(w, b))
      BY <2>4, <2>7, SameEnd
    <3> QED BY <2>5, <3>1, <3>2, Zenon
  <2> HIDE DEF x, r
  <2>8. Separate(w, B2)
    <3> SUFFICES ASSUME NEW c \in B2, NEW d \in B2, End(w, c) = d PROVE w[c].in_use \/ w[d].in_use
      BY Zenon DEF Separate
    <3>1. CASE c = b \/ d = b
      BY <2>4, <3>1, Zenon
    <3>2. CASE c = x /\ d # b
      <4>1. d = End(mem, b) /\ d # x
        <5>1. d # x
          <6>1. x \in Nat /\ w[x].block_size \in Nat /\ End(w, x) = x + w[x].block_size /\ w[x].block_size >= 2 * kAlignment
            BY <2>4, BlockFacts, ZenonT(40)
          <6> QED BY <3>2, <6>1, Arena
        <5> QED BY <2>6, <3>2, <5>1, Zenon
      <4>2. d \in B
        BY <4>1, Zenon
      <4>3. mem[d].in_use
        BY <4>1, <4>2, Zenon DEF Separate
      <4> QED BY <2>4, <3>2, <4>2, <4>3, Zenon
    <3>3. CASE c \in B /\ c # b /\ d # b
      <4>1. d # x /\ End(mem, c) = d
        BY <2>7, <3>3, Zenon
      <4>2. d \in B
        BY <4>1, Zenon
      <4>3. mem[c].in_use \/ mem[d].in_use
        BY <3>3, <4>1, <4>2, Zenon DEF Separate
      <4> QED BY <2>4, <3>3, <4>2, <4>3, Zenon
    <3> QED BY <3>1, <3>2, <3>3, Zenon
  <2>9. n <= w[b].block_size
    BY <2>4
  <2> QED BY <2>4, <2>8, <2>9, Zenon DEF w
<1>3. CASE ~ (r >= kMinBlockSize)
  <2> DEFINE k == mem[b].block_size
             C == {c \in B : c <= b \/ b + k <= c}
  <2>1. w = write_tags(mem, b, k, TRUE)
    BY <1>3, Zenon DEF Take
  <2>2. b + k \in B \cup {kArenaSize}
    BY Zenon DEF Tiles, End
  <2>3. /\ w \in MemType /\ Tiles(w, C)
        /\ w[b].block_size = k /\ w[b].in_use = TRUE
        /\ \A c \in C : c # b => w[c] = mem[c]
        /\ \A a \in Addr \ Tags(w, C) : w[a] = mem[a]
    <3>1. TRUE \in BOOLEAN
      OBVIOUS
    <3>2. JoinedTo(mem, w, B, C, b, k, TRUE)
      BY <1>1, <2>1, <2>2, <3>1, Joined, Zenon
    <3> HIDE DEF w, C
    <3> QED BY <3>2, Zenon DEF JoinedTo
  <2>4. C = B
    <3> SUFFICES ASSUME NEW c \in B PROVE c <= b \/ b + k <= c
      BY Zenon
    <3>1. c \in Nat /\ (b < c => b + k <= c)
      BY BlockFacts, Zenon DEF Tiles, End
    <3> QED BY <1>1, <3>1
  <2> HIDE DEF w, C
  <2>5. \A c \in B : End(w, c) = End(mem, c)
    BY <2>3, <2>4, Zenon DEF End
  <2>6. Separate(w, B)
    BY <2>3, <2>4, <2>5, Zenon DEF Separate
  <2>7. n <= w[b].block_size
    BY <2>3, Zenon
  <2> QED BY <2>3, <2>4, <2>6, <2>7, Zenon DEF w
<1> QED BY <1>2, <1>3, Zenon

(* The size of a block if it is free, as free() adds it up. *)
FreeSize(c) == IF c # NULL /\ ~mem[c].in_use THEN mem[c].block_size ELSE 0

(* How far free() merges to the right. *)
LEMMA MergeNext ==
  ASSUME mem \in MemType, NEW B, Tiles(mem, B), Separate(mem, B), NEW b \in B
  PROVE  LET n  == FreeSize(next_block(mem, b))
             hi == End(mem, b) + n
         IN  /\ n \in Nat /\ hi \in B \cup {kArenaSize}
             /\ hi \in B => mem[hi].in_use
             /\ \A c \in B : End(mem, b) <= c /\ c < hi => ~mem[c].in_use
<1> DEFINE d  == next_block(mem, b)
           e  == End(mem, b)
           n  == FreeSize(d)
           hi == e + n
<1>1. e \in Nat /\ e <= kArenaSize
  BY BlockFacts, Zenon
<1>2. \/ e = kArenaSize /\ d = NULL
      \/ e \in B /\ e < kArenaSize /\ d = e
  BY Following, Zenon
<1> HIDE DEF d, e
<1>3. CASE d = NULL \/ mem[d].in_use
  <2>1. n = 0
    BY <1>3, Zenon DEF FreeSize
  <2>2. hi = e
    BY <1>1, <2>1
  <2>3. hi \in B \cup {kArenaSize} /\ (hi \in B => mem[hi].in_use)
    <3>1. kArenaSize \notin B
      <4>1. ~ (kArenaSize < kArenaSize)
        BY Arena
      <4> QED BY <4>1, BlockFacts, Zenon
    <3>2. e # NULL
      BY <1>1, Arena
    <3> QED BY <1>2, <1>3, <2>2, <3>1, <3>2, Zenon
  <2>4. ASSUME NEW c \in B, e <= c, c < hi PROVE ~mem[c].in_use
    <3>1. c \in Nat
      BY BlockFacts, Zenon
    <3> QED BY <1>1, <2>2, <2>4, <3>1
  <2>5. n \in Nat
    BY <2>1
  <2> QED BY <2>3, <2>4, <2>5, Zenon DEF d, e
<1>4. CASE d # NULL /\ ~mem[d].in_use
  <2>1. e \in B /\ d = e /\ n = mem[e].block_size
    BY <1>2, <1>4, Zenon DEF FreeSize
  <2>2. n \in Nat /\ hi = End(mem, e)
    BY <2>1, BlockFacts, Zenon
  <2>3. hi \in B \cup {kArenaSize}
    BY <2>1, <2>2, Zenon DEF Tiles
  <2>4. hi \in B => mem[hi].in_use
    BY <1>4, <2>1, <2>2, Zenon DEF Separate
  <2>5. ASSUME NEW c \in B, e <= c, c < hi PROVE ~mem[c].in_use
    <3>1. c \in Nat /\ (e < c => End(mem, e) <= c) /\ End(mem, e) \in Nat
      BY <2>1, BlockFacts, Zenon DEF Tiles
    <3>2. c = e
      BY <1>1, <2>2, <2>5, <3>1
    <3> QED BY <1>4, <2>1, <3>2, Zenon
  <2> QED BY <2>2, <2>3, <2>4, <2>5, Zenon DEF d, e
<1> QED BY <1>3, <1>4, Zenon

(* How far free() merges to the left. *)
LEMMA MergePrevious ==
  ASSUME mem \in MemType, NEW B, Tiles(mem, B), Separate(mem, B), NEW b \in B
  PROVE  LET a  == prev_block(mem, b)
             n  == FreeSize(a)
             lo == IF n # 0 THEN a ELSE b
         IN  /\ n \in Nat /\ lo \in B /\ lo + n = b
             /\ lo = b \/ ~mem[lo].in_use
             /\ \A c \in B : ~ (lo < c /\ c < b)
             /\ \A c \in B : End(mem, c) = lo => mem[c].in_use
<1> DEFINE a  == prev_block(mem, b)
           n  == FreeSize(a)
           lo == IF n # 0 THEN a ELSE b
<1>0. b \in Nat
  BY BlockFacts, Zenon
<1>1. CASE b = 0
  <2>1. a = NULL
    BY <1>1, Zenon DEF prev_block
  <2>2. n = 0
    BY <2>1, Zenon DEF FreeSize
  <2>3. lo = b /\ n \in Nat /\ lo + n = b
    BY <1>0, <2>2
  <2>4. ASSUME NEW c \in B PROVE ~ (b < c /\ c < b) /\ End(mem, c) # b
    <3>1. c \in Nat /\ End(mem, c) = c + mem[c].block_size /\ mem[c].block_size \in Nat /\ mem[c].block_size >= 2 * kAlignment
      BY BlockFacts, Zenon
    <3> QED BY <1>1, <3>1, Arena
  <2> QED BY <2>3, <2>4, Zenon
<1>2. CASE b # 0
  <2>1. a \in B /\ End(mem, a) = b /\ a < b
    BY <1>2, Previous, ZenonT(40)
  <2>2. /\ a \in Nat /\ mem[a].block_size \in Nat /\ mem[a].block_size >= 2 * kAlignment
        /\ b = a + mem[a].block_size
    BY <2>1, BlockFacts, Zenon
  <2>3. a # NULL
    BY <2>2, Arena
  <2>4. \A c \in B : End(mem, c) = b => c = a
    BY <2>1, SameEnd, Zenon
  <2>5. ASSUME NEW c \in B PROVE ~ (b < c /\ c < b) /\ ~ (a < c /\ c < b)
    <3>1. c \in Nat /\ (a < c => End(mem, a) <= c)
      BY <2>1, BlockFacts, Zenon DEF Tiles
    <3> QED BY <1>0, <2>1, <2>2, <3>1
  <2> HIDE DEF a
  <2>6. CASE mem[a].in_use
    <3>1. n = 0
      BY <2>6, Zenon DEF FreeSize
    <3>2. lo = b /\ n \in Nat /\ lo + n = b
      BY <1>0, <3>1
    <3> QED BY <2>4, <2>5, <2>6, <3>2, Zenon DEF a
  <2>7. CASE ~mem[a].in_use
    <3>1. n = mem[a].block_size
      BY <2>3, <2>7, Zenon DEF FreeSize
    <3>2. n # 0 /\ n \in Nat
      BY <2>2, <3>1, Arena
    <3>3. lo = a /\ lo + n = b
      BY <2>2, <3>1, <3>2, Zenon
    <3>4. \A c \in B : End(mem, c) = a => mem[c].in_use
      BY <2>1, <2>7, Zenon DEF Separate
    <3> QED BY <2>1, <2>5, <2>7, <3>2, <3>3, <3>4, Zenon DEF a
  <2> QED BY <2>6, <2>7, Zenon
<1> QED BY <1>1, <1>2, Zenon

(* What free() writes tags round. *)
LEMMA MergeRange ==
  ASSUME mem \in MemType, NEW B, Tiles(mem, B), Separate(mem, B), NEW b \in B
  PROVE  \E lo \in B, n \in Nat :
           /\ Merge(b) = write_tags(mem, lo, n, FALSE)
           /\ n >= 2 * kAlignment /\ lo + n \in B \cup {kArenaSize}
           /\ lo <= b /\ b < lo + n
           /\ lo = b \/ ~mem[lo].in_use
           /\ \A c \in B : lo < c /\ c < lo + n => c = b \/ ~mem[c].in_use
           /\ lo + n \in B => mem[lo + n].in_use
           /\ \A c \in B : End(mem, c) = lo => mem[c].in_use
<1> DEFINE a  == prev_block(mem, b)
           k  == FreeSize(next_block(mem, b))
           j  == FreeSize(a)
           lo == IF j # 0 THEN a ELSE b
           e  == End(mem, b)
           z  == mem[b].block_size
           n  == z + k + j
<1>1. Merge(b) = write_tags(mem, lo, n, FALSE)
  BY Zenon DEF Merge, FreeSize
<1>2. /\ k \in Nat /\ e + k \in B \cup {kArenaSize}
      /\ e + k \in B => mem[e + k].in_use
      /\ \A c \in B : e <= c /\ c < e + k => ~mem[c].in_use
  BY MergeNext, Zenon
<1>3. /\ j \in Nat /\ lo \in B /\ lo + j = b
      /\ lo = b \/ ~mem[lo].in_use
      /\ \A c \in B : ~ (lo < c /\ c < b)
      /\ \A c \in B : End(mem, c) = lo => mem[c].in_use
  BY MergePrevious, Zenon
<1>4. b \in Nat /\ z \in Nat /\ z >= 2 * kAlignment /\ e = b + z /\ lo \in Nat
  BY <1>3, BlockFacts, Zenon
<1> HIDE DEF a, k, j, lo, e, z
<1>5. n \in Nat /\ n >= 2 * kAlignment /\ lo + n = e + k /\ lo <= b /\ b < lo + n
  BY <1>2, <1>3, <1>4, Arena
<1>6. ASSUME NEW c \in B, lo < c, c < lo + n PROVE c = b \/ ~mem[c].in_use
  <2>1. c \in Nat /\ (b < c => e <= c)
    BY BlockFacts, Zenon DEF Tiles, e
  <2>2. ~ (lo < c /\ c < b)
    BY <1>3, Zenon
  <2>3. c = b \/ (e <= c /\ c < e + k)
    BY <1>4, <1>5, <1>6, <2>1, <2>2
  <2> QED BY <1>2, <2>3, Zenon
<1> HIDE DEF n
<1>7. lo + n \in B \cup {kArenaSize} /\ (lo + n \in B => mem[lo + n].in_use)
  BY <1>2, <1>5, Zenon
<1> QED BY <1>1, <1>3, <1>5, <1>6, <1>7, Zenon

(* free() gives one block back, merged with its free neighbours. *)
LEMMA MergeBlocks ==
  ASSUME mem \in MemType, NEW B, Tiles(mem, B), Separate(mem, B), NEW b \in B
  PROVE  \E B2 :
           LET w == Merge(b) IN
           /\ w \in MemType /\ Tiles(w, B2) /\ Separate(w, B2)
           /\ \A c : c \in B2 /\ w[c].in_use => c \in B /\ mem[c].in_use /\ c # b /\ w[c] = mem[c]
           /\ \A c : c \in B /\ mem[c].in_use /\ c # b => c \in B2 /\ w[c] = mem[c]
           /\ \A a \in Addr \ Tags(w, B2) : w[a] = mem[a]
<1> DEFINE w == Merge(b)
<1>1. PICK lo \in B, n \in Nat :
        /\ w = write_tags(mem, lo, n, FALSE)
        /\ n >= 2 * kAlignment /\ lo + n \in B \cup {kArenaSize}
        /\ lo <= b /\ b < lo + n
        /\ lo = b \/ ~mem[lo].in_use
        /\ \A c \in B : lo < c /\ c < lo + n => c = b \/ ~mem[c].in_use
        /\ lo + n \in B => mem[lo + n].in_use
        /\ \A c \in B : End(mem, c) = lo => mem[c].in_use
  BY MergeRange, Zenon
<1> DEFINE hi == lo + n
           B2 == {c \in B : c <= lo \/ hi <= c}
<1>2. /\ w \in MemType /\ Tiles(w, B2)
      /\ w[lo].block_size = n /\ w[lo].in_use = FALSE
      /\ \A c \in B2 : c # lo => w[c] = mem[c]
      /\ \A a \in Addr \ Tags(w, B2) : w[a] = mem[a]
  <2>1. FALSE \in BOOLEAN
    OBVIOUS
  <2>2. JoinedTo(mem, w, B, B2, lo, n, FALSE)
    BY <1>1, <2>1, Joined, Zenon
  <2> HIDE DEF w, B2
  <2> QED BY <2>2, Zenon DEF JoinedTo
<1>3. End(w, lo) = hi
  BY <1>2, Zenon DEF End
<1> HIDE DEF w
<1>4. lo \in Nat /\ b \in Nat /\ hi \in Nat /\ lo < hi
  <2>1. lo \in Nat /\ b \in Nat
    BY BlockFacts, Zenon
  <2> QED BY <1>1, <2>1, Arena
<1> HIDE DEF hi
<1>5. ASSUME NEW c \in B PROVE c \in B2 \/ (lo < c /\ c < hi)
  <2>1. c \in Nat
    BY BlockFacts, Zenon
  <2>2. c <= lo \/ hi <= c \/ (lo < c /\ c < hi)
    BY <1>4, <2>1
  <2> QED BY <2>2, Zenon
<1>6. ASSUME NEW c, c \in B, mem[c].in_use, c # b PROVE c \in B2 /\ w[c] = mem[c]
  <2>1. c \in B2
    BY <1>1, <1>5, <1>6, Zenon DEF hi
  <2>2. c # lo
    BY <1>1, <1>6, Zenon
  <2> QED BY <1>2, <2>1, <2>2, Zenon
<1>7. ASSUME NEW c, c \in B2, w[c].in_use PROVE c \in B /\ mem[c].in_use /\ c # b /\ w[c] = mem[c]
  <2>1. c # lo
    BY <1>2, <1>7, Zenon
  <2>2. c \in B /\ w[c] = mem[c] /\ (c <= lo \/ hi <= c)
    BY <1>2, <1>7, <2>1, Zenon
  <2>3. c # b
    <3>1. lo <= b /\ b < hi
      BY <1>1, Zenon DEF hi
    <3> QED BY <1>4, <2>1, <2>2, <3>1
  <2> QED BY <1>7, <2>2, <2>3, Zenon
<1>8. Separate(w, B2)
  <2> SUFFICES ASSUME NEW c \in B2, NEW d \in B2, End(w, c) = d PROVE w[c].in_use \/ w[d].in_use
    BY Zenon DEF Separate
  <2>0. c \in B /\ d \in B
    BY Zenon
  <2>1. CASE c = lo
    <3>1. d = hi /\ mem[hi].in_use
      BY <1>1, <1>3, <2>0, <2>1, Zenon DEF hi
    <3>2. hi # lo
      BY <1>4
    <3> QED BY <1>2, <3>1, <3>2, Zenon
  <2>2. CASE c # lo
    <3>1. w[c] = mem[c]
      BY <1>2, <2>2, Zenon
    <3>2. End(mem, c) = d
      BY <3>1, Zenon DEF End
    <3>3. CASE d = lo
      BY <1>1, <2>0, <3>1, <3>2, <3>3, Zenon
    <3>4. CASE d # lo
      <4>1. w[d] = mem[d]
        BY <1>2, <3>4, Zenon
      <4> QED BY <2>0, <3>1, <3>2, <4>1, Zenon DEF Separate
    <3> QED BY <3>3, <3>4, Zenon
  <2> QED BY <2>1, <2>2, Zenon
<1> HIDE DEF B2
<1> QED BY <1>2, <1>6, <1>7, <1>8, Zenon DEF w

-----------------------------------------------------------------------------
(* The inductive invariant.                                                *)

(* Where a core holds the lock, and where it answers for a block that is   *)
(* in use and in no caller's hands.                                        *)
Critical == {"scan", "took", "merge", "free_unlock"}
Holding  == {"took", "free_lock", "merge"}

Locked ==
  \A p \in Procs : pc[p] \in Critical => g_lock /\ \A q \in Procs : pc[q] \in Critical => q = p

(* Every region is a block in use with room for it, every core that holds  *)
(* a block holds one in use, and no block in use is forgotten.             *)
Owners ==
  /\ \A x \in live :
       LET b == header_of(x.ptr) IN b \in Blocks /\ mem[b].in_use /\ mem[b].block_size >= x.size + 2 * kTagSize
  /\ \A p \in Procs : pc[p] \in Holding => block[p] \in Blocks /\ mem[block[p]].in_use
  /\ \A b \in Blocks :
       mem[b].in_use => \/ \E x \in live : header_of(x.ptr) = b
                        \/ \E p \in Procs : pc[p] \in Holding /\ block[p] = b

(* No block has two owners. *)
Once ==
  /\ \A x, y \in live : x.ptr = y.ptr => x = y
  /\ \A x \in live : \A p \in Procs : pc[p] \in Holding => header_of(x.ptr) # block[p]
  /\ \A p, q \in Procs : pc[p] \in Holding /\ pc[q] \in Holding /\ block[p] = block[q] => p = q

Sized ==
  \A p \in Procs :
    /\ pc[p] \in {"malloc_lock", "scan", "took"} => size[p] \in Sizes
    /\ pc[p] = "took" => mem[block[p]].block_size >= size[p] + 2 * kTagSize

(* malloc() has passed over no block that fits. *)
Scanned ==
  \A p \in Procs :
    pc[p] = "scan" =>
      /\ block[p] \in Blocks \cup {NULL}
      /\ \A b \in Blocks : block[p] = NULL \/ b < block[p] => ~Fits(b, needed(size[p]))

HInv ==
  /\ TypeOK
  /\ Tiles(mem, Blocks) /\ Separate(mem, Blocks)
  /\ Locked /\ Owners /\ Once /\ Sized /\ Scanned

(* Memory as the invariant has it. *)
LEMMA InvMem ==
  ASSUME HInv
  PROVE  mem \in MemType /\ Tiles(mem, Blocks) /\ Separate(mem, Blocks) /\ Blocks \subseteq Addr
BY Zenon DEF HInv, TypeOK, MemType, Tiles

(* A step that leaves memory alone leaves the blocks alone. *)
LEMMA SameMem ==
  ASSUME HInv, mem' = mem
  PROVE  Blocks' = Blocks /\ Tiles(mem', Blocks') /\ Separate(mem', Blocks')
<1>1. mem' \in MemType /\ Tiles(mem', Blocks)
  BY InvMem, Zenon
<1>2. Blocks' = Blocks
  BY <1>1, NewBlocks, Zenon
<1> QED BY <1>2, InvMem, Zenon

(* A header, its payload, and back. *)
LEMMA HeaderPayload ==
  /\ \A b \in Int : header_of(payload_of(b)) = b
  /\ \A a, b \in Int : header_of(a) = header_of(b) => a = b
BY Arena DEF header_of, payload_of, kTagSize

(* malloc() is called. *)
LEMMA MallocCallStep ==
  ASSUME HInv, NEW p \in Procs, NEW n \in Sizes, MallocCall(p, n)
  PROVE  HInv'
<1> DEFINE l == IF n = 0 THEN "null" ELSE "malloc_lock"
<1>1. /\ pc[p] = "idle" /\ g_lock' = g_lock /\ mem' = mem /\ block' = block /\ live' = live
      /\ pc' = [pc EXCEPT ![p] = l] /\ size' = [size EXCEPT ![p] = n]
  BY Zenon DEF MallocCall
<1>2. pc \in [Procs -> Labels] /\ size \in [Procs -> Sizes \cup {0}]
  BY Zenon DEF HInv, TypeOK
<1>a. l \in Labels /\ l \notin Critical /\ l \notin Holding /\ l \notin {"scan", "took"}
  BY DEF Labels, Critical, Holding
<1> HIDE DEF l
<1>3. pc'[p] = l /\ size'[p] = n /\ \A q \in Procs : q # p => pc'[q] = pc[q] /\ size'[q] = size[q]
  BY <1>1, <1>2, Zenon
<1>4. Blocks' = Blocks /\ Tiles(mem', Blocks') /\ Separate(mem', Blocks')
  BY <1>1, SameMem, Zenon
<1>5. TypeOK'
  <2>1. pc' \in [Procs -> Labels]
    BY <1>1, <1>2, <1>a, Zenon
  <2>2. size' \in [Procs -> Sizes \cup {0}]
    BY <1>1, <1>2, Zenon
  <2> QED BY <1>1, <2>1, <2>2, Zenon DEF HInv, TypeOK
<1>6. \A q \in Procs : /\ pc'[q] \in Critical => pc[q] \in Critical
                       /\ pc'[q] \in Holding <=> pc[q] \in Holding
                       /\ pc'[q] = "scan" => pc[q] = "scan" /\ q # p
                       /\ pc'[q] = "took" => pc[q] = "took" /\ q # p
  BY <1>1, <1>3, <1>a, Zenon DEF Critical, Holding
<1>7. Locked'
  BY <1>1, <1>6, Zenon DEF HInv, Locked
<1>8. Owners'
  BY <1>1, <1>4, <1>6, Zenon DEF HInv, Owners
<1>9. Once'
  BY <1>1, <1>6, Zenon DEF HInv, Once
<1>10. Sized'
  BY <1>1, <1>3, <1>6, Zenon DEF HInv, Sized
<1>11. Scanned'
  BY <1>1, <1>3, <1>4, <1>6, Zenon DEF HInv, Scanned, Fits
<1> QED BY <1>4, <1>5, <1>7, <1>8, <1>9, <1>10, <1>11, Zenon DEF HInv

(* malloc() takes the lock and starts at the first block. *)
LEMMA MallocLockStep ==
  ASSUME HInv, NEW p \in Procs, MallocLock(p)
  PROVE  HInv'
<1>1. /\ pc[p] = "malloc_lock" /\ ~g_lock /\ g_lock' = TRUE /\ mem' = mem /\ size' = size /\ live' = live
      /\ pc' = [pc EXCEPT ![p] = "scan"] /\ block' = [block EXCEPT ![p] = 0]
  BY Zenon DEF MallocLock
<1>2. pc \in [Procs -> Labels] /\ block \in [Procs -> Addr \cup {NULL}]
  BY Zenon DEF HInv, TypeOK
<1>3. pc'[p] = "scan" /\ block'[p] = 0 /\ \A q \in Procs : q # p => pc'[q] = pc[q] /\ block'[q] = block[q]
  BY <1>1, <1>2, Zenon
<1>4. Blocks' = Blocks /\ Tiles(mem', Blocks') /\ Separate(mem', Blocks')
  BY <1>1, SameMem, Zenon
<1>5. TypeOK'
  <2>1. pc' \in [Procs -> Labels]
    BY <1>1, <1>2, Zenon DEF Labels
  <2>2. block' \in [Procs -> Addr \cup {NULL}]
    BY <1>1, <1>2, Arena, Zenon
  <2> QED BY <1>1, <2>1, <2>2, Zenon DEF HInv, TypeOK
<1>6. \A q \in Procs : /\ pc'[q] \in Critical => q = p
                       /\ pc'[q] \in Holding => pc[q] \in Holding /\ q # p
                       /\ pc[q] \in Holding => pc'[q] \in Holding /\ q # p
                       /\ pc'[q] = "took" => pc[q] = "took" /\ q # p
  <2>1. \A q \in Procs : pc[q] \notin Critical
    BY <1>1, Zenon DEF HInv, Locked
  <2> QED BY <1>1, <1>3, <2>1, Zenon DEF Holding
<1>7. Locked'
  BY <1>1, <1>6, Zenon DEF Locked
<1>8. Owners'
  BY <1>1, <1>3, <1>4, <1>6 DEF HInv, Owners
<1>9. Once'
  BY <1>1, <1>3, <1>6 DEF HInv, Once
<1>10. Sized'
  <2>1. ASSUME NEW q \in Procs, pc'[q] \in {"malloc_lock", "scan", "took"} PROVE size'[q] \in Sizes
    BY <1>1, <1>3, <2>1, Zenon DEF HInv, Sized
  <2>2. ASSUME NEW q \in Procs, pc'[q] = "took" PROVE mem'[block'[q]].block_size >= size'[q] + 2 * kTagSize
    BY <1>1, <1>3, <1>6, <2>2, Zenon DEF HInv, Sized
  <2> QED BY <2>1, <2>2, Zenon DEF Sized
<1>11. Scanned'
  <2>1. ASSUME NEW q \in Procs, pc'[q] = "scan" PROVE q = p
    BY <1>6, <2>1, Zenon DEF Critical
  <2>2. 0 \in Blocks' /\ 0 # NULL
    BY <1>4, Arena, Zenon DEF Tiles
  <2>3. ASSUME NEW b \in Blocks' PROVE ~ (b < 0)
    <3>1. b \in Addr
      BY <1>4, Zenon DEF Tiles
    <3> QED BY <3>1, Arena
  <2> QED BY <1>3, <2>1, <2>2, <2>3, Zenon DEF Scanned
<1> QED BY <1>4, <1>5, <1>7, <1>8, <1>9, <1>10, <1>11, Zenon DEF HInv

(* malloc() goes on to the next block. *)
LEMMA MallocNextStep ==
  ASSUME HInv, NEW p \in Procs, MallocNext(p)
  PROVE  HInv'
<1> DEFINE b == block[p]
<1>1. /\ pc[p] = "scan" /\ b # NULL /\ ~Fits(b, needed(size[p]))
      /\ g_lock' = g_lock /\ mem' = mem /\ size' = size /\ live' = live /\ pc' = pc
      /\ block' = [block EXCEPT ![p] = next_block(mem, b)]
  BY Zenon DEF MallocNext
<1>2. block \in [Procs -> Addr \cup {NULL}]
  BY Zenon DEF HInv, TypeOK
<1>3. block'[p] = next_block(mem, b) /\ \A q \in Procs : q # p => block'[q] = block[q]
  BY <1>1, <1>2, Zenon
<1>4. Blocks' = Blocks /\ Tiles(mem', Blocks') /\ Separate(mem', Blocks')
  BY <1>1, SameMem, Zenon
<1>5. b \in Blocks
  BY <1>1, Zenon DEF HInv, Scanned
<1>6. \/ End(mem, b) = kArenaSize /\ block'[p] = NULL
      \/ End(mem, b) \in Blocks /\ block'[p] = End(mem, b)
  BY <1>3, <1>5, InvMem, Following, Zenon
<1>7. TypeOK'
  <2>1. block'[p] \in Addr \cup {NULL}
    BY <1>6, InvMem, Zenon
  <2>2. block' \in [Procs -> Addr \cup {NULL}]
    BY <1>1, <1>2, <1>3, <2>1, Zenon
  <2> QED BY <1>1, <2>2, Zenon DEF HInv, TypeOK
<1>8. \A q \in Procs : pc[q] \in Holding \/ pc[q] = "took" => q # p
  BY <1>1, Zenon DEF Holding
<1>9. Locked'
  BY <1>1, ZenonT(40) DEF HInv, Locked
<1>10. Owners'
  BY <1>1, <1>3, <1>4, <1>8 DEF HInv, Owners
<1>11. Once'
  BY <1>1, <1>3, <1>8, ZenonT(40) DEF HInv, Once
<1>12. Sized'
  BY <1>1, <1>3, <1>8, Zenon DEF HInv, Sized
<1>13. ASSUME NEW c \in Blocks, block'[p] = NULL \/ c < block'[p] PROVE c < b \/ c = b
  <2>1. c \in Nat /\ c < kArenaSize /\ b \in Nat /\ End(mem, b) \in Nat /\ (b < c => End(mem, b) <= c)
    BY <1>5, InvMem, BlockFacts, Zenon DEF Tiles
  <2>2. c < End(mem, b)
    <3>1. CASE block'[p] = NULL
      <4>1. End(mem, b) = kArenaSize
        BY <1>6, <2>1, <3>1, Arena
      <4> QED BY <2>1, <4>1, Zenon
    <3>2. CASE block'[p] # NULL
      BY <1>6, <1>13, <3>2, Zenon
    <3> QED BY <3>1, <3>2, Zenon
  <2> QED BY <2>1, <2>2
<1>14. Scanned'
  <2> SUFFICES ASSUME NEW q \in Procs, pc'[q] = "scan"
               PROVE  /\ block'[q] \in Blocks' \cup {NULL}
                      /\ \A c \in Blocks' : block'[q] = NULL \/ c < block'[q] => ~Fits(c, needed(size[q]))
    BY <1>1, Zenon DEF Scanned, Fits
  <2>1. CASE q # p
    BY <1>1, <1>3, <1>4, <2>1, Zenon DEF HInv, Scanned
  <2>2. CASE q = p
    <3>1. \A c \in Blocks : c < b => ~Fits(c, needed(size[p]))
      BY <1>1, Zenon DEF HInv, Scanned
    <3> QED BY <1>1, <1>4, <1>6, <1>13, <2>2, <3>1
  <2> QED BY <2>1, <2>2, Zenon
<1> QED BY <1>4, <1>7, <1>9, <1>10, <1>11, <1>12, <1>14, Zenon DEF HInv

(* malloc() takes the block. *)
LEMMA MallocTakeStep ==
  ASSUME SizesFit, HInv, NEW p \in Procs, MallocTake(p)
  PROVE  HInv' /\ \A a \in Addr \ Tags(mem', Blocks') : mem'[a] = mem[a]
<1> DEFINE b == block[p]
           n == needed(size[p])
<1>1. /\ pc[p] = "scan" /\ b # NULL /\ Fits(b, n)
      /\ g_lock' = g_lock /\ mem' = Take(b, n) /\ size' = size /\ live' = live /\ block' = block
      /\ pc' = [pc EXCEPT ![p] = "took"]
  BY Zenon DEF MallocTake
<1>2. pc \in [Procs -> Labels]
  BY Zenon DEF HInv, TypeOK
<1>3. pc'[p] = "took" /\ \A q \in Procs : q # p => pc'[q] = pc[q]
  BY <1>1, <1>2, Zenon
<1>4. b \in Blocks /\ ~mem[b].in_use /\ mem[b].block_size >= n /\ size[p] \in Sizes
  BY <1>1, Zenon DEF HInv, Scanned, Sized, Fits
<1>5. n \in Nat /\ n % kAlignment = 0 /\ 2 * kAlignment <= n /\ size[p] + 2 * kAlignment <= n /\ size[p] \in Nat
  BY <1>4, Needed, Zenon
<1>6. n >= 2 * kAlignment /\ n <= mem[b].block_size
  BY <1>4, <1>5, ZenonT(40)
<1>7. PICK B2 :
        /\ mem' \in MemType /\ Tiles(mem', B2) /\ Separate(mem', B2)
        /\ Blocks \subseteq B2
        /\ mem'[b].in_use /\ n <= mem'[b].block_size
        /\ \A c \in Blocks : c # b => mem'[c] = mem[c]
        /\ \A c \in B2 : c \notin Blocks => ~mem'[c].in_use
        /\ \A a \in Addr \ Tags(mem', B2) : mem'[a] = mem[a]
  BY <1>1, <1>4, <1>5, <1>6, InvMem, TakeBlocks
<1>8. Blocks' = B2
  BY <1>7, NewBlocks, Zenon
<1>9. TypeOK'
  <2>1. pc' \in [Procs -> Labels]
    BY <1>1, <1>2, Zenon DEF Labels
  <2> QED BY <1>1, <1>7, <2>1, Zenon DEF HInv, TypeOK, MemType
<1>10. \A q \in Procs : /\ pc'[q] \in Critical => q = p
                        /\ pc'[q] \in Holding => q = p \/ pc[q] \in Holding
                        /\ pc[q] \in Holding => pc'[q] \in Holding
  <2>1. \A q \in Procs : pc[q] \in Critical => q = p
    BY <1>1, Zenon DEF HInv, Locked, Critical
  <2> QED BY <1>1, <1>3, <2>1, Zenon DEF Holding
<1>11. Locked'
  <2>1. g_lock
    BY <1>1, Zenon DEF HInv, Locked, Critical
  <2> QED BY <1>1, <1>10, <2>1, Zenon DEF Locked
<1>12. \A x \in live : header_of(x.ptr) \in Blocks /\ header_of(x.ptr) # b /\ mem'[header_of(x.ptr)] = mem[header_of(x.ptr)]
  BY <1>4, <1>7, Zenon DEF HInv, Owners
<1>13. \A q \in Procs : pc[q] \in Holding => block[q] \in Blocks /\ block[q] # b /\ mem'[block[q]] = mem[block[q]]
  BY <1>4, <1>7, Zenon DEF HInv, Owners
<1>14. pc'[p] \in Holding
  BY <1>3, Zenon DEF Holding
<1>15. Owners'
  <2>1. \A x \in live' : /\ header_of(x.ptr) \in Blocks' /\ mem'[header_of(x.ptr)].in_use
                         /\ mem'[header_of(x.ptr)].block_size >= x.size + 2 * kTagSize
    BY <1>1, <1>7, <1>8, <1>12, Zenon DEF HInv, Owners
  <2>2. \A q \in Procs : pc'[q] \in Holding => block'[q] \in Blocks' /\ mem'[block'[q]].in_use
    BY <1>1, <1>4, <1>7, <1>8, <1>10, <1>13, Zenon DEF HInv, Owners
  <2>3. ASSUME NEW c \in Blocks', mem'[c].in_use
        PROVE  \/ \E x \in live' : header_of(x.ptr) = c
               \/ \E q \in Procs : pc'[q] \in Holding /\ block'[q] = c
    <3>1. CASE c = b
      BY <1>1, <1>14, <3>1, Zenon
    <3>2. CASE c # b
      <4>1. c \in Blocks /\ mem[c].in_use
        BY <1>7, <1>8, <2>3, <3>2, Zenon
      <4> QED BY <1>1, <1>10, <4>1, Zenon DEF HInv, Owners
    <3> QED BY <3>1, <3>2, Zenon
  <2> QED BY <2>1, <2>2, <2>3, Zenon DEF Owners
<1>16. Once'
  BY <1>1, <1>10, <1>12, <1>13, ZenonT(40) DEF HInv, Once
<1>17. Sized'
  <2>1. ASSUME NEW q \in Procs, pc'[q] \in {"malloc_lock", "scan", "took"} PROVE size'[q] \in Sizes
    BY <1>1, <1>3, <1>4, <2>1, Zenon DEF HInv, Sized
  <2>2. ASSUME NEW q \in Procs, pc'[q] = "took" PROVE q = p
    BY <1>10, <2>2, Zenon DEF Critical
  <2>3. mem'[b].block_size >= size[p] + 2 * kTagSize
    <3>1. b \in Addr /\ mem'[b].block_size \in Nat
      BY <1>4, <1>7, InvMem, TagAt, Zenon
    <3>2. n <= mem'[b].block_size
      BY <1>7, Zenon
    <3> HIDE DEF n
    <3> QED BY <1>5, <3>1, <3>2, Arena DEF kTagSize
  <2> QED BY <1>1, <2>1, <2>2, <2>3, Zenon DEF Sized
<1>18. Scanned'
  <2>1. ASSUME NEW q \in Procs, pc'[q] = "scan" PROVE FALSE
    <3>1. q = p
      BY <1>10, <2>1, Zenon DEF Critical
    <3> QED BY <1>3, <2>1, <3>1, Zenon
  <2> QED BY <2>1, Zenon DEF Scanned
<1> QED BY <1>7, <1>8, <1>9, <1>11, <1>15, <1>16, <1>17, <1>18, Zenon DEF HInv

(* Where a region that is handed out lies. *)
LEMMA NewRegion ==
  ASSUME HInv, NEW p \in Procs, pc[p] = "took"
  PROVE  LET a == payload_of(block[p]) IN
         /\ block[p] \in Blocks /\ header_of(a) = block[p] /\ a \in Addr
         /\ mem[block[p]].in_use /\ mem[block[p]].block_size >= size[p] + 2 * kTagSize /\ size[p] \in Sizes
<1> DEFINE b == block[p]
<1>1. b \in Blocks /\ mem[b].in_use
  BY Zenon DEF HInv, Owners, Holding
<1>2. mem[b].block_size >= size[p] + 2 * kTagSize /\ size[p] \in Sizes
  BY Zenon DEF HInv, Sized
<1>3. /\ b \in Nat /\ b % kAlignment = 0 /\ mem[b].block_size \in Nat /\ mem[b].block_size >= 2 * kAlignment
      /\ End(mem, b) = b + mem[b].block_size /\ End(mem, b) <= kArenaSize
  BY <1>1, InvMem, BlockFacts, Zenon
<1>4. (b + kAlignment) % kAlignment = 0
  BY <1>3, Arena, Multiples
<1>5. b + kAlignment \in Int /\ 0 <= b + kAlignment /\ b + kAlignment < kArenaSize
  BY <1>3, Arena
<1>6. b + kAlignment \in Addr
  BY <1>4, <1>5, Arena, Zenon
<1>7. payload_of(b) = b + kAlignment
  BY Zenon DEF payload_of, kTagSize
<1>8. header_of(payload_of(b)) = b
  BY <1>3, HeaderPayload
<1> QED BY <1>1, <1>2, <1>6, <1>7, <1>8, Zenon

(* malloc() returns the block. *)
LEMMA MallocReturnStep ==
  ASSUME HInv, NEW p \in Procs, MallocReturn(p)
  PROVE  HInv'
<1> DEFINE b == block[p]
           z == [ptr |-> payload_of(b), size |-> size[p]]
<1>1. /\ pc[p] = "took" /\ g_lock' = FALSE /\ mem' = mem /\ live' = live \cup {z}
      /\ pc' = [pc EXCEPT ![p] = "idle"] /\ size' = [size EXCEPT ![p] = 0] /\ block' = [block EXCEPT ![p] = NULL]
  BY Zenon DEF MallocReturn
<1>2. pc \in [Procs -> Labels] /\ size \in [Procs -> Sizes \cup {0}] /\ block \in [Procs -> Addr \cup {NULL}]
  BY Zenon DEF HInv, TypeOK
<1>3. pc'[p] = "idle" /\ \A q \in Procs : q # p => pc'[q] = pc[q] /\ size'[q] = size[q] /\ block'[q] = block[q]
  BY <1>1, <1>2, Zenon
<1>4. Blocks' = Blocks /\ Tiles(mem', Blocks') /\ Separate(mem', Blocks')
  BY <1>1, SameMem, Zenon
<1>5. /\ b \in Blocks /\ header_of(payload_of(b)) = b /\ payload_of(b) \in Addr
      /\ mem[b].in_use /\ mem[b].block_size >= size[p] + 2 * kTagSize /\ size[p] \in Sizes
  BY <1>1, NewRegion, Zenon
<1>6. z \in [ptr : Addr, size : Sizes] /\ z.ptr = payload_of(b) /\ z.size = size[p]
  BY <1>5
<1> HIDE DEF z
<1>7. TypeOK'
  <2>1. pc' \in [Procs -> Labels]
    BY <1>1, <1>2, Zenon DEF Labels
  <2>2. size' \in [Procs -> Sizes \cup {0}] /\ block' \in [Procs -> Addr \cup {NULL}]
    BY <1>1, <1>2, Zenon
  <2>3. live' \subseteq [ptr : Addr, size : Sizes]
    BY <1>1, <1>6, Zenon DEF HInv, TypeOK
  <2>4. g_lock' \in BOOLEAN
    BY <1>1, Zenon
  <2> QED BY <1>1, <2>1, <2>2, <2>3, <2>4, Zenon DEF HInv, TypeOK
<1>8. pc[p] \in Holding /\ pc[p] \in Critical
  BY <1>1, Zenon DEF Holding, Critical
<1>9. \A q \in Procs : /\ pc'[q] \notin Critical
                       /\ pc'[q] \in Holding <=> q # p /\ pc[q] \in Holding
  <2>1. \A q \in Procs : pc[q] \in Critical => q = p
    BY <1>8, Zenon DEF HInv, Locked
  <2> QED BY <1>3, <2>1, Zenon DEF Holding, Critical
<1>10. Locked'
  BY <1>9, Zenon DEF Locked
<1>11. Owners'
  <2>1. \A x \in live' : /\ header_of(x.ptr) \in Blocks' /\ mem'[header_of(x.ptr)].in_use
                         /\ mem'[header_of(x.ptr)].block_size >= x.size + 2 * kTagSize
    BY <1>1, <1>4, <1>5, <1>6, ZenonT(40) DEF HInv, Owners
  <2>2. \A q \in Procs : pc'[q] \in Holding => block'[q] \in Blocks' /\ mem'[block'[q]].in_use
    BY <1>1, <1>3, <1>4, <1>9 DEF HInv, Owners
  <2>3. ASSUME NEW c \in Blocks', mem'[c].in_use
        PROVE  \/ \E x \in live' : header_of(x.ptr) = c
               \/ \E q \in Procs : pc'[q] \in Holding /\ block'[q] = c
    <3>1. CASE c = b
      <4>1. z \in live' /\ header_of(z.ptr) = c
        BY <1>1, <1>5, <1>6, <3>1, Zenon
      <4> QED BY <4>1, Zenon
    <3>2. CASE c # b
      <4>1. \/ \E x \in live : header_of(x.ptr) = c
            \/ \E q \in Procs : pc[q] \in Holding /\ block[q] = c
        BY <1>1, <1>4, <2>3, Zenon DEF HInv, Owners
      <4> QED BY <1>1, <1>3, <1>9, <3>2, <4>1, Zenon
    <3> QED BY <3>1, <3>2, Zenon
  <2> QED BY <2>1, <2>2, <2>3, Zenon DEF Owners
<1>12. Once'
  <2>1. \A x \in live : header_of(x.ptr) # b
    BY <1>8, Zenon DEF HInv, Once
  <2>2. \A x, y \in live' : x.ptr = y.ptr => x = y
    BY <1>1, <1>5, <1>6, <2>1 DEF HInv, Once
  <2>3. \A x \in live' : \A q \in Procs : pc'[q] \in Holding => header_of(x.ptr) # block'[q]
    BY <1>1, <1>3, <1>5, <1>6, <1>8, <1>9 DEF HInv, Once
  <2>4. \A q, r \in Procs : pc'[q] \in Holding /\ pc'[r] \in Holding /\ block'[q] = block'[r] => q = r
    BY <1>3, <1>9, Zenon DEF HInv, Once
  <2> QED BY <2>2, <2>3, <2>4, Zenon DEF Once
<1>13. Sized'
  BY <1>1, <1>3, Zenon DEF HInv, Sized
<1>14. Scanned'
  BY <1>9, Zenon DEF Scanned, Critical
<1> QED BY <1>4, <1>7, <1>10, <1>11, <1>12, <1>13, <1>14, Zenon DEF HInv

(* malloc() finds no block. *)
LEMMA MallocFailStep ==
  ASSUME HInv, NEW p \in Procs, MallocFail(p)
  PROVE  HInv'
<1> DEFINE l == "null"
<1>1. /\ pc[p] = "scan" /\ g_lock' = FALSE /\ mem' = mem /\ block' = block /\ live' = live
      /\ pc' = [pc EXCEPT ![p] = l] /\ size' = size
  BY Zenon DEF MallocFail
<1>2. pc \in [Procs -> Labels] /\ size \in [Procs -> Sizes \cup {0}]
  BY Zenon DEF HInv, TypeOK
<1>3. l \in Labels /\ l \notin Critical /\ l \notin Holding /\ l \notin {"malloc_lock", "scan", "took"}
  BY DEF Labels, Critical, Holding
<1> HIDE DEF l
<1>4. pc'[p] = l /\ \A q \in Procs : q # p => pc'[q] = pc[q] /\ size'[q] = size[q]
  BY <1>1, <1>2, Zenon
<1>5. Blocks' = Blocks /\ Tiles(mem', Blocks') /\ Separate(mem', Blocks')
  BY <1>1, SameMem, Zenon
<1>6. TypeOK'
  <2>1. pc' \in [Procs -> Labels]
    BY <1>1, <1>2, <1>3, Zenon
  <2>2. size' \in [Procs -> Sizes \cup {0}]
    BY <1>1, <1>2, Zenon
  <2>3. g_lock' \in BOOLEAN
    BY <1>1, Zenon
  <2> QED BY <1>1, <2>1, <2>2, <2>3, Zenon DEF HInv, TypeOK
<1>7. \A q \in Procs : /\ pc'[q] \notin Critical
                       /\ pc'[q] \in Holding <=> pc[q] \in Holding
  <2>1. \A q \in Procs : pc[q] \in Critical => q = p
    BY <1>1, Zenon DEF HInv, Locked, Critical
  <2>2. pc[p] \notin Holding
    BY <1>1, Zenon DEF Holding
  <2> QED BY <1>3, <1>4, <2>1, <2>2, Zenon
<1>8. Locked'
  BY <1>7, Zenon DEF Locked
<1>9. Owners'
  BY <1>1, <1>5, <1>7, Zenon DEF HInv, Owners
<1>10. Once'
  BY <1>1, <1>7, Zenon DEF HInv, Once
<1>11. Sized'
  BY <1>1, <1>3, <1>4, <1>7, Zenon DEF HInv, Sized, Critical
<1>12. Scanned'
  BY <1>7, Zenon DEF Scanned, Critical
<1> QED BY <1>5, <1>6, <1>8, <1>9, <1>10, <1>11, <1>12, Zenon DEF HInv

(* malloc() returns nullptr to its caller. *)
LEMMA NullReturnStep ==
  ASSUME HInv, NEW p \in Procs, NEW f \in Callers, NullReturn(p, f)
  PROVE  HInv'
<1> DEFINE l == IF f = "new" THEN "oom" ELSE "idle"
<1>1. /\ pc[p] = "null" /\ g_lock' = g_lock /\ mem' = mem /\ block' = block /\ live' = live
      /\ pc' = [pc EXCEPT ![p] = l] /\ size' = [size EXCEPT ![p] = 0]
  BY Zenon DEF NullReturn
<1>2. pc \in [Procs -> Labels] /\ size \in [Procs -> Sizes \cup {0}]
  BY Zenon DEF HInv, TypeOK
<1>3. l \in Labels /\ l \notin Critical /\ l \notin Holding /\ l \notin {"malloc_lock", "scan", "took"}
  BY DEF Labels, Critical, Holding
<1> HIDE DEF l
<1>4. pc'[p] = l /\ \A q \in Procs : q # p => pc'[q] = pc[q] /\ size'[q] = size[q]
  BY <1>1, <1>2, Zenon
<1>5. Blocks' = Blocks /\ Tiles(mem', Blocks') /\ Separate(mem', Blocks')
  BY <1>1, SameMem, Zenon
<1>6. TypeOK'
  <2>1. pc' \in [Procs -> Labels]
    BY <1>1, <1>2, <1>3, Zenon
  <2>2. size' \in [Procs -> Sizes \cup {0}]
    BY <1>1, <1>2, Zenon
  <2> QED BY <1>1, <2>1, <2>2, Zenon DEF HInv, TypeOK
<1>7. pc[p] \notin Critical /\ pc[p] \notin Holding
  BY <1>1, Zenon DEF Critical, Holding
<1>8. \A q \in Procs : /\ pc'[q] \in Critical => pc[q] \in Critical /\ q # p
                       /\ pc'[q] \in Holding <=> pc[q] \in Holding
                       /\ pc'[q] \in {"malloc_lock", "scan", "took"} => pc'[q] = pc[q] /\ q # p
  BY <1>3, <1>4, <1>7, Zenon
<1>9. Locked'
  BY <1>1, <1>8, Zenon DEF HInv, Locked
<1>10. Owners'
  BY <1>1, <1>5, <1>8, Zenon DEF HInv, Owners
<1>11. Once'
  BY <1>1, <1>8, Zenon DEF HInv, Once
<1>12. Sized'
  BY <1>1, <1>4, <1>8, Zenon DEF HInv, Sized
<1>13. Scanned'
  BY <1>1, <1>4, <1>5, <1>8, Zenon DEF HInv, Scanned, Fits
<1> QED BY <1>5, <1>6, <1>9, <1>10, <1>11, <1>12, <1>13, Zenon DEF HInv

(* free() is called: the region is the core's now. *)
LEMMA FreeCallStep ==
  ASSUME HInv, NEW p \in Procs, NEW z \in live, FreeCall(p, z)
  PROVE  HInv'
<1> DEFINE b == header_of(z.ptr)
<1>1. /\ pc[p] = "idle" /\ g_lock' = g_lock /\ mem' = mem /\ size' = size /\ live' = live \ {z}
      /\ pc' = [pc EXCEPT ![p] = "free_lock"] /\ block' = [block EXCEPT ![p] = b]
  BY Zenon DEF FreeCall
<1>2. pc \in [Procs -> Labels] /\ block \in [Procs -> Addr \cup {NULL}] /\ live \subseteq [ptr : Addr, size : Sizes]
  BY Zenon DEF HInv, TypeOK
<1>3. pc'[p] = "free_lock" /\ block'[p] = b /\ \A q \in Procs : q # p => pc'[q] = pc[q] /\ block'[q] = block[q]
  BY <1>1, <1>2, Zenon
<1>4. Blocks' = Blocks /\ Tiles(mem', Blocks') /\ Separate(mem', Blocks')
  BY <1>1, SameMem, Zenon
<1>5. b \in Blocks /\ mem[b].in_use
  BY Zenon DEF HInv, Owners
<1>6. TypeOK'
  <2>1. pc' \in [Procs -> Labels]
    BY <1>1, <1>2, Zenon DEF Labels
  <2>2. b \in Addr
    BY <1>5, InvMem, Zenon
  <2>3. block' \in [Procs -> Addr \cup {NULL}]
    BY <1>1, <1>2, <2>2, Zenon
  <2> QED BY <1>1, <1>2, <2>1, <2>3, Zenon DEF HInv, TypeOK
<1>7. pc[p] \notin Critical /\ pc[p] \notin Holding /\ pc'[p] \notin Critical /\ pc'[p] \in Holding
      /\ pc'[p] \notin {"malloc_lock", "scan", "took"}
  BY <1>1, <1>3, Zenon DEF Critical, Holding
<1>8. \A q \in Procs : /\ pc'[q] \in Critical => pc[q] \in Critical
                       /\ pc'[q] \in Holding <=> q = p \/ pc[q] \in Holding
  BY <1>3, <1>7, Zenon
<1>9. Locked'
  BY <1>1, <1>8, Zenon DEF HInv, Locked
<1>10. Owners'
  <2>1. \A x \in live' : /\ header_of(x.ptr) \in Blocks' /\ mem'[header_of(x.ptr)].in_use
                         /\ mem'[header_of(x.ptr)].block_size >= x.size + 2 * kTagSize
    BY <1>1, <1>4, ZenonT(40) DEF HInv, Owners
  <2>2. \A q \in Procs : pc'[q] \in Holding => block'[q] \in Blocks' /\ mem'[block'[q]].in_use
    BY <1>1, <1>3, <1>4, <1>5, <1>8 DEF HInv, Owners
  <2>3. ASSUME NEW c \in Blocks', mem'[c].in_use
        PROVE  \/ \E x \in live' : header_of(x.ptr) = c
               \/ \E q \in Procs : pc'[q] \in Holding /\ block'[q] = c
    <3>1. \/ \E x \in live : header_of(x.ptr) = c
          \/ \E q \in Procs : pc[q] \in Holding /\ block[q] = c
      BY <1>1, <1>4, <2>3, Zenon DEF HInv, Owners
    <3>2. CASE \E x \in live : header_of(x.ptr) = c
      BY <1>1, <1>3, <1>7, <3>2, Zenon
    <3>3. CASE \E q \in Procs : pc[q] \in Holding /\ block[q] = c
      BY <1>3, <1>7, <1>8, <3>3, Zenon
    <3> QED BY <3>1, <3>2, <3>3, Zenon
  <2> QED BY <2>1, <2>2, <2>3, Zenon DEF Owners
<1>11. Once'
  <2>1. ASSUME NEW x \in live, x # z PROVE header_of(x.ptr) # b
    <3>1. x.ptr # z.ptr
      BY <2>1, Zenon DEF HInv, Once
    <3>2. x.ptr \in Int /\ z.ptr \in Int
      BY <1>2, Arena
    <3> QED BY <3>1, <3>2, HeaderPayload, Zenon
  <2>2. \A q \in Procs : pc[q] \in Holding => block[q] # b
    BY Zenon DEF HInv, Once
  <2>3. \A x, y \in live' : x.ptr = y.ptr => x = y
    BY <1>1, Zenon DEF HInv, Once
  <2>4. \A x \in live' : \A q \in Procs : pc'[q] \in Holding => header_of(x.ptr) # block'[q]
    BY <1>1, <1>3, <1>8, <2>1 DEF HInv, Once
  <2>5. \A q, r \in Procs : pc'[q] \in Holding /\ pc'[r] \in Holding /\ block'[q] = block'[r] => q = r
    BY <1>3, <1>8, <2>2, ZenonT(40) DEF HInv, Once
  <2> QED BY <2>3, <2>4, <2>5, Zenon DEF Once
<1>12. Sized'
  BY <1>1, <1>3, <1>7, Zenon DEF HInv, Sized
<1>13. Scanned'
  BY <1>1, <1>3, <1>4, <1>7, Zenon DEF HInv, Scanned, Fits
<1> QED BY <1>4, <1>6, <1>9, <1>10, <1>11, <1>12, <1>13, Zenon DEF HInv

(* free() takes the lock. *)
LEMMA FreeLockStep ==
  ASSUME HInv, NEW p \in Procs, FreeLock(p)
  PROVE  HInv'
<1>1. /\ pc[p] = "free_lock" /\ ~g_lock /\ g_lock' = TRUE /\ mem' = mem /\ size' = size /\ block' = block /\ live' = live
      /\ pc' = [pc EXCEPT ![p] = "merge"]
  BY Zenon DEF FreeLock
<1>2. pc \in [Procs -> Labels]
  BY Zenon DEF HInv, TypeOK
<1>3. pc'[p] = "merge" /\ \A q \in Procs : q # p => pc'[q] = pc[q]
  BY <1>1, <1>2, Zenon
<1>4. Blocks' = Blocks /\ Tiles(mem', Blocks') /\ Separate(mem', Blocks')
  BY <1>1, SameMem, Zenon
<1>5. TypeOK'
  <2>1. pc' \in [Procs -> Labels]
    BY <1>1, <1>2, Zenon DEF Labels
  <2> QED BY <1>1, <2>1, Zenon DEF HInv, TypeOK
<1>6. \A q \in Procs : pc[q] \notin Critical
  BY <1>1, Zenon DEF HInv, Locked
<1>7. pc[p] \in Holding /\ pc'[p] \in Holding /\ pc'[p] \notin {"malloc_lock", "scan", "took"}
  BY <1>1, <1>3, Zenon DEF Holding
<1>8. \A q \in Procs : /\ pc'[q] \in Critical => q = p
                       /\ pc'[q] \in Holding <=> pc[q] \in Holding
  BY <1>3, <1>6, <1>7, Zenon
<1>9. Locked'
  BY <1>1, <1>8, Zenon DEF Locked
<1>10. Owners'
  BY <1>1, <1>4, <1>8, Zenon DEF HInv, Owners
<1>11. Once'
  BY <1>1, <1>8, Zenon DEF HInv, Once
<1>12. Sized'
  BY <1>1, <1>3, <1>7, Zenon DEF HInv, Sized
<1>13. Scanned'
  BY <1>1, <1>3, <1>4, <1>7, Zenon DEF HInv, Scanned, Fits
<1> QED BY <1>4, <1>5, <1>9, <1>10, <1>11, <1>12, <1>13, Zenon DEF HInv

(* free() merges the block with its free neighbours. *)
LEMMA FreeMergeStep ==
  ASSUME HInv, NEW p \in Procs, FreeMerge(p)
  PROVE  HInv' /\ \A a \in Addr \ Tags(mem', Blocks') : mem'[a] = mem[a]
<1> DEFINE b == block[p]
<1>1. /\ pc[p] = "merge" /\ g_lock' = g_lock /\ mem' = Merge(b) /\ size' = size /\ block' = block /\ live' = live
      /\ pc' = [pc EXCEPT ![p] = "free_unlock"]
  BY Zenon DEF FreeMerge
<1>2. pc \in [Procs -> Labels]
  BY Zenon DEF HInv, TypeOK
<1>3. pc'[p] = "free_unlock" /\ \A q \in Procs : q # p => pc'[q] = pc[q]
  BY <1>1, <1>2, Zenon
<1>4. pc[p] \in Holding /\ pc[p] \in Critical /\ pc'[p] \in Critical
      /\ pc'[p] \notin Holding /\ pc'[p] \notin {"malloc_lock", "scan", "took"}
  BY <1>1, <1>3, Zenon DEF Holding, Critical
<1>5. b \in Blocks
  BY <1>4, Zenon DEF HInv, Owners
<1>6. PICK B2 :
        /\ mem' \in MemType /\ Tiles(mem', B2) /\ Separate(mem', B2)
        /\ \A c : c \in B2 /\ mem'[c].in_use => c \in Blocks /\ mem[c].in_use /\ c # b /\ mem'[c] = mem[c]
        /\ \A c : c \in Blocks /\ mem[c].in_use /\ c # b => c \in B2 /\ mem'[c] = mem[c]
        /\ \A a \in Addr \ Tags(mem', B2) : mem'[a] = mem[a]
  BY <1>1, <1>5, InvMem, MergeBlocks
<1>7. Blocks' = B2
  BY <1>6, NewBlocks, Zenon
<1>8. TypeOK'
  <2>1. pc' \in [Procs -> Labels]
    BY <1>1, <1>2, Zenon DEF Labels
  <2> QED BY <1>1, <1>6, <2>1, Zenon DEF HInv, TypeOK, MemType
<1>9. \A q \in Procs : pc[q] \in Critical => q = p
  BY <1>4, Zenon DEF HInv, Locked
<1>10. \A q \in Procs : /\ pc'[q] \in Critical => q = p
                        /\ pc'[q] \in Holding <=> q # p /\ pc[q] \in Holding
  BY <1>3, <1>4, <1>9, Zenon
<1>11. Locked'
  <2>1. g_lock
    BY <1>4, Zenon DEF HInv, Locked
  <2> QED BY <1>1, <1>10, <2>1, Zenon DEF Locked
<1>12. \A x \in live : /\ header_of(x.ptr) \in Blocks' /\ mem[header_of(x.ptr)].in_use
                       /\ mem'[header_of(x.ptr)] = mem[header_of(x.ptr)]
  <2>1. \A x \in live : header_of(x.ptr) # b
    BY <1>4, Zenon DEF HInv, Once
  <2> QED BY <1>6, <1>7, <2>1, Zenon DEF HInv, Owners
<1>13. \A q \in Procs : q # p /\ pc[q] \in Holding => /\ block[q] \in Blocks' /\ mem[block[q]].in_use
                                                      /\ mem'[block[q]] = mem[block[q]]
  <2>1. \A q \in Procs : q # p /\ pc[q] \in Holding => block[q] # b
    BY <1>4, Zenon DEF HInv, Once
  <2> QED BY <1>6, <1>7, <2>1, Zenon DEF HInv, Owners
<1>14. Owners'
  <2>1. \A x \in live' : /\ header_of(x.ptr) \in Blocks' /\ mem'[header_of(x.ptr)].in_use
                         /\ mem'[header_of(x.ptr)].block_size >= x.size + 2 * kTagSize
    BY <1>1, <1>12, Zenon DEF HInv, Owners
  <2>2. \A q \in Procs : pc'[q] \in Holding => block'[q] \in Blocks' /\ mem'[block'[q]].in_use
    BY <1>1, <1>10, <1>13, Zenon
  <2>3. ASSUME NEW c \in Blocks', mem'[c].in_use
        PROVE  \/ \E x \in live' : header_of(x.ptr) = c
               \/ \E q \in Procs : pc'[q] \in Holding /\ block'[q] = c
    <3>1. c \in Blocks /\ mem[c].in_use /\ c # b
      BY <1>6, <1>7, <2>3, Zenon
    <3>2. \/ \E x \in live : header_of(x.ptr) = c
          \/ \E q \in Procs : pc[q] \in Holding /\ block[q] = c
      BY <3>1, Zenon DEF HInv, Owners
    <3> QED BY <1>1, <1>10, <3>1, <3>2, Zenon
  <2> QED BY <2>1, <2>2, <2>3, Zenon DEF Owners
<1>15. Once'
  BY <1>1, <1>10, Zenon DEF HInv, Once
<1>16. Sized'
  <2>1. ASSUME NEW q \in Procs, pc'[q] \in {"malloc_lock", "scan", "took"} PROVE size'[q] \in Sizes
    BY <1>1, <1>3, <1>4, <2>1, Zenon DEF HInv, Sized
  <2>2. ASSUME NEW q \in Procs, pc'[q] = "took" PROVE FALSE
    <3>1. q = p
      BY <1>10, <2>2, Zenon DEF Critical
    <3> QED BY <1>3, <2>2, <3>1, Zenon
  <2> QED BY <2>1, <2>2, Zenon DEF Sized
<1>17. Scanned'
  <2>1. ASSUME NEW q \in Procs, pc'[q] = "scan" PROVE FALSE
    <3>1. q = p
      BY <1>10, <2>1, Zenon DEF Critical
    <3> QED BY <1>3, <2>1, <3>1, Zenon
  <2> QED BY <2>1, Zenon DEF Scanned
<1> QED BY <1>6, <1>7, <1>8, <1>11, <1>14, <1>15, <1>16, <1>17, Zenon DEF HInv

(* free() lets go of the lock. *)
LEMMA FreeUnlockStep ==
  ASSUME HInv, NEW p \in Procs, FreeUnlock(p)
  PROVE  HInv'
<1>1. /\ pc[p] = "free_unlock" /\ g_lock' = FALSE /\ mem' = mem /\ size' = size /\ live' = live
      /\ pc' = [pc EXCEPT ![p] = "idle"] /\ block' = [block EXCEPT ![p] = NULL]
  BY Zenon DEF FreeUnlock
<1>2. pc \in [Procs -> Labels] /\ block \in [Procs -> Addr \cup {NULL}]
  BY Zenon DEF HInv, TypeOK
<1>3. pc'[p] = "idle" /\ \A q \in Procs : q # p => pc'[q] = pc[q] /\ block'[q] = block[q]
  BY <1>1, <1>2, Zenon
<1>4. Blocks' = Blocks /\ Tiles(mem', Blocks') /\ Separate(mem', Blocks')
  BY <1>1, SameMem, Zenon
<1>5. TypeOK'
  <2>1. pc' \in [Procs -> Labels] /\ block' \in [Procs -> Addr \cup {NULL}]
    BY <1>1, <1>2, Zenon DEF Labels
  <2>2. g_lock' \in BOOLEAN
    BY <1>1, Zenon
  <2> QED BY <1>1, <2>1, <2>2, Zenon DEF HInv, TypeOK
<1>6. pc[p] \in Critical /\ pc[p] \notin Holding /\ pc'[p] \notin Holding /\ pc'[p] \notin Critical
      /\ pc'[p] \notin {"malloc_lock", "scan", "took"}
  BY <1>1, <1>3, Zenon DEF Critical, Holding
<1>7. \A q \in Procs : /\ pc'[q] \notin Critical
                       /\ pc'[q] \in Holding => pc[q] \in Holding /\ q # p
                       /\ pc[q] \in Holding => pc'[q] \in Holding /\ q # p
  <2>1. \A q \in Procs : pc[q] \in Critical => q = p
    BY <1>6, Zenon DEF HInv, Locked
  <2> QED BY <1>3, <1>6, <2>1, Zenon
<1>8. Locked'
  BY <1>7, Zenon DEF Locked
<1>9. Owners'
  BY <1>1, <1>3, <1>4, <1>7 DEF HInv, Owners
<1>10. Once'
  BY <1>1, <1>3, <1>7 DEF HInv, Once
<1>11. Sized'
  BY <1>1, <1>3, <1>6, Zenon DEF HInv, Sized
<1>12. Scanned'
  BY <1>7, Zenon DEF Scanned, Critical
<1> QED BY <1>4, <1>5, <1>8, <1>9, <1>10, <1>11, <1>12, Zenon DEF HInv

(* What a caller may write to lies between the tags of its block. *)
LEMMA CellsInside ==
  ASSUME HInv, NEW x \in live, NEW a \in Cells(x)
  PROVE  LET b == header_of(x.ptr) IN
         a \in Addr /\ b \in Blocks /\ mem[b].in_use /\ b < a /\ a < footer_of(mem, b) /\ a \notin Tags(mem, Blocks)
<1> DEFINE b == header_of(x.ptr)
<1>1. a \in Addr /\ a >= x.ptr /\ a < x.ptr + x.size
  BY Zenon DEF Cells
<1>2. b \in Blocks /\ mem[b].in_use /\ mem[b].block_size >= x.size + 2 * kTagSize
  BY Zenon DEF HInv, Owners
<1>3. x.ptr \in Int /\ x.size \in Nat /\ a \in Int
  <2>1. x \in [ptr : Addr, size : Sizes]
    BY Zenon DEF HInv, TypeOK
  <2>2. x.ptr \in Addr /\ x.size \in Sizes
    BY <2>1
  <2> QED BY <1>1, <2>2, SizesNat, Arena, Zenon
<1>4. b = x.ptr - kAlignment
  BY Zenon DEF header_of, kTagSize
<1>5. b \in Nat /\ mem[b].block_size \in Nat /\ footer_of(mem, b) = b + mem[b].block_size - kAlignment
  BY <1>2, InvMem, BlockFacts, Zenon DEF footer_of, kTagSize
<1>6. mem[b].block_size >= x.size + 2 * kAlignment
  BY <1>2, Zenon DEF kTagSize
<1> HIDE DEF b
<1>7. b < a /\ a < footer_of(mem, b)
  BY <1>1, <1>3, <1>4, <1>5, <1>6, Arena
<1>8. \A c \in Blocks : a # c /\ a # footer_of(mem, c)
  BY <1>2, <1>3, <1>7, InvMem, Inside, Zenon
<1>9. a \notin Tags(mem, Blocks)
  BY <1>8, Zenon DEF Tags
<1> QED BY <1>1, <1>2, <1>7, <1>9, Zenon DEF b

(* A caller writes to its region. *)
LEMMA WriteStep ==
  ASSUME HInv, NEW x \in live, Write(x)
  PROVE  HInv'
<1>1. /\ g_lock' = g_lock /\ pc' = pc /\ size' = size /\ block' = block /\ live' = live
      /\ mem' = [a \in Addr |-> IF a \in Cells(x) THEN Data ELSE mem[a]]
  BY Zenon DEF Write
<1>2. \A a \in Cells(x) : a \notin Tags(mem, Blocks)
  BY CellsInside, Zenon
<1>3. mem' \in MemType
  <2>1. kMinBlockSize \in 0 .. kArenaSize
    BY Arena DEF kMinBlockSize, kTagSize
  <2>2. Data \in [block_size : 0 .. kArenaSize, in_use : BOOLEAN]
    BY <2>1 DEF Data, Tag
  <2>3. mem \in [Addr -> [block_size : 0 .. kArenaSize, in_use : BOOLEAN]]
    BY Zenon DEF HInv, TypeOK
  <2> HIDE DEF Data
  <2> QED BY <1>1, <2>2, <2>3, Zenon DEF MemType
<1>4. ASSUME NEW c \in Blocks PROVE mem'[c] = mem[c] /\ mem'[footer_of(mem, c)] = mem[footer_of(mem, c)]
  <2>1. c \in Addr /\ footer_of(mem, c) \in Addr
    BY InvMem, BlockFacts, Zenon
  <2>2. c \in Tags(mem, Blocks) /\ footer_of(mem, c) \in Tags(mem, Blocks)
    BY Zenon DEF Tags
  <2> QED BY <1>1, <1>2, <2>1, <2>2, Zenon
<1>5. \A c \in Blocks : End(mem', c) = End(mem, c) /\ footer_of(mem', c) = footer_of(mem, c)
  BY <1>4, Zenon DEF End, footer_of
<1>6. Tiles(mem', Blocks)
  BY <1>4, <1>5, InvMem, Zenon DEF Tiles
<1>7. Blocks' = Blocks
  BY <1>3, <1>6, NewBlocks, Zenon
<1>8. Separate(mem', Blocks')
  BY <1>4, <1>5, <1>7, InvMem, Zenon DEF Separate
<1>9. TypeOK'
  BY <1>1, <1>3, Zenon DEF HInv, TypeOK, MemType
<1>10. Locked' /\ Once'
  BY <1>1, Zenon DEF HInv, Locked, Once
<1>11. Owners'
  BY <1>1, <1>4, <1>7, ZenonT(40) DEF HInv, Owners
<1>12. Sized'
  <2>1. \A p \in Procs : pc[p] = "took" => block[p] \in Blocks
    BY Zenon DEF HInv, Owners, Holding
  <2> QED BY <1>1, <1>4, <2>1, ZenonT(40) DEF HInv, Sized
<1>13. Scanned'
  BY <1>1, <1>4, <1>7, Zenon DEF HInv, Scanned, Fits
<1> QED BY <1>6, <1>7, <1>8, <1>9, <1>10, <1>11, <1>12, <1>13, Zenon DEF HInv

(* Nothing changes. *)
LEMMA SameVars ==
  ASSUME HInv, UNCHANGED vars
  PROVE  HInv'
<1>1. g_lock' = g_lock /\ mem' = mem /\ pc' = pc /\ size' = size /\ block' = block /\ live' = live
  BY Zenon DEF vars
<1>2. Blocks' = Blocks /\ Tiles(mem', Blocks') /\ Separate(mem', Blocks')
  BY <1>1, SameMem, Zenon
<1>3. TypeOK'
  BY <1>1, Zenon DEF HInv, TypeOK
<1>4. Locked' /\ Once' /\ Sized'
  BY <1>1, Zenon DEF HInv, Locked, Once, Sized
<1>5. Owners'
  BY <1>1, <1>2, Zenon DEF HInv, Owners
<1>6. Scanned'
  BY <1>1, <1>2, Zenon DEF HInv, Scanned, Fits
<1> QED BY <1>2, <1>3, <1>4, <1>5, <1>6, Zenon DEF HInv

(* heap::init() makes one free block of the arena. *)
LEMMA InitHInv ==
  ASSUME Init
  PROVE  HInv
<1> DEFINE zero == [a \in Addr |-> Tag(0, FALSE)]
           T == [block_size : 0 .. kArenaSize, in_use : BOOLEAN]
<1>1. /\ g_lock = FALSE /\ mem = write_tags(zero, 0, kArenaSize, FALSE) /\ live = {}
      /\ pc = [p \in Procs |-> "idle"] /\ size = [p \in Procs |-> 0] /\ block = [p \in Procs |-> NULL]
  BY Zenon DEF Init, init
<1>2. zero \in MemType
  <2>1. Tag(0, FALSE) \in T
    BY Arena DEF Tag
  <2> QED BY <2>1, Zenon DEF MemType
<1>3. 0 + kArenaSize = kArenaSize /\ 0 + kArenaSize <= kArenaSize
  BY Arena
<1> HIDE DEF zero
<1>4. /\ mem \in MemType /\ 0 + kArenaSize - kAlignment \in Addr
      /\ mem[0] = Tag(kArenaSize, FALSE) /\ mem[0 + kArenaSize - kAlignment] = Tag(kArenaSize, FALSE)
      /\ End(mem, 0) = 0 + kArenaSize /\ footer_of(mem, 0) = 0 + kArenaSize - kAlignment
      /\ mem[0].block_size = kArenaSize /\ mem[0].in_use = FALSE
  <2>1. FALSE \in BOOLEAN
    OBVIOUS
  <2>2. Tagged(zero, mem, 0, kArenaSize, FALSE)
    BY <1>1, <1>2, <1>3, <2>1, Arena, WriteTags, Zenon
  <2> QED BY <2>2, Zenon DEF Tagged
<1>5. Tiles(mem, {0})
  <2>1. mem[0].block_size >= kMinBlockSize /\ ~ (0 < 0)
    <3>1. kArenaSize >= kMinBlockSize /\ ~ (0 < 0)
      BY Align DEF kMinBlockSize, kTagSize
    <3> QED BY <1>4, <3>1, Zenon
  <2>2. End(mem, 0) = kArenaSize /\ mem[footer_of(mem, 0)] = mem[0]
    BY <1>3, <1>4, Zenon
  <2> QED BY <2>1, <2>2, Arena, Zenon DEF Tiles
<1>6. Blocks = {0}
  BY <1>4, <1>5, Walk, Zenon
<1>7. Separate(mem, Blocks)
  <2>1. End(mem, 0) # 0
    BY <1>3, <1>4, Arena
  <2> QED BY <1>6, <2>1, Zenon DEF Separate
<1>8. TypeOK
  <2>1. pc \in [Procs -> Labels]
    BY <1>1, Zenon DEF Labels
  <2> QED BY <1>1, <1>4, <2>1, Zenon DEF TypeOK, MemType
<1>9. \A p \in Procs : pc[p] \notin Critical /\ pc[p] \notin Holding /\ pc[p] \notin {"malloc_lock", "scan", "took"}
  BY <1>1, Zenon DEF Critical, Holding
<1>10. Locked /\ Once /\ Sized /\ Scanned
  BY <1>1, <1>9, Zenon DEF Locked, Once, Sized, Scanned
<1>11. Owners
  BY <1>1, <1>4, <1>6, <1>9, Zenon DEF Owners
<1> QED BY <1>5, <1>6, <1>7, <1>8, <1>10, <1>11, Zenon DEF HInv

(* Every step preserves the invariant. *)
LEMMA NextHInv ==
  ASSUME SizesFit, HInv, [Next]_vars
  PROVE  HInv'
<1>1. CASE UNCHANGED vars
  BY <1>1, SameVars, Zenon
<1>2. ASSUME NEW p \in Procs, Malloc(p) PROVE HInv'
  BY <1>2, MallocCallStep, MallocLockStep, MallocNextStep, MallocTakeStep, MallocReturnStep, MallocFailStep, NullReturnStep, Zenon DEF Malloc
<1>3. ASSUME NEW p \in Procs, Free(p) PROVE HInv'
  BY <1>3, FreeCallStep, FreeLockStep, FreeMergeStep, FreeUnlockStep, Zenon DEF Free
<1>4. ASSUME NEW p \in Procs, Spin(p) \/ out_of_memory(p) PROVE HInv'
  BY <1>4, SameVars, Zenon DEF Spin, out_of_memory
<1>5. ASSUME NEW x \in live, Write(x) PROVE HInv'
  BY <1>5, WriteStep, Zenon
<1> QED BY <1>1, <1>2, <1>3, <1>4, <1>5, Zenon DEF Next, Step

(* The invariant holds in every state. *)
LEMMA AlwaysHInv ==
  ASSUME SizesFit
  PROVE  Spec => []HInv
<1>1. Init => HInv
  BY InitHInv, Zenon
<1>2. HInv /\ [Next]_vars => HInv'
  BY NextHInv, Zenon
<1> QED BY <1>1, <1>2, PTL DEF Spec

-----------------------------------------------------------------------------
(* The theorems.                                                           *)

(* The blocks tile the arena whenever the lock is free: the walk malloc()  *)
(* takes ends at the end of the arena and the two tags of a block agree,   *)
(* so that next_block() and prev_block() find the neighbours.              *)
THEOREM ArenaStaysTiled ==
  ASSUME SizesFit
  PROVE  Spec => []TilesArena
<1>1. HInv => TilesArena
  <2> SUFFICES ASSUME HInv PROVE TilesArena
    OBVIOUS
  <2>1. Header[Places] = kArenaSize
    BY InvMem, Walk, Zenon
  <2>2. \A b \in Blocks : mem[b].block_size >= kMinBlockSize /\ mem[footer_of(mem, b)] = mem[b]
    BY InvMem, Zenon DEF Tiles
  <2> QED BY <2>1, <2>2, Zenon DEF HInv, TilesArena
<1> QED BY <1>1, AlwaysHInv, PTL

(* free() leaves no two free blocks next to each other. *)
THEOREM FreeBlocksMerge ==
  ASSUME SizesFit
  PROVE  Spec => []Coalesced
<1>1. HInv => Coalesced
  <2> SUFFICES ASSUME HInv, NEW b \in Blocks, ~mem[b].in_use, next_block(mem, b) # NULL
               PROVE  mem[next_block(mem, b)].in_use
    BY Zenon DEF Coalesced
  <2>1. End(mem, b) \in Blocks /\ next_block(mem, b) = End(mem, b)
    BY InvMem, Following, Zenon
  <2> QED BY <2>1, InvMem, Zenon DEF Separate
<1> QED BY <1>1, AlwaysHInv, PTL

(* No block leaks and none is given twice: whenever the lock is free, the  *)
(* blocks in use are those callers own or are about to free().             *)
THEOREM NoLeakNoDouble ==
  ASSUME SizesFit
  PROVE  Spec => []InUseIsOwned
<1>1. HInv => InUseIsOwned
  <2> SUFFICES ASSUME HInv, ~g_lock PROVE InUseIsOwned
    BY Zenon DEF InUseIsOwned
  <2> DEFINE held == {header_of(x.ptr) : x \in live}
             back == {block[p] : p \in {r \in Procs : pc[r] = "free_lock"}}
  <2>1. \A p \in Procs : pc[p] \in Holding <=> pc[p] = "free_lock"
    <3>1. \A p \in Procs : pc[p] \notin Critical
      BY Zenon DEF HInv, Locked
    <3> QED BY <3>1, Zenon DEF Holding, Critical
  <2>2. \A b : b \in held <=> \E x \in live : header_of(x.ptr) = b
    BY Zenon
  <2>3. \A b : b \in back <=> \E p \in Procs : pc[p] \in Holding /\ block[p] = b
    BY <2>1, Zenon
  <2> HIDE DEF held, back
  <2>4. {b \in Blocks : mem[b].in_use} = held \cup back
    <3>1. \A b : b \in held => b \in Blocks /\ mem[b].in_use
      BY <2>2, Zenon DEF HInv, Owners
    <3>2. \A b : b \in back => b \in Blocks /\ mem[b].in_use
      BY <2>3, Zenon DEF HInv, Owners
    <3>3. \A b \in Blocks : mem[b].in_use => b \in held \/ b \in back
      BY <2>2, <2>3, Zenon DEF HInv, Owners
    <3> QED BY <3>1, <3>2, <3>3, Zenon
  <2>5. held \cap back = {}
    <3>1. \A b : ~ (b \in held /\ b \in back)
      BY <2>2, <2>3, ZenonT(40) DEF HInv, Once
    <3> QED BY <3>1, Zenon
  <2>6. \A x, y \in live : x.ptr = y.ptr => x = y
    BY Zenon DEF HInv, Once
  <2> QED BY <2>4, <2>5, <2>6, Zenon DEF InUseIsOwned, held, back
<1> QED BY <1>1, AlwaysHInv, PTL

(* Every block handed out has room between its tags for the bytes asked    *)
(* for, whatever align_up() and the split made of the size.                *)
THEOREM RoomIsGiven ==
  ASSUME SizesFit
  PROVE  Spec => []RoomForSize
<1>1. HInv => RoomForSize
  BY Zenon DEF HInv, Owners, RoomForSize
<1> QED BY <1>1, AlwaysHInv, PTL

(* A core that has come to the end of the list has found no block: none of *)
(* those that are free now has room.                                       *)
LEMMA NothingFits ==
  ASSUME SizesFit, HInv, NEW p \in Procs, pc[p] = "scan", block[p] = NULL
  PROVE  ~ \E b \in Blocks : ~mem[b].in_use /\ mem[b].block_size >= size[p] + 2 * kTagSize
<1> SUFFICES ASSUME NEW b \in Blocks, ~mem[b].in_use, mem[b].block_size >= size[p] + 2 * kTagSize
             PROVE  FALSE
  BY Zenon
<1>1. ~Fits(b, needed(size[p])) /\ size[p] \in Sizes
  BY Zenon DEF HInv, Scanned, Sized
<1>2. mem[b].block_size \in Nat /\ mem[b].block_size % kAlignment = 0
  BY InvMem, BlockFacts, Zenon
<1>3. size[p] + 2 * kAlignment <= mem[b].block_size /\ mem[b].block_size \in Int
  <2>1. size[p] \in Nat
    BY <1>1, Needed, Zenon
  <2> QED BY <1>2, <2>1, Arena DEF kTagSize
<1>4. needed(size[p]) <= mem[b].block_size
  BY <1>1, <1>2, <1>3, Needed, Zenon
<1>5. mem[b].block_size >= needed(size[p])
  BY <1>4, Zenon
<1> QED BY <1>1, <1>5, Zenon DEF Fits

(* The steps on which malloc() decides to return nullptr: a call for no    *)
(* bytes, and the end of the list.                                         *)
LEMMA DecidesNull ==
  ASSUME HInv, [Next]_vars, NEW p \in Procs, pc[p] # "null", pc'[p] = "null"
  PROVE  size'[p] = 0 \/ (pc[p] = "scan" /\ block[p] = NULL)
<1>1. pc \in [Procs -> Labels] /\ size \in [Procs -> Sizes \cup {0}]
  BY Zenon DEF HInv, TypeOK
<1>2. ASSUME NEW q \in Procs, NEW l, pc' = [pc EXCEPT ![q] = l] PROVE q = p /\ l = "null"
  BY <1>1, <1>2, Zenon
<1>3. ASSUME pc' = pc PROVE FALSE
  BY <1>3, Zenon
<1>4. ASSUME NEW q \in Procs, NEW n \in Sizes, MallocCall(q, n) PROVE size'[p] = 0
  <2>1. pc' = [pc EXCEPT ![q] = IF n = 0 THEN "null" ELSE "malloc_lock"] /\ size' = [size EXCEPT ![q] = n]
    BY <1>4, Zenon DEF MallocCall
  <2>2. q = p /\ (IF n = 0 THEN "null" ELSE "malloc_lock") = "null"
    BY <1>2, <2>1, Zenon
  <2>3. n = 0
    BY <2>2
  <2> QED BY <1>1, <2>1, <2>2, <2>3, Zenon
<1>5. ASSUME NEW q \in Procs, MallocFail(q) PROVE pc[p] = "scan" /\ block[p] = NULL
  BY <1>2, <1>5, Zenon DEF MallocFail
<1>6. ASSUME NEW q \in Procs, MallocLock(q) \/ MallocNext(q) \/ MallocTake(q) \/ MallocReturn(q) PROVE FALSE
  BY <1>2, <1>3, <1>6, Zenon DEF MallocLock, MallocNext, MallocTake, MallocReturn
<1>7. ASSUME NEW q \in Procs, NEW f \in Callers, NullReturn(q, f) PROVE FALSE
  BY <1>2, <1>7, Zenon DEF NullReturn
<1>8. ASSUME NEW q \in Procs, Free(q) PROVE FALSE
  BY <1>2, <1>8, Zenon DEF Free, FreeCall, FreeLock, FreeMerge, FreeUnlock
<1>9. ASSUME (\E q \in Procs : Spin(q) \/ out_of_memory(q)) \/ (\E x \in live : Write(x)) \/ UNCHANGED vars PROVE FALSE
  BY <1>3, <1>9, Zenon DEF Spin, out_of_memory, Write, vars
<1> QED BY <1>4, <1>5, <1>6, <1>7, <1>8, <1>9, Zenon DEF Next, Step, Malloc

(* malloc() returns nullptr only when no free block has room or no bytes   *)
(* are asked for.                                                          *)
THEOREM FailsWhenFull ==
  ASSUME SizesFit
  PROVE  Spec => FailsOnlyWhenFull
<1> DEFINE Honest == \A p \in Procs :
              pc[p] # "null" /\ pc'[p] = "null" =>
                \/ size'[p] = 0
                \/ ~ \E b \in Blocks : ~mem[b].in_use /\ mem[b].block_size >= size[p] + 2 * kTagSize
<1>1. HInv /\ [Next]_vars => [Honest]_vars
  BY DecidesNull, NothingFits, Zenon
<1> QED BY <1>1, AlwaysHInv, PTL DEF Spec, FailsOnlyWhenFull

-----------------------------------------------------------------------------
(* The heap is the allocator its header promises.                          *)

Content == [a \in UNION {Cells(x) : x \in live} |-> mem[a]]

(* The regions callers own lie in the arena, apart from each other. *)
LEMMA RegionsNow ==
  HInv =>
    /\ \A x \in live :
         /\ x \in [ptr : Addr, size : Sizes] /\ x.ptr \in Nat /\ x.size \in Nat /\ x.ptr % kAlignment = 0
         /\ x.ptr + x.size <= kArenaSize
         /\ \A a \in Cells(x) : a \in Addr /\ a \notin Tags(mem, Blocks)
    /\ \A x, y \in live : x # y => x.ptr + x.size <= y.ptr \/ y.ptr + y.size <= x.ptr
<1> SUFFICES ASSUME HInv
             PROVE  /\ \A x \in live :
                         /\ x \in [ptr : Addr, size : Sizes] /\ x.ptr \in Nat /\ x.size \in Nat /\ x.ptr % kAlignment = 0
                         /\ x.ptr + x.size <= kArenaSize
                         /\ \A a \in Cells(x) : a \in Addr /\ a \notin Tags(mem, Blocks)
                    /\ \A x, y \in live : x # y => x.ptr + x.size <= y.ptr \/ y.ptr + y.size <= x.ptr
  OBVIOUS
<1>1. ASSUME NEW x \in live
      PROVE  /\ x \in [ptr : Addr, size : Sizes] /\ x.ptr \in Nat /\ x.size \in Nat /\ x.ptr % kAlignment = 0
             /\ header_of(x.ptr) \in Blocks /\ header_of(x.ptr) = x.ptr - kAlignment
             /\ mem[header_of(x.ptr)].block_size >= x.size + 2 * kAlignment
             /\ x.ptr + x.size <= End(mem, header_of(x.ptr)) - kAlignment
             /\ End(mem, header_of(x.ptr)) \in Nat /\ End(mem, header_of(x.ptr)) <= kArenaSize
  <2> DEFINE b == header_of(x.ptr)
  <2>1. x \in [ptr : Addr, size : Sizes]
    BY Zenon DEF HInv, TypeOK
  <2>2. x.ptr \in Addr /\ x.size \in Sizes
    BY <2>1
  <2>3. x.size \in Nat
    BY <2>2, SizesNat, Zenon
  <2>4. b \in Blocks /\ mem[b].block_size >= x.size + 2 * kAlignment /\ b = x.ptr - kAlignment
    BY Zenon DEF HInv, Owners, kTagSize, header_of
  <2>5. b \in Nat /\ mem[b].block_size \in Nat /\ End(mem, b) = b + mem[b].block_size
        /\ End(mem, b) \in Nat /\ End(mem, b) <= kArenaSize
    BY <2>4, InvMem, BlockFacts, Zenon
  <2>6. x.ptr \in Nat /\ x.ptr % kAlignment = 0
    BY <2>2, Arena
  <2> HIDE DEF b
  <2>7. x.ptr + x.size <= End(mem, b) - kAlignment
    BY <2>3, <2>4, <2>5, <2>6, Arena
  <2> QED BY <2>1, <2>3, <2>4, <2>5, <2>6, <2>7, Zenon DEF b
<1>2. ASSUME NEW x \in live PROVE x.ptr + x.size <= kArenaSize
  BY <1>1, Arena
<1>3. ASSUME NEW x \in live, NEW a \in Cells(x) PROVE a \in Addr /\ a \notin Tags(mem, Blocks)
  BY CellsInside, Zenon
<1>4. ASSUME NEW x \in live, NEW y \in live, x # y PROVE x.ptr + x.size <= y.ptr \/ y.ptr + y.size <= x.ptr
  <2>1. x.ptr # y.ptr
    BY <1>4, Zenon DEF HInv, Once
  <2>2. header_of(x.ptr) # header_of(y.ptr)
    <3>1. x.ptr \in Int /\ y.ptr \in Int
      BY <1>1
    <3> QED BY <2>1, <3>1, HeaderPayload, Zenon
  <2>3. End(mem, header_of(x.ptr)) <= header_of(y.ptr) \/ End(mem, header_of(y.ptr)) <= header_of(x.ptr)
    BY <1>1, <2>2, InvMem, Disjoint, Zenon
  <2> QED BY <1>1, <2>3, Arena
<1> QED BY <1>1, <1>2, <1>3, <1>4, Zenon

(* The same in the next state. *)
LEMMA RegionsNext ==
  (HInv =>
    /\ \A x \in live :
         /\ x \in [ptr : Addr, size : Sizes] /\ x.ptr \in Nat /\ x.size \in Nat /\ x.ptr % kAlignment = 0
         /\ x.ptr + x.size <= kArenaSize
         /\ \A a \in Cells(x) : a \in Addr /\ a \notin Tags(mem, Blocks)
    /\ \A x, y \in live : x # y => x.ptr + x.size <= y.ptr \/ y.ptr + y.size <= x.ptr)'
BY RegionsNow, PTL

(* The addresses of a region, here and in the specification. *)
LEMMA SameCells == \A x : Abstract!Cells(x) = Cells(x)
BY Zenon DEF Abstract!Cells, Cells, Addr

(* No address is in two regions. *)
LEMMA CellsApart ==
  ASSUME HInv, NEW x \in live, NEW y \in live, x # y, NEW a \in Cells(x)
  PROVE  a \notin Cells(y)
<1>1. /\ x.ptr \in Nat /\ x.size \in Nat /\ y.ptr \in Nat /\ y.size \in Nat
      /\ x.ptr + x.size <= y.ptr \/ y.ptr + y.size <= x.ptr
  BY RegionsNow, Zenon
<1>2. a \in Addr /\ a >= x.ptr /\ a < x.ptr + x.size
  BY Zenon DEF Cells
<1>3. a \in Int
  BY <1>2, Arena
<1>4. ~ (a >= y.ptr /\ a < y.ptr + y.size)
  BY <1>1, <1>2, <1>3
<1> QED BY <1>4, Zenon DEF Cells

(* A step that keeps the regions and what is between the tags keeps their  *)
(* contents.                                                               *)
LEMMA ContentKept ==
  ASSUME HInv', live' = live, \A a \in Addr \ Tags(mem', Blocks') : mem'[a] = mem[a]
  PROVE  Content' = Content
<1> DEFINE D == UNION {Cells(x) : x \in live}
<1>1. ASSUME NEW a \in D PROVE mem'[a] = mem[a]
  <2>1. PICK x \in live : a \in Cells(x)
    BY Zenon
  <2>2. a \in Addr /\ a \notin Tags(mem', Blocks')
    BY <2>1, RegionsNext, Zenon DEF Cells, Tags, footer_of
  <2> QED BY <2>2, Zenon
<1>2. Content' = [a \in D |-> mem'[a]] /\ Content = [a \in D |-> mem[a]]
  BY Zenon DEF Content, Cells
<1> HIDE DEF D
<1> QED BY <1>1, <1>2

(* malloc() returns: a region apart from all others is handed out, and     *)
(* those keep what they hold.                                              *)
LEMMA ReturnRefines ==
  ASSUME HInv, HInv', NEW p \in Procs, MallocReturn(p)
  PROVE  Abstract!Next
<1>0. PICK z : z = [ptr |-> payload_of(block[p]), size |-> size[p]]
  BY Zenon
<1> DEFINE D == UNION {Cells(x) : x \in live}
           E == UNION {Cells(x) : x \in live'}
<1>1. pc[p] = "took" /\ mem' = mem /\ live' = live \cup {z}
  BY <1>0, Zenon DEF MallocReturn
<1>2. header_of(z.ptr) = block[p]
  BY <1>0, <1>1, NewRegion
<1>3. z \in live'
  BY <1>1, Zenon
<1>4. ASSUME NEW y \in live PROVE y # z
  BY <1>1, <1>2, Zenon DEF HInv, Once, Holding
<1>5. z \in [ptr : Addr, size : Sizes] /\ z.ptr % kAlignment = 0 /\ z.ptr + z.size <= kArenaSize
  BY <1>3, RegionsNext, Zenon
<1>6. \A y \in live : z.ptr + z.size <= y.ptr \/ y.ptr + y.size <= z.ptr
  BY <1>1, <1>3, <1>4, RegionsNext, Zenon
<1>7. Content = [a \in D |-> mem[a]] /\ Content' = [a \in E |-> mem[a]]
  BY <1>1, Zenon DEF Content, Cells
<1>8. E = D \cup Cells(z)
  BY <1>1, Zenon
<1> HIDE DEF D, E
<1>9. DOMAIN Content = D /\ DOMAIN Content' = D \cup Abstract!Cells(z)
  BY <1>7, <1>8, SameCells, Zenon
<1>10. \A a \in DOMAIN Content : Content'[a] = Content[a]
  BY <1>7, <1>8, <1>9, Zenon
<1>11. Abstract!Malloc(z)
  BY <1>1, <1>5, <1>6, <1>9, <1>10, Zenon DEF Abstract!Malloc, Content
<1> DEFINE R == [ptr : 0 .. kArenaSize - 1, size : Sizes]
<1>12. z \in R
  <2>1. Addr \subseteq 0 .. kArenaSize - 1
    BY Zenon DEF Addr
  <2> QED BY <1>5, <2>1
<1> HIDE DEF R
<1>13. \E x \in R : Abstract!Malloc(x)
  BY <1>11, <1>12, Zenon
<1> QED BY <1>13, Zenon DEF Abstract!Next, R

(* free() is called: the region and what it holds go. *)
LEMMA FreeRefines ==
  ASSUME HInv, NEW p \in Procs, NEW z \in live, FreeCall(p, z)
  PROVE  Abstract!Next
<1> DEFINE D == UNION {Cells(x) : x \in live}
           E == UNION {Cells(x) : x \in live \ {z}}
<1>1. mem' = mem /\ live' = live \ {z}
  BY Zenon DEF FreeCall
<1>2. Content = [a \in D |-> mem[a]] /\ Content' = [a \in E |-> mem[a]]
  BY <1>1, Zenon DEF Content, Cells
<1>3. \A a : a \in E <=> a \in D /\ a \notin Cells(z)
  <2>1. \A a : a \in D <=> \E x \in live : a \in Cells(x)
    BY Zenon
  <2>2. \A a : a \in E <=> \E x \in live : x # z /\ a \in Cells(x)
    BY Zenon
  <2> HIDE DEF D, E
  <2> QED BY <2>1, <2>2, CellsApart, Zenon
<1> HIDE DEF D, E
<1>4. E = D \ Abstract!Cells(z) /\ DOMAIN Content = D
  BY <1>2, <1>3, SameCells, Zenon
<1>5. Content' = [a \in DOMAIN Content \ Abstract!Cells(z) |-> Content[a]]
  <2>1. \A a \in E : Content[a] = mem[a]
    BY <1>2, <1>3, Zenon
  <2> QED BY <1>2, <1>4, <2>1
<1>6. Abstract!Free(z)
  BY <1>1, <1>5, Zenon DEF Abstract!Free, Content
<1> QED BY <1>6, Zenon DEF Abstract!Next

(* A caller writes to its own region only. *)
LEMMA WriteRefines ==
  ASSUME HInv, NEW z \in live, Write(z)
  PROVE  Abstract!Next
<1> DEFINE D == UNION {Cells(x) : x \in live}
<1>1. live' = live /\ mem' = [a \in Addr |-> IF a \in Cells(z) THEN Data ELSE mem[a]]
  BY Zenon DEF Write
<1>2. Content = [a \in D |-> mem[a]] /\ Content' = [a \in D |-> mem'[a]]
  BY <1>1, Zenon DEF Content, Cells
<1>3. \A a \in D : a \in Addr
  BY Zenon DEF Cells
<1> HIDE DEF D
<1>4. DOMAIN Content = D /\ DOMAIN Content' = D
  BY <1>2, Zenon
<1>5. ASSUME NEW a \in DOMAIN Content \ Abstract!Cells(z) PROVE Content'[a] = Content[a]
  <2>1. a \in D /\ a \in Addr /\ a \notin Cells(z)
    BY <1>3, <1>4, SameCells, Zenon
  <2>2. mem'[a] = mem[a]
    BY <1>1, <2>1, Zenon
  <2> QED BY <1>2, <2>1, <2>2, Zenon
<1>6. Abstract!Write(z)
  BY <1>1, <1>4, <1>5, Zenon DEF Abstract!Write, Content
<1> QED BY <1>6, Zenon DEF Abstract!Next

(* Every step is a step of the allocator or changes nothing it shows. *)
LEMMA StepRefines ==
  ASSUME SizesFit, HInv, HInv', [Next]_vars
  PROVE  Abstract!Next \/ UNCHANGED Abstract!vars
<1>1. ASSUME live' = live, mem' = mem PROVE UNCHANGED Abstract!vars
  <2>1. Content' = Content
    BY <1>1, Zenon DEF Content, Cells
  <2> QED BY <1>1, <2>1, Zenon DEF Abstract!vars, Content
<1>2. ASSUME live' = live, \A a \in Addr \ Tags(mem', Blocks') : mem'[a] = mem[a] PROVE UNCHANGED Abstract!vars
  <2>1. Content' = Content
    BY <1>2, ContentKept, Zenon
  <2> QED BY <1>2, <2>1, Zenon DEF Abstract!vars, Content
<1>3. CASE UNCHANGED vars
  <2>1. live' = live /\ mem' = mem
    BY <1>3, Zenon DEF vars
  <2> QED BY <1>1, <2>1, Zenon
<1>4. ASSUME NEW p \in Procs, Malloc(p) PROVE Abstract!Next \/ UNCHANGED Abstract!vars
  <2>1. CASE MallocReturn(p)
    BY <2>1, ReturnRefines, Zenon
  <2>2. CASE MallocTake(p)
    <3>1. live' = live
      BY <2>2, Zenon DEF MallocTake
    <3>2. \A a \in Addr \ Tags(mem', Blocks') : mem'[a] = mem[a]
      BY <2>2, MallocTakeStep, Zenon
    <3> QED BY <1>2, <3>1, <3>2, Zenon
  <2>3. CASE \/ (\E n \in Sizes : MallocCall(p, n)) \/ MallocLock(p) \/ MallocNext(p) \/ MallocFail(p)
             \/ \E f \in Callers : NullReturn(p, f)
    <3>1. live' = live /\ mem' = mem
      BY <2>3, Zenon DEF MallocCall, MallocLock, MallocNext, MallocFail, NullReturn
    <3> QED BY <1>1, <3>1, Zenon
  <2> QED BY <1>4, <2>1, <2>2, <2>3, Zenon DEF Malloc
<1>5. ASSUME NEW p \in Procs, Free(p) PROVE Abstract!Next \/ UNCHANGED Abstract!vars
  <2>1. CASE \E x \in live : FreeCall(p, x)
    BY <2>1, FreeRefines, Zenon
  <2>2. CASE FreeMerge(p)
    <3>1. live' = live
      BY <2>2, Zenon DEF FreeMerge
    <3>2. \A a \in Addr \ Tags(mem', Blocks') : mem'[a] = mem[a]
      BY <2>2, FreeMergeStep, Zenon
    <3> QED BY <1>2, <3>1, <3>2, Zenon
  <2>3. CASE FreeLock(p) \/ FreeUnlock(p)
    <3>1. live' = live /\ mem' = mem
      BY <2>3, Zenon DEF FreeLock, FreeUnlock
    <3> QED BY <1>1, <3>1, Zenon
  <2> QED BY <1>5, <2>1, <2>2, <2>3, Zenon DEF Free
<1>6. ASSUME NEW p \in Procs, Spin(p) \/ out_of_memory(p) PROVE UNCHANGED Abstract!vars
  <2>1. UNCHANGED vars
    BY <1>6, Zenon DEF Spin, out_of_memory
  <2>2. live' = live /\ mem' = mem
    BY <2>1, Zenon DEF vars
  <2> QED BY <1>1, <2>2, Zenon
<1>7. ASSUME NEW x \in live, Write(x) PROVE Abstract!Next
  BY <1>7, WriteRefines, Zenon
<1> QED BY <1>3, <1>4, <1>5, <1>6, <1>7, Zenon DEF Next, Step

(* malloc() hands out aligned regions that no other caller owns, and no    *)
(* malloc() or free() of any core changes what a region holds.             *)
THEOREM HeapIsAllocator ==
  ASSUME SizesFit
  PROVE  Spec => ImplementsAllocator
<1>1. Init => Abstract!Init
  <2> SUFFICES ASSUME Init PROVE Abstract!Init
    OBVIOUS
  <2>1. live = {}
    BY Zenon DEF Init
  <2>2. UNION {Cells(x) : x \in live} = {}
    BY <2>1, Zenon
  <2>3. [a \in UNION {Cells(x) : x \in live} |-> mem[a]] = <<>>
    BY <2>2
  <2> QED BY <2>1, <2>3, Zenon DEF Abstract!Init
<1>2. HInv /\ HInv' /\ [Next]_vars => Abstract!Next \/ UNCHANGED Abstract!vars
  BY StepRefines, Zenon
<1> QED BY <1>1, <1>2, AlwaysHInv, PTL DEF Spec, ImplementsAllocator, Abstract!Spec
=============================================================================
