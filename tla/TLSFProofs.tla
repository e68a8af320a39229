------------------------------ MODULE TLSFProofs --------------------------------
(***************************************************************************)
(* The heap, for every size of the pool and every number of lists.         *)
(***************************************************************************)
EXTENDS TLSF, NumberLemmas, FiniteSetTheorems

-----------------------------------------------------------------------------
(* Addresses and headers. *)

HeapTyped(h) ==
  h \in [mem : [Words -> Nat], fl : SUBSET Fls, sl : [Fls -> SUBSET Sls],
         head : [Fls -> [Sls -> Places \cup {Null}]]]

Fields(s, p, f) == s + 2 * p + f
FreeBit(h, b) == Header(h, b) % 2
PrevBit(h, b) == (Header(h, b) \div 2) % 2
SameTables(h, g) == g.fl = h.fl /\ g.sl = h.sl /\ g.head = h.head

(* The pool's addresses are multiples of four.                             *)
LEMMA Addresses ==
  /\ Start \in Nat \ {0} /\ Start % 4 = 0 /\ PoolBytes \in Nat /\ PoolBytes >= 12
  /\ PoolBytes % 4 = 0 /\ Sentinel = Start + 4 + PoolBytes
  /\ Sentinel \in Nat /\ Sentinel % 4 = 0 /\ Sentinel >= Start + 16
<1>1. PoolBytes \in Int /\ PoolBytes >= 12
  <2>1. Pow2[FL_INDEX_MAX] \in Nat
    BY IndexAssumption, Pow2Facts
  <2>. QED BY <2>1, PoolAssumption
<1>. QED BY <1>1, PoolAssumption DEF Sentinel

(* Which addresses are words of the pool.                                  *)
LEMMA WordsAre ==
  ASSUME NEW a
  PROVE  a \in Words <=> (a \in Nat /\ a % 4 = 0 /\ Start + 4 <= a /\ a <= Sentinel + 4)
<1>1. ASSUME a \in Words
      PROVE  a \in Nat /\ a % 4 = 0 /\ Start + 4 <= a /\ a <= Sentinel + 4
  <2>1. PICK k \in 1 .. PoolBytes \div 4 + 2 : a = Start + 4 * k
    BY <1>1 DEF Words
  <2>2. k \in Nat /\ k >= 1 /\ 4 * k <= PoolBytes + 8
    BY Addresses
  <2>. QED BY <2>1, <2>2, Addresses
<1>2. ASSUME a \in Nat, a % 4 = 0, Start + 4 <= a, a <= Sentinel + 4
      PROVE  a \in Words
  <2>. DEFINE k == (a - Start) \div 4
  <2>1. a = Start + 4 * k /\ k \in Nat /\ k >= 1 /\ 4 * k <= PoolBytes + 8
    BY <1>2, Addresses
  <2>2. k <= PoolBytes \div 4 + 2
    BY <2>1, Addresses
  <2>. HIDE DEF k
  <2>. QED BY <2>1, <2>2, Addresses DEF Words
<1>. QED BY <1>1, <1>2

(* Where a header can begin.                                               *)
LEMMA PlacesAre ==
  ASSUME NEW b
  PROVE  b \in Places <=> (b \in Nat /\ b % 4 = 0 /\ Start <= b /\ b <= Sentinel)
<1>1. ASSUME b \in Places
      PROVE  b \in Nat /\ b % 4 = 0 /\ Start <= b /\ b <= Sentinel
  <2>1. PICK a \in Words : b = a - 4
    BY <1>1 DEF Places
  <2>2. a \in Nat /\ a % 4 = 0 /\ Start + 4 <= a /\ a <= Sentinel + 4
    BY WordsAre
  <2>. QED BY <2>1, <2>2, Addresses
<1>2. ASSUME b \in Nat, b % 4 = 0, Start <= b, b <= Sentinel
      PROVE  b \in Places
  <2>1. b + 4 \in Words /\ b = (b + 4) - 4
    BY <1>2, Addresses, WordsAre
  <2>. QED BY <2>1 DEF Places
<1>. QED BY <1>1, <1>2

(* A store within the pool changes a word.                                 *)
LEMMA PutIs ==
  ASSUME NEW h, HeapTyped(h), NEW a \in Words, NEW v \in Nat
  PROVE  /\ HeapTyped(Put(h, a, v)) /\ SameTables(h, Put(h, a, v))
         /\ \A x \in Words : Put(h, a, v).mem[x] = IF x = a THEN v ELSE h.mem[x]
BY DEF Put, HeapTyped, SameTables

IsPut(h, a, v, g) ==
  /\ HeapTyped(g) /\ SameTables(h, g)
  /\ \A x \in Words : g.mem[x] = IF x = a THEN v ELSE h.mem[x]

(* The same, under a name.                                                 *)
LEMMA IsPutIs ==
  ASSUME NEW h, HeapTyped(h), NEW a \in Words, NEW v \in Nat
  PROVE  IsPut(h, a, v, Put(h, a, v))
BY PutIs DEF IsPut

(* The fields of a header.                                                 *)
LEMMA HeaderIs ==
  ASSUME NEW h, HeapTyped(h), NEW b \in Places
  PROVE  /\ b + 4 \in Words /\ Header(h, b) = h.mem[b + 4] /\ b \in Nat /\ b % 4 = 0
         /\ Header(h, b) \in Nat /\ SizeOf(h, b) \in Nat /\ SizeOf(h, b) % 4 = 0
         /\ FreeBit(h, b) \in {0, 1} /\ PrevBit(h, b) \in {0, 1}
         /\ IsFree(h, b) <=> FreeBit(h, b) = 1
         /\ IsPrevFree(h, b) <=> PrevBit(h, b) = 1
         /\ h.mem[b + 4] = Fields(SizeOf(h, b), PrevBit(h, b), FreeBit(h, b))
         /\ BlockNext(h, b) = b + 4 + SizeOf(h, b)
<1>1. b + 4 \in Words /\ b \in Nat /\ b % 4 = 0
  BY PlacesAre, WordsAre, Addresses
<1>2. Header(h, b) = h.mem[b + 4] /\ Header(h, b) \in Nat
  BY <1>1 DEF Header, Word, HeapTyped
<1>. QED BY <1>1, <1>2 DEF Fields, SizeOf, FreeBit, PrevBit, IsFree, IsPrevFree, BlockNext

(* The low bits of a number, one by one.                                   *)
LEMMA Parts ==
  ASSUME NEW w \in Nat, NEW bit \in {0, 1}
  PROVE  /\ (w \div 2) * 2 + bit = (w \div 4) * 4 + 2 * ((w \div 2) % 2) + bit
         /\ w % 4 = 2 * ((w \div 2) % 2) + (w % 2)
OBVIOUS

(* Fields read back are those that were written.                           *)
LEMMA FieldsAre ==
  ASSUME NEW s \in Nat, s % 4 = 0, NEW p \in {0, 1}, NEW f \in {0, 1},
         NEW w, w = s + 2 * p + f
  PROVE  (w \div 4) * 4 = s /\ (w \div 2) % 2 = p /\ w % 2 = f
OBVIOUS

(* A header is a number.                                                   *)
LEMMA FieldsNat ==
  ASSUME NEW s \in Nat, NEW p \in {0, 1}, NEW f \in {0, 1}
  PROVE  Fields(s, p, f) \in Nat
BY DEF Fields

(* A header that was written, read.                                        *)
LEMMA HeaderOf ==
  ASSUME NEW h, HeapTyped(h), NEW b \in Places, NEW s \in Nat, s % 4 = 0,
         NEW p \in {0, 1}, NEW f \in {0, 1}, h.mem[b + 4] = Fields(s, p, f)
  PROVE  /\ SizeOf(h, b) = s /\ PrevBit(h, b) = p /\ FreeBit(h, b) = f
         /\ IsFree(h, b) <=> f = 1
         /\ IsPrevFree(h, b) <=> p = 1
         /\ BlockNext(h, b) = b + 4 + s
<1>1. Header(h, b) = Fields(s, p, f)
  BY HeaderIs
<1>2. PICK w : w = Fields(s, p, f)
  OBVIOUS
<1>3. w = s + 2 * p + f
  BY <1>2 DEF Fields
<1>4. (w \div 4) * 4 = s /\ (w \div 2) % 2 = p /\ w % 2 = f
  BY <1>3, FieldsAre, Zenon
<1>5. SizeOf(h, b) = s /\ PrevBit(h, b) = p /\ FreeBit(h, b) = f
  BY <1>1, <1>2, <1>4, Zenon DEF SizeOf, FreeBit, PrevBit
<1>. QED BY <1>5 DEF FreeBit, PrevBit, IsFree, IsPrevFree, BlockNext

(* What is the same word is the same header.                               *)
LEMMA SameHeader ==
  ASSUME NEW h, NEW g, HeapTyped(h), HeapTyped(g), NEW b \in Places,
         g.mem[b + 4] = h.mem[b + 4]
  PROVE  /\ SizeOf(g, b) = SizeOf(h, b) /\ PrevBit(g, b) = PrevBit(h, b)
         /\ FreeBit(g, b) = FreeBit(h, b) /\ BlockNext(g, b) = BlockNext(h, b)
         /\ IsFree(g, b) <=> IsFree(h, b)
         /\ IsPrevFree(g, b) <=> IsPrevFree(h, b)
<1>1. Header(g, b) = Header(h, b)
  BY HeaderIs
<1>. QED BY <1>1 DEF SizeOf, FreeBit, PrevBit, IsFree, IsPrevFree, BlockNext

(* The stores to headers.                                                  *)
LEMMA WithFreeIs ==
  ASSUME NEW h, HeapTyped(h), NEW b \in Places, NEW bit \in {0, 1}
  PROVE  /\ HeapTyped(WithFree(h, b, bit)) /\ SameTables(h, WithFree(h, b, bit))
         /\ \A x \in Words : WithFree(h, b, bit).mem[x] =
              IF x = b + 4 THEN Fields(SizeOf(h, b), PrevBit(h, b), bit) ELSE h.mem[x]
<1>. DEFINE v == Fields(SizeOf(h, b), PrevBit(h, b), bit)
<1>1. /\ b + 4 \in Words /\ Header(h, b) \in Nat
      /\ SizeOf(h, b) \in Nat /\ PrevBit(h, b) \in {0, 1}
  BY HeaderIs
<1>2. v \in Nat
  BY <1>1 DEF Fields
<1>3. WithFree(h, b, bit) = Put(h, b + 4, v)
  BY <1>1, Parts DEF Fields, WithFree, SizeOf, PrevBit
<1>. HIDE DEF v
<1>8. /\ HeapTyped(Put(h, b + 4, v)) /\ SameTables(h, Put(h, b + 4, v))
      /\ \A x \in Words : Put(h, b + 4, v).mem[x] = IF x = b + 4 THEN v ELSE h.mem[x]
  BY <1>1, <1>2, PutIs
<1>. QED BY <1>3, <1>8 DEF v

(* block_set_prev_free(), block_set_prev_used()                            *)
LEMMA WithPrevFreeIs ==
  ASSUME NEW h, HeapTyped(h), NEW b \in Places, NEW bit \in {0, 1}
  PROVE  /\ HeapTyped(WithPrevFree(h, b, bit)) /\ SameTables(h, WithPrevFree(h, b, bit))
         /\ \A x \in Words : WithPrevFree(h, b, bit).mem[x] =
              IF x = b + 4 THEN Fields(SizeOf(h, b), bit, FreeBit(h, b)) ELSE h.mem[x]
<1>. DEFINE v == Fields(SizeOf(h, b), bit, FreeBit(h, b))
<1>1. b + 4 \in Words /\ SizeOf(h, b) \in Nat /\ FreeBit(h, b) \in {0, 1}
  BY HeaderIs
<1>2. v \in Nat
  BY <1>1 DEF Fields
<1>3. WithPrevFree(h, b, bit) = Put(h, b + 4, v)
  BY DEF Fields, WithPrevFree, FreeBit
<1>. HIDE DEF v
<1>8. /\ HeapTyped(Put(h, b + 4, v)) /\ SameTables(h, Put(h, b + 4, v))
      /\ \A x \in Words : Put(h, b + 4, v).mem[x] = IF x = b + 4 THEN v ELSE h.mem[x]
  BY <1>1, <1>2, PutIs
<1>. QED BY <1>3, <1>8 DEF v

(* block_set_size()                                                        *)
LEMMA WithSizeIs ==
  ASSUME NEW h, HeapTyped(h), NEW b \in Places, NEW s \in Nat
  PROVE  /\ HeapTyped(WithSize(h, b, s)) /\ SameTables(h, WithSize(h, b, s))
         /\ \A x \in Words : WithSize(h, b, s).mem[x] =
              IF x = b + 4 THEN Fields(s, PrevBit(h, b), FreeBit(h, b)) ELSE h.mem[x]
<1>. DEFINE v == Fields(s, PrevBit(h, b), FreeBit(h, b))
<1>1. /\ b + 4 \in Words /\ Header(h, b) \in Nat
      /\ PrevBit(h, b) \in {0, 1} /\ FreeBit(h, b) \in {0, 1}
  BY HeaderIs
<1>2. v \in Nat
  BY <1>1 DEF Fields
<1>3. Header(h, b) % 4 = 2 * PrevBit(h, b) + FreeBit(h, b)
  BY <1>1, Parts DEF PrevBit, FreeBit
<1>4. s + (Header(h, b) % 4) = v
  BY <1>1, <1>3 DEF Fields
<1>5. WithSize(h, b, s) = Put(h, b + 4, v)
  BY <1>4 DEF WithSize
<1>. HIDE DEF v
<1>8. /\ HeapTyped(Put(h, b + 4, v)) /\ SameTables(h, Put(h, b + 4, v))
      /\ \A x \in Words : Put(h, b + 4, v).mem[x] = IF x = b + 4 THEN v ELSE h.mem[x]
  BY <1>1, <1>2, PutIs
<1>. QED BY <1>5, <1>8 DEF v

(* block_link_next()                                                       *)
LEMMA LinkNextIs ==
  ASSUME NEW h, HeapTyped(h), NEW b \in Places, BlockNext(h, b) \in Words
  PROVE  /\ HeapTyped(LinkNext(h, b)) /\ SameTables(h, LinkNext(h, b))
         /\ \A x \in Words : LinkNext(h, b).mem[x] = IF x = BlockNext(h, b) THEN b ELSE h.mem[x]
BY PutIs, PlacesAre DEF LinkNext

-----------------------------------------------------------------------------
(* The shape of the heap: its blocks B, and those of them that are free, G. *)

Tiled(h, B) ==
  /\ B \subseteq Places /\ Start \in B /\ Sentinel \in B /\ SizeOf(h, Sentinel) = 0
  /\ \A b \in B \ {Sentinel} : SizeOf(h, b) >= BlockSizeMin /\ BlockNext(h, b) \in B
  /\ \A b, c \in B : b < c => BlockNext(h, b) <= c

Flagged(h, B, G) ==
  /\ G \subseteq B \ {Sentinel}
  /\ ~IsPrevFree(h, Start)
  /\ \A b \in B : IsFree(h, b) <=> b \in G
  /\ \A b \in B \ {Sentinel} : IsPrevFree(h, BlockNext(h, b)) <=> b \in G
  /\ \A b \in G : h.mem[BlockNext(h, b)] = b

Sound(h, B, G) == HeapTyped(h) /\ Tiled(h, B) /\ Flagged(h, B, G)

(* The words of a block that its user may write; they hold the links of a  *)
(* free block, and the last one the pointer back to it.                    *)
Inside(h, b, a) == b + 8 <= a /\ a <= BlockNext(h, b)

(* The blocks of U stay as they are.                                       *)
Spares(h, g, U) ==
  \A u \in U : /\ SizeOf(g, u) = SizeOf(h, u)
               /\ \A a \in Words : Inside(h, u, a) => g.mem[a] = h.mem[a]

KeepsSizes(h, g, S) == \A c \in S : SizeOf(g, c) = SizeOf(h, c)

(* A block lies within the pool, and so does the one behind it.            *)
LEMMA BlockIs ==
  ASSUME NEW h, HeapTyped(h), NEW B, Tiled(h, B), NEW b \in B \ {Sentinel}
  PROVE  /\ b \in Places /\ b \in Nat /\ b % 4 = 0 /\ b >= Start
         /\ BlockNext(h, b) = b + 4 + SizeOf(h, b)
         /\ SizeOf(h, b) \in Nat /\ SizeOf(h, b) >= 12 /\ SizeOf(h, b) % 4 = 0
         /\ SizeOf(h, b) <= PoolBytes
         /\ BlockNext(h, b) \in B /\ BlockNext(h, b) \in Places /\ BlockNext(h, b) \in Words
         /\ BlockNext(h, b) \in Nat /\ BlockNext(h, b) >= b + 16 /\ BlockNext(h, b) <= Sentinel
         /\ b + 4 \in Words /\ b + 8 \in Words /\ b + 12 \in Words
<1>. DEFINE n == BlockNext(h, b)
<1>1. b \in Places /\ n \in B /\ n \in Places /\ SizeOf(h, b) >= 12
  BY DEF Tiled, BlockSizeMin
<1>2. b \in Nat /\ b % 4 = 0 /\ b >= Start /\ n \in Nat /\ n % 4 = 0 /\ n <= Sentinel
  BY <1>1, PlacesAre
<1>3. n = b + 4 + SizeOf(h, b) /\ SizeOf(h, b) \in Nat /\ SizeOf(h, b) % 4 = 0
  BY <1>1, HeaderIs
<1>4. n >= b + 16 /\ SizeOf(h, b) <= PoolBytes
  BY <1>1, <1>2, <1>3, Addresses
<1>5. n \in Words
  BY <1>2, <1>4, WordsAre, Addresses
<1>6. b + 4 \in Words /\ b + 8 \in Words /\ b + 12 \in Words
  BY <1>2, <1>4, WordsAre, Addresses
<1>. QED BY <1>1, <1>2, <1>3, <1>4, <1>5, <1>6

(* Blocks keep their distance.                                             *)
LEMMA Distance ==
  ASSUME NEW h, HeapTyped(h), NEW B, Tiled(h, B), NEW b \in B, NEW c \in B
  PROVE  /\ b \in Nat /\ c \in Nat
         /\ b = c \/ b >= c + 16 \/ c >= b + 16
         /\ b < c => b # Sentinel /\ BlockNext(h, b) <= c
<1>1. b \in Nat /\ c \in Nat /\ b <= Sentinel /\ c <= Sentinel
  BY PlacesAre DEF Tiled
<1>2. b < c => b # Sentinel /\ BlockNext(h, b) <= c
  BY <1>1, Addresses DEF Tiled
<1>3. c < b => c # Sentinel /\ BlockNext(h, c) <= b
  BY <1>1, Addresses DEF Tiled
<1>4. b < c => c >= b + 16
  BY <1>1, <1>2, BlockIs
<1>5. c < b => b >= c + 16
  BY <1>1, <1>3, BlockIs
<1>. QED BY <1>1, <1>2, <1>4, <1>5

(* No two blocks have the same one behind.                                 *)
LEMMA NextOnce ==
  ASSUME NEW h, HeapTyped(h), NEW B, Tiled(h, B), NEW b \in B \ {Sentinel},
         NEW c \in B \ {Sentinel}, BlockNext(h, b) = BlockNext(h, c)
  PROVE  b = c
<1>1. BlockNext(h, b) >= b + 16 /\ BlockNext(h, c) >= c + 16
  BY BlockIs
<1>2. b < c => BlockNext(h, b) <= c
  BY Distance
<1>3. c < b => BlockNext(h, c) <= b
  BY Distance
<1>. QED BY <1>1, <1>2, <1>3, BlockIs

(* No header lies inside a block, and where one does begin, the block ends. *)
LEMMA InsideIs ==
  ASSUME NEW h, HeapTyped(h), NEW B, Tiled(h, B), NEW b \in B \ {Sentinel}, NEW c \in B,
         NEW a \in Words, Inside(h, b, a)
  PROVE  a # c + 4 /\ (a = c => c = BlockNext(h, b))
<1>1. /\ b \in Nat /\ c \in Nat /\ a \in Nat /\ a % 4 = 0 /\ c % 4 = 0
      /\ BlockNext(h, b) \in Nat /\ BlockNext(h, b) >= b + 16
  BY BlockIs, WordsAre, PlacesAre DEF Tiled
<1>2. b + 8 <= a /\ a <= BlockNext(h, b)
  BY DEF Inside
<1>3. b < c => BlockNext(h, b) <= c
  BY Distance
<1>4. CASE b < c
  BY <1>1, <1>2, <1>3, <1>4
<1>5. CASE c <= b
  BY <1>1, <1>2, <1>5
<1>. QED BY <1>1, <1>4, <1>5

(* Each block but the first has one before it.                             *)
LEMMA HasBefore ==
  ASSUME NEW h, HeapTyped(h), NEW B, Tiled(h, B), NEW b \in B \ {Start}
  PROVE  \E c \in B \ {Sentinel} : BlockNext(h, c) = b
<1>. DEFINE T == {b - x : x \in {y \in B : y < b}}
<1>1. b \in Nat /\ b >= Start /\ \A x \in B : x \in Nat /\ x >= Start
  BY PlacesAre DEF Tiled
<1>2. Start \in B /\ Start < b /\ b - Start \in T
  BY <1>1, Addresses DEF Tiled
<1>3. T \subseteq Nat /\ T # {}
  BY <1>1, <1>2
<1>4. PICK t \in T : \A u \in T : t <= u
  BY <1>3, LeastMember
<1>5. PICK c \in B : c < b /\ t = b - c
  OBVIOUS
<1>6. c # Sentinel /\ BlockNext(h, c) <= b
  BY <1>5, Distance
<1>7. BlockNext(h, c) \in B /\ BlockNext(h, c) >= c + 16 /\ BlockNext(h, c) \in Nat
  BY <1>6, BlockIs
<1>8. ~(BlockNext(h, c) < b)
  <2>1. SUFFICES ASSUME BlockNext(h, c) < b PROVE FALSE
    OBVIOUS
  <2>2. b - BlockNext(h, c) \in T
    BY <2>1, <1>7
  <2>3. b - c <= b - BlockNext(h, c)
    BY <2>2, <1>4, <1>5
  <2>. QED BY <2>3, <1>7, <1>1, <1>5
<1>. QED BY <1>1, <1>6, <1>7, <1>8

(* Where sizes stay, so do the blocks.                                     *)
LEMMA TilesStay ==
  ASSUME NEW h, HeapTyped(h), NEW g, HeapTyped(g), NEW B, Tiled(h, B),
         \A c \in B : SizeOf(g, c) = SizeOf(h, c)
  PROVE  Tiled(g, B) /\ \A c \in B : BlockNext(g, c) = BlockNext(h, c)
<1>1. \A c \in B : BlockNext(g, c) = BlockNext(h, c)
  BY DEF BlockNext
<1>. QED BY <1>1 DEF Tiled

-----------------------------------------------------------------------------
(* What each operation on headers does. *)

(* A block is marked as free: its neighbour knows it and finds it.         *)
LEMMA MarkFreeWords ==
  ASSUME NEW h, HeapTyped(h), NEW b \in Places, NEW n \in Places, n = BlockNext(h, b),
         n >= b + 16, NEW g, g = MarkFree(h, b)
  PROVE  /\ HeapTyped(g) /\ SameTables(h, g)
         /\ g.mem[n] = b
         /\ g.mem[n + 4] = Fields(SizeOf(h, n), 1, FreeBit(h, n))
         /\ g.mem[b + 4] = Fields(SizeOf(h, b), PrevBit(h, b), 1)
         /\ \A a \in Words : a # n /\ a # n + 4 /\ a # b + 4 => g.mem[a] = h.mem[a]
<1>1. /\ b \in Places /\ n \in Places /\ n \in Words /\ n \in Nat /\ b \in Nat /\ n >= b + 16
      /\ b + 4 \in Words /\ n + 4 \in Words
  BY HeaderIs, PlacesAre, WordsAre, Addresses
<1>. DEFINE h1 == LinkNext(h, b)
            h2 == WithPrevFree(h1, n, 1)
<1>2. /\ HeapTyped(h1) /\ SameTables(h, h1)
      /\ \A x \in Words : h1.mem[x] = IF x = n THEN b ELSE h.mem[x]
  BY <1>1, LinkNextIs
<1>3. SizeOf(h1, n) = SizeOf(h, n) /\ FreeBit(h1, n) = FreeBit(h, n)
  <2>1. h1.mem[n + 4] = h.mem[n + 4]
    BY <1>1, <1>2
  <2>. QED BY <1>1, <1>2, <2>1, SameHeader
<1>4. /\ HeapTyped(h2) /\ SameTables(h1, h2)
      /\ \A x \in Words : h2.mem[x] = IF x = n + 4 THEN Fields(SizeOf(h1, n), 1, FreeBit(h1, n))
                                      ELSE h1.mem[x]
  <2>. HIDE DEF h1
  <2>. QED BY <1>1, <1>2, WithPrevFreeIs
<1>5. SizeOf(h2, b) = SizeOf(h, b) /\ PrevBit(h2, b) = PrevBit(h, b)
  <2>1. h2.mem[b + 4] = h.mem[b + 4]
    BY <1>1, <1>2, <1>4
  <2>. HIDE DEF h1, h2
  <2>. QED BY <1>1, <1>4, <2>1, SameHeader
<1>6. g = WithFree(h2, b, 1)
  BY DEF MarkFree
<1>. HIDE DEF h1, h2
<1>7. /\ HeapTyped(g) /\ SameTables(h2, g)
      /\ \A x \in Words : g.mem[x] = IF x = b + 4 THEN Fields(SizeOf(h2, b), PrevBit(h2, b), 1)
                                     ELSE h2.mem[x]
  <2>1. /\ HeapTyped(WithFree(h2, b, 1)) /\ SameTables(h2, WithFree(h2, b, 1))
        /\ \A x \in Words : WithFree(h2, b, 1).mem[x] =
             IF x = b + 4 THEN Fields(SizeOf(h2, b), PrevBit(h2, b), 1) ELSE h2.mem[x]
    BY <1>1, <1>4, WithFreeIs
  <2>. QED BY <2>1, <1>6
<1>8. SameTables(h, g)
  BY <1>2, <1>4, <1>7 DEF SameTables
<1>9. b + 4 # n /\ b + 4 # n + 4 /\ n # n + 4
  BY <1>1
<1>. QED BY <1>1, <1>2, <1>3, <1>4, <1>5, <1>7, <1>8, <1>9

(* block_mark_as_free()                                                    *)
LEMMA MarkFreeIs ==
  ASSUME NEW h, HeapTyped(h), NEW B, NEW G, Tiled(h, B), Flagged(h, B, G),
         NEW b \in B \ {Sentinel}, b \notin G, NEW g, g = MarkFree(h, b)
  PROVE  /\ HeapTyped(g) /\ Tiled(g, B) /\ Flagged(g, B, G \cup {b})
         /\ SameTables(h, g) /\ Spares(h, g, B \ {b, Sentinel})
         /\ KeepsSizes(h, g, B)
<1>. DEFINE n == BlockNext(h, b)
<1>1. /\ HeapTyped(g) /\ SameTables(h, g)
      /\ g.mem[n] = b
      /\ g.mem[n + 4] = Fields(SizeOf(h, n), 1, FreeBit(h, n))
      /\ g.mem[b + 4] = Fields(SizeOf(h, b), PrevBit(h, b), 1)
      /\ \A a \in Words : a # n /\ a # n + 4 /\ a # b + 4 => g.mem[a] = h.mem[a]
  BY BlockIs, MarkFreeWords
<1>2. /\ n \in B /\ n \in Places /\ b \in Places /\ n >= b + 16 /\ b \in Nat /\ n \in Nat
      /\ n # Start
  BY BlockIs, Addresses
<1>. HIDE DEF n
<1>3. SizeOf(g, n) = SizeOf(h, n) /\ IsPrevFree(g, n) /\ (IsFree(g, n) <=> IsFree(h, n))
  <2>1. SizeOf(h, n) \in Nat /\ SizeOf(h, n) % 4 = 0 /\ FreeBit(h, n) \in {0, 1}
    BY <1>2, HeaderIs
  <2>2. /\ SizeOf(g, n) = SizeOf(h, n) /\ FreeBit(g, n) = FreeBit(h, n) /\ IsPrevFree(g, n)
    BY <1>1, <1>2, <2>1, HeaderOf
  <2>. QED BY <2>2, <1>1, <1>2, HeaderIs
<1>4. SizeOf(g, b) = SizeOf(h, b) /\ (IsPrevFree(g, b) <=> IsPrevFree(h, b)) /\ IsFree(g, b)
  <2>1. SizeOf(h, b) \in Nat /\ SizeOf(h, b) % 4 = 0 /\ PrevBit(h, b) \in {0, 1}
    BY <1>2, HeaderIs
  <2>2. /\ SizeOf(g, b) = SizeOf(h, b) /\ PrevBit(g, b) = PrevBit(h, b) /\ IsFree(g, b)
    BY <1>1, <1>2, <2>1, HeaderOf
  <2>. QED BY <2>2, <1>1, <1>2, HeaderIs
<1>5. ASSUME NEW c \in B, c # b, c # n
      PROVE  /\ SizeOf(g, c) = SizeOf(h, c)
             /\ IsFree(g, c) <=> IsFree(h, c)
             /\ IsPrevFree(g, c) <=> IsPrevFree(h, c)
  <2>1. c \in Places /\ c + 4 \in Words /\ c \in Nat
    BY HeaderIs DEF Tiled
  <2>2. c = n \/ c >= n + 16 \/ n >= c + 16
    BY <1>2, Distance
  <2>3. g.mem[c + 4] = h.mem[c + 4]
    BY <1>1, <1>2, <1>5, <2>1, <2>2
  <2>. QED BY <2>1, <2>3, <1>1, SameHeader
<1>6. \A c \in B : SizeOf(g, c) = SizeOf(h, c)
  BY <1>3, <1>4, <1>5
<1>7. Tiled(g, B) /\ \A c \in B : BlockNext(g, c) = BlockNext(h, c)
  BY <1>1, <1>6, TilesStay
<1>8. Flagged(g, B, G \cup {b})
  <2>1. ~IsPrevFree(g, Start)
    BY <1>2, <1>4, <1>5 DEF Flagged, Tiled
  <2>2. \A c \in B : IsFree(g, c) <=> c \in G \cup {b}
    BY <1>2, <1>3, <1>4, <1>5 DEF Flagged
  <2>3. ASSUME NEW c \in B \ {Sentinel}
        PROVE  IsPrevFree(g, BlockNext(g, c)) <=> c \in G \cup {b}
    <3>1. BlockNext(g, c) = BlockNext(h, c) /\ BlockNext(h, c) \in B
      BY <1>7, BlockIs
    <3>2. CASE c = b
      BY <3>1, <3>2, <1>3 DEF n
    <3>3. CASE c # b
      <4>1. BlockNext(h, c) # n
        BY <3>3, NextOnce DEF n
      <4>2. IsPrevFree(g, BlockNext(h, c)) <=> IsPrevFree(h, BlockNext(h, c))
        BY <3>1, <4>1, <1>4, <1>5
      <4>. QED BY <3>1, <3>3, <4>2 DEF Flagged
    <3>. QED BY <3>2, <3>3
  <2>4. ASSUME NEW c \in G \cup {b}
        PROVE  g.mem[BlockNext(g, c)] = c
    <3>1. c \in B \ {Sentinel}
      BY DEF Flagged
    <3>2. /\ BlockNext(g, c) = BlockNext(h, c) /\ BlockNext(h, c) \in B
          /\ BlockNext(h, c) \in Words /\ BlockNext(h, c) \in Nat
      BY <1>7, <3>1, BlockIs
    <3>3. CASE c = b
      BY <3>3, <3>2, <1>1 DEF n
    <3>4. CASE c # b
      <4>. DEFINE m == BlockNext(h, c)
      <4>1. m # n
        BY <3>1, <3>4, NextOnce DEF n
      <4>2. (m = b \/ m >= b + 16 \/ b >= m + 16) /\ (m = n \/ m >= n + 16 \/ n >= m + 16)
        BY <3>2, <1>2, Distance
      <4>3. m # n + 4 /\ m # b + 4
        BY <4>2, <1>2, <3>2
      <4>4. g.mem[m] = h.mem[m]
        BY <4>1, <4>3, <3>2, <1>1
      <4>. QED BY <4>4, <3>2, <3>4 DEF Flagged
    <3>. QED BY <3>3, <3>4
  <2>. QED BY <2>1, <2>2, <2>3, <2>4 DEF Flagged
<1>9. ASSUME NEW u \in B \ {b, Sentinel}, NEW a \in Words, Inside(h, u, a)
      PROVE  g.mem[a] = h.mem[a]
  <2>1. a # n + 4 /\ a # b + 4 /\ (a = n => n = BlockNext(h, u))
    BY <1>2, <1>9, InsideIs
  <2>2. n # BlockNext(h, u)
    BY NextOnce DEF n
  <2>. QED BY <1>1, <2>1, <2>2
<1>. QED BY <1>1, <1>6, <1>7, <1>8, <1>9 DEF Spares, KeepsSizes

(* A block is marked as used. *)
LEMMA MarkUsedWords ==
  ASSUME NEW h, HeapTyped(h), NEW b \in Places, NEW n \in Places, n = BlockNext(h, b),
         n >= b + 16, NEW g, g = MarkUsed(h, b)
  PROVE  /\ HeapTyped(g) /\ SameTables(h, g)
         /\ g.mem[n + 4] = Fields(SizeOf(h, n), 0, FreeBit(h, n))
         /\ g.mem[b + 4] = Fields(SizeOf(h, b), PrevBit(h, b), 0)
         /\ \A a \in Words : a # n + 4 /\ a # b + 4 => g.mem[a] = h.mem[a]
<1>. DEFINE h1 == WithPrevFree(h, n, 0)
<1>1. b \in Nat /\ n \in Nat /\ n + 4 \in Words /\ b + 4 \in Words
  BY HeaderIs
<1>2. /\ HeapTyped(h1) /\ SameTables(h, h1)
      /\ \A x \in Words : h1.mem[x] = IF x = n + 4 THEN Fields(SizeOf(h, n), 0, FreeBit(h, n))
                                      ELSE h.mem[x]
  BY <1>1, WithPrevFreeIs
<1>. HIDE DEF h1
<1>3. SizeOf(h1, b) = SizeOf(h, b) /\ PrevBit(h1, b) = PrevBit(h, b)
  <2>1. h1.mem[b + 4] = h.mem[b + 4]
    BY <1>1, <1>2
  <2>. QED BY <1>1, <1>2, <2>1, SameHeader
<1>4. /\ HeapTyped(g) /\ SameTables(h1, g)
      /\ \A x \in Words : g.mem[x] = IF x = b + 4 THEN Fields(SizeOf(h, b), PrevBit(h, b), 0)
                                     ELSE h1.mem[x]
  <2>1. /\ HeapTyped(WithFree(h1, b, 0)) /\ SameTables(h1, WithFree(h1, b, 0))
        /\ \A x \in Words : WithFree(h1, b, 0).mem[x] =
             IF x = b + 4 THEN Fields(SizeOf(h1, b), PrevBit(h1, b), 0) ELSE h1.mem[x]
    BY <1>1, <1>2, WithFreeIs
  <2>2. g = WithFree(h1, b, 0)
    BY DEF MarkUsed, h1
  <2>. QED BY <2>1, <2>2, <1>3
<1>. QED BY <1>1, <1>2, <1>4 DEF SameTables

(* block_mark_as_used()                                                    *)
LEMMA MarkUsedIs ==
  ASSUME NEW h, HeapTyped(h), NEW B, NEW G, Tiled(h, B), Flagged(h, B, G),
         NEW b \in G, NEW g, g = MarkUsed(h, b)
  PROVE  /\ HeapTyped(g) /\ Tiled(g, B) /\ Flagged(g, B, G \ {b})
         /\ SameTables(h, g) /\ Spares(h, g, B \ {Sentinel})
         /\ KeepsSizes(h, g, B)
<1>. DEFINE n == BlockNext(h, b)
<1>1. /\ b \in B \ {Sentinel} /\ n \in B /\ n \in Places /\ b \in Places /\ n >= b + 16
      /\ b \in Nat /\ n \in Nat /\ n # Start /\ n + 4 \in Words /\ b + 4 \in Words
  <2>1. b \in B \ {Sentinel}
    BY DEF Flagged
  <2>. QED BY <2>1, BlockIs, HeaderIs, Addresses
<1>4. HeapTyped(g)
  BY <1>1, MarkUsedWords
<1>5. /\ SameTables(h, g)
      /\ g.mem[n + 4] = Fields(SizeOf(h, n), 0, FreeBit(h, n))
      /\ g.mem[b + 4] = Fields(SizeOf(h, b), PrevBit(h, b), 0)
      /\ \A a \in Words : a # n + 4 /\ a # b + 4 => g.mem[a] = h.mem[a]
  BY <1>1, MarkUsedWords
<1>. HIDE DEF n
<1>6. SizeOf(g, n) = SizeOf(h, n) /\ ~IsPrevFree(g, n) /\ (IsFree(g, n) <=> IsFree(h, n))
  <2>1. SizeOf(h, n) \in Nat /\ SizeOf(h, n) % 4 = 0 /\ FreeBit(h, n) \in {0, 1}
    BY <1>1, HeaderIs
  <2>2. /\ SizeOf(g, n) = SizeOf(h, n) /\ FreeBit(g, n) = FreeBit(h, n) /\ ~IsPrevFree(g, n)
    BY <1>1, <1>4, <1>5, <2>1, HeaderOf
  <2>. QED BY <2>2, <1>1, <1>4, HeaderIs
<1>7. SizeOf(g, b) = SizeOf(h, b) /\ (IsPrevFree(g, b) <=> IsPrevFree(h, b)) /\ ~IsFree(g, b)
  <2>1. SizeOf(h, b) \in Nat /\ SizeOf(h, b) % 4 = 0 /\ PrevBit(h, b) \in {0, 1}
    BY <1>1, HeaderIs
  <2>2. /\ SizeOf(g, b) = SizeOf(h, b) /\ PrevBit(g, b) = PrevBit(h, b) /\ ~IsFree(g, b)
    BY <1>1, <1>4, <1>5, <2>1, HeaderOf
  <2>. QED BY <2>2, <1>1, <1>4, HeaderIs
<1>8. ASSUME NEW c \in B, c # b, c # n
      PROVE  /\ SizeOf(g, c) = SizeOf(h, c)
             /\ IsFree(g, c) <=> IsFree(h, c)
             /\ IsPrevFree(g, c) <=> IsPrevFree(h, c)
  <2>1. c \in Places /\ c + 4 \in Words /\ c \in Nat
    BY HeaderIs DEF Tiled
  <2>2. g.mem[c + 4] = h.mem[c + 4]
    BY <1>1, <1>5, <1>8, <2>1
  <2>. QED BY <2>1, <2>2, <1>4, SameHeader
<1>9. \A c \in B : SizeOf(g, c) = SizeOf(h, c)
  BY <1>6, <1>7, <1>8
<1>10. Tiled(g, B) /\ \A c \in B : BlockNext(g, c) = BlockNext(h, c)
  BY <1>4, <1>9, TilesStay
<1>11. ASSUME NEW u \in B \ {Sentinel}, NEW a \in Words, Inside(h, u, a)
       PROVE  g.mem[a] = h.mem[a]
  BY <1>1, <1>5, <1>11, InsideIs
<1>12. Flagged(g, B, G \ {b})
  <2>1. ~IsPrevFree(g, Start)
    BY <1>1, <1>7, <1>8 DEF Flagged, Tiled
  <2>2. \A c \in B : IsFree(g, c) <=> c \in G \ {b}
    BY <1>1, <1>6, <1>7, <1>8 DEF Flagged
  <2>3. ASSUME NEW c \in B \ {Sentinel}
        PROVE  IsPrevFree(g, BlockNext(g, c)) <=> c \in G \ {b}
    <3>1. BlockNext(g, c) = BlockNext(h, c) /\ BlockNext(h, c) \in B
      BY <1>10, BlockIs
    <3>2. c # b => BlockNext(h, c) # n
      BY <1>1, NextOnce DEF n
    <3>3. c # b => (IsPrevFree(g, BlockNext(h, c)) <=> IsPrevFree(h, BlockNext(h, c)))
      BY <3>1, <3>2, <1>7, <1>8
    <3>. QED BY <3>1, <3>3, <1>6 DEF Flagged, n
  <2>4. ASSUME NEW c \in G \ {b}
        PROVE  g.mem[BlockNext(g, c)] = c
    <3>1. c \in B \ {Sentinel}
      BY DEF Flagged
    <3>2. BlockNext(g, c) = BlockNext(h, c) /\ BlockNext(h, c) \in Words /\ Inside(h, c, BlockNext(h, c))
      BY <1>10, <3>1, BlockIs DEF Inside
    <3>. QED BY <3>1, <3>2, <1>11 DEF Flagged
  <2>. QED BY <2>1, <2>2, <2>3, <2>4 DEF Flagged
<1>. QED BY <1>4, <1>5, <1>9, <1>10, <1>11, <1>12 DEF Spares, KeepsSizes

-----------------------------------------------------------------------------
(* Two blocks become one, and one becomes two. *)

(* Two blocks made one leave the row without a gap.                        *)
LEMMA TilesJoin ==
  ASSUME NEW h, HeapTyped(h), NEW g, HeapTyped(g), NEW B, Tiled(h, B),
         NEW b \in B \ {Sentinel}, NEW n, n = BlockNext(h, b), n # Sentinel,
         \A c \in B \ {b, n} : SizeOf(g, c) = SizeOf(h, c),
         SizeOf(g, b) = SizeOf(h, b) + SizeOf(h, n) + 4
  PROVE  /\ Tiled(g, B \ {n})
         /\ BlockNext(g, b) = BlockNext(h, n)
         /\ \A c \in B \ {b, n} : BlockNext(g, c) = BlockNext(h, c)
<1>. DEFINE m == BlockNext(h, n)
<1>1. /\ b \in Nat /\ SizeOf(h, b) \in Nat /\ n \in B \ {Sentinel} /\ n = b + 4 + SizeOf(h, b)
      /\ n >= b + 16
  BY BlockIs
<1>2. m \in B /\ m = n + 4 + SizeOf(h, n) /\ m >= n + 16 /\ SizeOf(h, n) \in Nat /\ m \in Nat
  BY <1>1, BlockIs
<1>3. SizeOf(g, b) >= 12 /\ BlockNext(g, b) = m
  BY <1>1, <1>2 DEF BlockNext
<1>4. \A c \in B \ {b, n} : BlockNext(g, c) = BlockNext(h, c)
  BY DEF BlockNext
<1>5. n # Start /\ b # n /\ m # n
  BY <1>1, <1>2, Addresses, BlockIs
<1>. HIDE DEF m
<1>6. SizeOf(g, Sentinel) = 0
  BY <1>1 DEF Tiled
<1>7. ASSUME NEW c \in (B \ {n}) \ {Sentinel}
      PROVE  SizeOf(g, c) >= BlockSizeMin /\ BlockNext(g, c) \in B \ {n}
  <2>1. CASE c = b
    BY <2>1, <1>2, <1>3, <1>5 DEF BlockSizeMin
  <2>2. CASE c # b
    <3>1. BlockNext(h, c) # n
      BY <2>2, <1>1, NextOnce
    <3>. QED BY <2>2, <3>1, <1>4, BlockIs DEF BlockSizeMin
  <2>. QED BY <2>1, <2>2
<1>8. ASSUME NEW c \in B \ {n}, NEW d \in B \ {n}, c < d
      PROVE  BlockNext(g, c) <= d
  <2>1. CASE c = b
    <3>1. n <= d /\ n # d
      BY <2>1, <1>8, Distance
    <3>2. n < d
      BY <3>1, <1>1, Distance
    <3>3. m <= d
      BY <3>2, <1>1, Distance DEF m
    <3>. QED BY <2>1, <3>3, <1>3
  <2>2. CASE c # b
    BY <2>2, <1>4, <1>8, Distance
  <2>. QED BY <2>1, <2>2
<1>. QED BY <1>1, <1>3, <1>4, <1>5, <1>6, <1>7, <1>8 DEF Tiled, m

(* One block made two leaves the row without a gap.                        *)
LEMMA TilesCut ==
  ASSUME NEW h, HeapTyped(h), NEW g, HeapTyped(g), NEW B, Tiled(h, B),
         NEW b \in B \ {Sentinel}, NEW s \in Nat, s >= 12, s % 4 = 0, SizeOf(h, b) >= s + 16,
         NEW r, r = b + 4 + s,
         \A c \in B \ {b} : SizeOf(g, c) = SizeOf(h, c),
         SizeOf(g, b) = s, SizeOf(g, r) = SizeOf(h, b) - (s + 4)
  PROVE  /\ Tiled(g, B \cup {r}) /\ r \notin B
         /\ BlockNext(g, b) = r /\ BlockNext(g, r) = BlockNext(h, b)
         /\ \A c \in B \ {b} : BlockNext(g, c) = BlockNext(h, c)
<1>. DEFINE n == BlockNext(h, b)
<1>1. /\ b \in Nat /\ b % 4 = 0 /\ b >= Start /\ SizeOf(h, b) \in Nat
      /\ n = b + 4 + SizeOf(h, b) /\ n \in B /\ n \in Nat /\ n <= Sentinel
  BY BlockIs
<1>2. r \in Nat /\ r % 4 = 0 /\ r >= b + 16 /\ n >= r + 16
  BY <1>1
<1>3. r \in Places
  BY <1>1, <1>2, PlacesAre, Addresses
<1>4. BlockNext(g, b) = r /\ BlockNext(g, r) = n /\ SizeOf(g, r) >= 12
  BY <1>1, <1>2 DEF BlockNext
<1>5. \A c \in B \ {b} : BlockNext(g, c) = BlockNext(h, c)
  BY DEF BlockNext
<1>6. ASSUME NEW d \in B
      PROVE  d \in Nat /\ (d <= b \/ d >= n)
  BY Distance
<1>7. r \notin B /\ r # Sentinel
  <2>1. r \notin B
    BY <1>1, <1>2, <1>6
  <2>. QED BY <2>1 DEF Tiled
<1>. HIDE DEF n
<1>8. SizeOf(g, Sentinel) = 0
  BY DEF Tiled
<1>9. ASSUME NEW c \in (B \cup {r}) \ {Sentinel}
      PROVE  SizeOf(g, c) >= BlockSizeMin /\ BlockNext(g, c) \in B \cup {r}
  <2>1. CASE c = b
    BY <2>1, <1>4 DEF BlockSizeMin
  <2>2. CASE c = r
    BY <2>2, <1>1, <1>4 DEF BlockSizeMin
  <2>3. CASE c \in B \ {b}
    BY <2>3, <1>5, <1>9, BlockIs DEF BlockSizeMin
  <2>. QED BY <2>1, <2>2, <2>3
<1>10. ASSUME NEW c \in B \cup {r}, NEW d \in B \cup {r}, c < d
       PROVE  BlockNext(g, c) <= d
  <2>1. CASE c = b
    BY <2>1, <1>1, <1>2, <1>4, <1>6, <1>10
  <2>2. CASE c = r
    BY <2>2, <1>1, <1>2, <1>4, <1>6, <1>10
  <2>3. CASE c \in B \ {b} /\ d \in B
    BY <2>3, <1>5, <1>10, Distance
  <2>4. CASE c \in B \ {b} /\ d = r
    <3>1. c < b
      BY <2>4, <1>1, <1>2, <1>6, <1>10
    <3>2. BlockNext(h, c) <= b /\ c \in B \ {Sentinel}
      BY <3>1, <2>4, Distance
    <3>3. BlockNext(h, c) \in Nat
      BY <3>2, BlockIs
    <3>. QED BY <3>2, <3>3, <2>4, <1>1, <1>2, <1>5
  <2>. QED BY <2>1, <2>2, <2>3, <2>4
<1>. QED BY <1>3, <1>4, <1>5, <1>7, <1>8, <1>9, <1>10 DEF Tiled, n

(* block_absorb(), word by word.                                           *)
LEMMA AbsorbWords ==
  ASSUME NEW h, HeapTyped(h), NEW b \in Places, NEW n \in Places, NEW m \in Places,
         n = BlockNext(h, b), n >= b + 16, m = BlockNext(h, n), m >= n + 16,
         NEW g, g = Absorb(h, b, n)
  PROVE  /\ HeapTyped(g) /\ SameTables(h, g)
         /\ g.mem[b + 4] = Fields(SizeOf(h, b) + SizeOf(h, n) + 4, PrevBit(h, b), FreeBit(h, b))
         /\ g.mem[m] = b
         /\ \A a \in Words : a # m /\ a # b + 4 => g.mem[a] = h.mem[a]
<1>. DEFINE s == SizeOf(h, b) + SizeOf(h, n) + 4
            v == Fields(s, PrevBit(h, b), FreeBit(h, b))
            h1 == Put(h, b + 4, v)
<1>1. /\ b \in Nat /\ n \in Nat /\ m \in Nat /\ b + 4 \in Words /\ m \in Words
      /\ SizeOf(h, b) \in Nat /\ SizeOf(h, n) \in Nat
      /\ SizeOf(h, b) % 4 = 0 /\ SizeOf(h, n) % 4 = 0
      /\ PrevBit(h, b) \in {0, 1} /\ FreeBit(h, b) \in {0, 1}
      /\ n = b + 4 + SizeOf(h, b) /\ m = n + 4 + SizeOf(h, n)
  BY HeaderIs, PlacesAre, WordsAre, Addresses
<1>2. s \in Nat /\ v \in Nat
  <2>1. s \in Nat
    BY <1>1
  <2>. HIDE DEF s
  <2>. QED BY <2>1, <1>1, FieldsNat
<1>9. s % 4 = 0
  BY <1>1
<1>3. Header(h, b) + SizeOf(h, n) + 4 = v
  <2>1. Header(h, b) = Fields(SizeOf(h, b), PrevBit(h, b), FreeBit(h, b))
    BY HeaderIs
  <2>. QED BY <2>1, <1>1 DEF Fields
<1>4. g = LinkNext(h1, b)
  BY <1>3 DEF Absorb
<1>5. m = b + 4 + s
  BY <1>1
<1>. HIDE DEF s, v
<1>6. /\ HeapTyped(h1) /\ SameTables(h, h1)
      /\ \A x \in Words : h1.mem[x] = IF x = b + 4 THEN v ELSE h.mem[x]
  <2>1. b + 4 \in Words /\ v \in Nat
    BY <1>1, <1>2
  <2>. QED BY <2>1, PutIs
<1>. HIDE DEF h1
<1>7. BlockNext(h1, b) = m
  BY <1>1, <1>2, <1>9, <1>5, <1>6, HeaderOf DEF v
<1>8. /\ HeapTyped(g) /\ SameTables(h1, g)
      /\ \A x \in Words : g.mem[x] = IF x = m THEN b ELSE h1.mem[x]
  <2>1. /\ HeapTyped(LinkNext(h1, b)) /\ SameTables(h1, LinkNext(h1, b))
        /\ \A x \in Words : LinkNext(h1, b).mem[x] = IF x = m THEN b ELSE h1.mem[x]
    BY <1>1, <1>6, <1>7, LinkNextIs
  <2>. QED BY <2>1, <1>4
<1>. QED BY <1>1, <1>6, <1>8 DEF SameTables, v, s

(* A free block takes in the free block behind it.                         *)
TakesIn(h, b, n, g) ==
  /\ SizeOf(g, b) = SizeOf(h, b) + SizeOf(h, n) + 4
  /\ BlockNext(g, b) = BlockNext(h, n)

(* block_absorb() between free blocks.                                     *)
LEMMA AbsorbIs ==
  ASSUME NEW h, HeapTyped(h), NEW B, NEW G, Tiled(h, B), Flagged(h, B, G),
         NEW b \in G, NEW n \in G, n = BlockNext(h, b), NEW g, g = Absorb(h, b, n)
  PROVE  /\ HeapTyped(g) /\ Tiled(g, B \ {n}) /\ Flagged(g, B \ {n}, G \ {n})
         /\ SameTables(h, g) /\ Spares(h, g, B \ {b, n, Sentinel})
         /\ TakesIn(h, b, n, g)
         /\ KeepsSizes(h, g, B \ {b, n})
<1>. DEFINE m == BlockNext(h, n)
            s == SizeOf(h, b) + SizeOf(h, n) + 4
<1>1. /\ b \in B \ {Sentinel} /\ n \in B \ {Sentinel} /\ m \in B /\ b \in Places
      /\ n \in Places /\ m \in Places /\ b \in Nat /\ n \in Nat /\ m \in Nat
      /\ n >= b + 16 /\ m >= n + 16 /\ m \in Words /\ b >= Start
  <2>1. b \in B \ {Sentinel} /\ n \in B \ {Sentinel}
    BY DEF Flagged
  <2>. QED BY <2>1, BlockIs
<1>2. /\ HeapTyped(g) /\ SameTables(h, g)
      /\ g.mem[b + 4] = Fields(s, PrevBit(h, b), FreeBit(h, b))
      /\ g.mem[m] = b
      /\ \A a \in Words : a # m /\ a # b + 4 => g.mem[a] = h.mem[a]
  BY <1>1, AbsorbWords
<1>. HIDE DEF m
<1>3. SizeOf(g, b) = s /\ IsFree(g, b) /\ (IsPrevFree(g, b) <=> IsPrevFree(h, b))
  <2>1. /\ SizeOf(h, b) \in Nat /\ SizeOf(h, n) \in Nat
        /\ SizeOf(h, b) % 4 = 0 /\ SizeOf(h, n) % 4 = 0
        /\ PrevBit(h, b) \in {0, 1} /\ FreeBit(h, b) \in {0, 1} /\ IsFree(h, b)
    BY <1>1, HeaderIs DEF Flagged
  <2>2. s \in Nat /\ s % 4 = 0
    BY <2>1
  <2>. HIDE DEF s
  <2>3. SizeOf(g, b) = s /\ FreeBit(g, b) = FreeBit(h, b) /\ PrevBit(g, b) = PrevBit(h, b)
    BY <1>1, <1>2, <2>1, <2>2, HeaderOf
  <2>. QED BY <2>1, <2>3, <1>1, <1>2, HeaderIs
<1>4. ASSUME NEW c \in B, c # b
      PROVE  /\ SizeOf(g, c) = SizeOf(h, c)
             /\ IsFree(g, c) <=> IsFree(h, c)
             /\ IsPrevFree(g, c) <=> IsPrevFree(h, c)
  <2>1. c \in Places /\ c + 4 \in Words /\ c \in Nat
    BY HeaderIs DEF Tiled
  <2>2. c = m \/ c >= m + 16 \/ m >= c + 16
    BY <1>1, Distance
  <2>3. g.mem[c + 4] = h.mem[c + 4]
    BY <1>1, <1>2, <1>4, <2>1, <2>2
  <2>. QED BY <2>1, <2>3, <1>2, SameHeader
<1>5. /\ Tiled(g, B \ {n}) /\ BlockNext(g, b) = m
      /\ \A c \in B \ {b, n} : BlockNext(g, c) = BlockNext(h, c)
  <2>1. \A c \in B \ {b, n} : SizeOf(g, c) = SizeOf(h, c)
    BY <1>4
  <2>2. SizeOf(g, b) = SizeOf(h, b) + SizeOf(h, n) + 4
    BY <1>3 DEF s
  <2>9. /\ Tiled(g, B \ {n})
        /\ BlockNext(g, b) = BlockNext(h, n)
        /\ \A c \in B \ {b, n} : BlockNext(g, c) = BlockNext(h, c)
    <3>1. b \in B \ {Sentinel} /\ n # Sentinel /\ HeapTyped(g)
      BY <1>1, <1>2
    <3>. QED BY <3>1, <2>1, <2>2, TilesJoin
  <2>. QED BY <2>9 DEF m
<1>6. ASSUME NEW u \in B \ {b, n, Sentinel}, NEW a \in Words, Inside(h, u, a)
      PROVE  g.mem[a] = h.mem[a]
  <2>1. a # b + 4 /\ (a = m => m = BlockNext(h, u))
    BY <1>1, <1>6, InsideIs
  <2>2. m # BlockNext(h, u)
    BY <1>1, NextOnce DEF m
  <2>. QED BY <1>2, <2>1, <2>2
<1>7. Flagged(g, B \ {n}, G \ {n})
  <2>1. ~IsPrevFree(g, Start)
    BY <1>1, <1>3, <1>4 DEF Flagged, Tiled
  <2>2. \A c \in B \ {n} : IsFree(g, c) <=> c \in G \ {n}
    BY <1>3, <1>4 DEF Flagged
  <2>3. ASSUME NEW c \in (B \ {n}) \ {Sentinel}
        PROVE  IsPrevFree(g, BlockNext(g, c)) <=> c \in G \ {n}
    <3>1. CASE c = b
      BY <3>1, <1>1, <1>3, <1>4, <1>5 DEF Flagged, m
    <3>2. CASE c # b
      <4>1. BlockNext(g, c) = BlockNext(h, c) /\ BlockNext(h, c) \in B
        BY <3>2, <1>5, BlockIs
      <4>. QED BY <4>1, <1>3, <1>4 DEF Flagged
    <3>. QED BY <3>1, <3>2
  <2>4. ASSUME NEW c \in G \ {n}
        PROVE  g.mem[BlockNext(g, c)] = c
    <3>1. CASE c = b
      BY <3>1, <1>2, <1>5
    <3>2. CASE c # b
      <4>1. c \in B \ {b, n, Sentinel}
        BY <3>2 DEF Flagged
      <4>2. /\ BlockNext(g, c) = BlockNext(h, c) /\ BlockNext(h, c) \in Words
            /\ Inside(h, c, BlockNext(h, c))
        BY <4>1, <1>5, BlockIs DEF Inside
      <4>. QED BY <4>1, <4>2, <1>6 DEF Flagged
    <3>. QED BY <3>1, <3>2
  <2>5. G \ {n} \subseteq (B \ {n}) \ {Sentinel}
    BY DEF Flagged
  <2>. QED BY <2>1, <2>2, <2>3, <2>4, <2>5 DEF Flagged
<1>. QED BY <1>2, <1>3, <1>4, <1>5, <1>6, <1>7 DEF Spares, KeepsSizes, TakesIn, m

(* A used block takes in the free block behind it.                         *)
Sums(h, b, n, g) == SizeOf(g, b) = SizeOf(h, b) + SizeOf(h, n) + 4
KeepsAll(h, g, b) == \A a \in Words : Inside(h, b, a) => g.mem[a] = h.mem[a]

(* block_absorb() of a free block into one in use.                         *)
LEMMA GrowUsedIs ==
  ASSUME NEW h, HeapTyped(h), NEW B, NEW G, Tiled(h, B), Flagged(h, B, G),
         NEW b \in B \ {Sentinel}, b \notin G, NEW n \in G, n = BlockNext(h, b),
         NEW g, g = MarkUsed(Absorb(h, b, n), b)
  PROVE  /\ HeapTyped(g) /\ Tiled(g, B \ {n}) /\ Flagged(g, B \ {n}, G \ {n})
         /\ SameTables(h, g) /\ Spares(h, g, B \ {b, n, Sentinel})
         /\ Sums(h, b, n, g)
         /\ KeepsSizes(h, g, B \ {b, n})
         /\ KeepsAll(h, g, b)
<1>. DEFINE m == BlockNext(h, n)
            s == SizeOf(h, b) + SizeOf(h, n) + 4
            h1 == Absorb(h, b, n)
<1>1. /\ n \in B \ {Sentinel} /\ m \in B /\ b \in Places
      /\ n \in Places /\ m \in Places /\ b \in Nat /\ n \in Nat /\ m \in Nat
      /\ n >= b + 16 /\ m >= n + 16 /\ m \in Words /\ b >= Start /\ b + 4 \in Words
      /\ m + 4 \in Words
  <2>1. n \in B \ {Sentinel}
    BY DEF Flagged
  <2>. QED BY <2>1, BlockIs, HeaderIs
<1>2. /\ HeapTyped(h1) /\ SameTables(h, h1)
      /\ h1.mem[b + 4] = Fields(s, PrevBit(h, b), FreeBit(h, b))
      /\ h1.mem[m] = b
      /\ \A a \in Words : a # m /\ a # b + 4 => h1.mem[a] = h.mem[a]
  BY <1>1, AbsorbWords
<1>3. /\ SizeOf(h, b) \in Nat /\ SizeOf(h, n) \in Nat
      /\ SizeOf(h, b) % 4 = 0 /\ SizeOf(h, n) % 4 = 0
      /\ PrevBit(h, b) \in {0, 1} /\ FreeBit(h, b) \in {0, 1}
      /\ m = b + 4 + s
  BY <1>1, HeaderIs, BlockIs
<1>4. s \in Nat /\ s % 4 = 0
  BY <1>3
<1>. HIDE DEF m, s, h1
<1>5. SizeOf(h1, b) = s /\ PrevBit(h1, b) = PrevBit(h, b) /\ BlockNext(h1, b) = m
  BY <1>1, <1>2, <1>3, <1>4, HeaderOf
<1>6. SizeOf(h1, m) = SizeOf(h, m) /\ FreeBit(h1, m) = FreeBit(h, m)
  <2>1. h1.mem[m + 4] = h.mem[m + 4]
    BY <1>1, <1>2
  <2>. QED BY <2>1, <1>1, <1>2, SameHeader
<1>7. /\ HeapTyped(g) /\ SameTables(h1, g)
      /\ g.mem[m + 4] = Fields(SizeOf(h, m), 0, FreeBit(h, m))
      /\ g.mem[b + 4] = Fields(s, PrevBit(h, b), 0)
      /\ \A a \in Words : a # m + 4 /\ a # b + 4 => g.mem[a] = h1.mem[a]
  <2>1. m >= b + 16 /\ g = MarkUsed(h1, b)
    BY <1>1 DEF h1
  <2>. QED BY <2>1, <1>1, <1>2, <1>5, <1>6, MarkUsedWords
<1>8. /\ SameTables(h, g)
      /\ \A a \in Words : a # m /\ a # m + 4 /\ a # b + 4 => g.mem[a] = h.mem[a]
  BY <1>2, <1>7 DEF SameTables
<1>9. SizeOf(g, b) = s /\ ~IsFree(g, b) /\ (IsPrevFree(g, b) <=> IsPrevFree(h, b))
  <2>1. SizeOf(g, b) = s /\ ~IsFree(g, b) /\ PrevBit(g, b) = PrevBit(h, b)
    BY <1>1, <1>3, <1>4, <1>7, HeaderOf
  <2>. QED BY <2>1, <1>1, <1>7, HeaderIs
<1>10. SizeOf(g, m) = SizeOf(h, m) /\ ~IsPrevFree(g, m) /\ (IsFree(g, m) <=> IsFree(h, m))
  <2>1. SizeOf(h, m) \in Nat /\ SizeOf(h, m) % 4 = 0 /\ FreeBit(h, m) \in {0, 1}
    BY <1>1, HeaderIs
  <2>2. /\ SizeOf(g, m) = SizeOf(h, m) /\ FreeBit(g, m) = FreeBit(h, m) /\ ~IsPrevFree(g, m)
    BY <1>1, <1>7, <2>1, HeaderOf
  <2>. QED BY <2>2, <1>1, <1>7, HeaderIs
<1>11. ASSUME NEW c \in B, c # b, c # m
       PROVE  /\ SizeOf(g, c) = SizeOf(h, c)
              /\ IsFree(g, c) <=> IsFree(h, c)
              /\ IsPrevFree(g, c) <=> IsPrevFree(h, c)
  <2>1. c \in Places /\ c + 4 \in Words /\ c \in Nat
    BY HeaderIs DEF Tiled
  <2>2. c = m \/ c >= m + 16 \/ m >= c + 16
    BY <1>1, Distance
  <2>3. g.mem[c + 4] = h.mem[c + 4]
    BY <1>1, <1>8, <1>11, <2>1, <2>2
  <2>. QED BY <2>1, <2>3, <1>7, SameHeader
<1>12. \A c \in B \ {b, n} : SizeOf(g, c) = SizeOf(h, c)
  BY <1>10, <1>11
<1>13. /\ Tiled(g, B \ {n}) /\ BlockNext(g, b) = m
       /\ \A c \in B \ {b, n} : BlockNext(g, c) = BlockNext(h, c)
  <2>1. SizeOf(g, b) = SizeOf(h, b) + SizeOf(h, n) + 4
    BY <1>9 DEF s
  <2>9. /\ Tiled(g, B \ {n})
        /\ BlockNext(g, b) = BlockNext(h, n)
        /\ \A c \in B \ {b, n} : BlockNext(g, c) = BlockNext(h, c)
    <3>1. b \in B \ {Sentinel} /\ n # Sentinel /\ HeapTyped(g)
      BY <1>1, <1>7
    <3>. QED BY <3>1, <2>1, <1>12, TilesJoin
  <2>. QED BY <2>9 DEF m
<1>14. ASSUME NEW u \in B \ {b, n, Sentinel}, NEW a \in Words, Inside(h, u, a)
       PROVE  g.mem[a] = h.mem[a]
  <2>1. a # b + 4 /\ a # m + 4 /\ (a = m => m = BlockNext(h, u))
    BY <1>1, <1>14, InsideIs
  <2>2. m # BlockNext(h, u)
    BY <1>1, NextOnce DEF m
  <2>. QED BY <1>8, <2>1, <2>2
<1>15. Flagged(g, B \ {n}, G \ {n})
  <2>1. ~IsPrevFree(g, Start)
    BY <1>1, <1>9, <1>11 DEF Flagged, Tiled
  <2>2. \A c \in B \ {n} : IsFree(g, c) <=> c \in G \ {n}
    BY <1>9, <1>10, <1>11 DEF Flagged
  <2>3. ASSUME NEW c \in (B \ {n}) \ {Sentinel}
        PROVE  IsPrevFree(g, BlockNext(g, c)) <=> c \in G \ {n}
    <3>1. CASE c = b
      BY <3>1, <1>10, <1>13
    <3>2. CASE c # b
      <4>1. BlockNext(g, c) = BlockNext(h, c) /\ BlockNext(h, c) \in B
        BY <3>2, <1>13, BlockIs
      <4>2. BlockNext(h, c) # m
        BY <1>1, NextOnce DEF m
      <4>. QED BY <4>1, <4>2, <1>9, <1>11 DEF Flagged
    <3>. QED BY <3>1, <3>2
  <2>4. ASSUME NEW c \in G \ {n}
        PROVE  g.mem[BlockNext(g, c)] = c
    <3>1. c \in B \ {b, n, Sentinel}
      BY DEF Flagged
    <3>2. /\ BlockNext(g, c) = BlockNext(h, c) /\ BlockNext(h, c) \in Words
          /\ Inside(h, c, BlockNext(h, c))
      BY <3>1, <1>13, BlockIs DEF Inside
    <3>. QED BY <3>1, <3>2, <1>14 DEF Flagged
  <2>5. G \ {n} \subseteq (B \ {n}) \ {Sentinel}
    BY DEF Flagged
  <2>. QED BY <2>1, <2>2, <2>3, <2>4, <2>5 DEF Flagged
<1>16. ASSUME NEW a \in Words, Inside(h, b, a)
       PROVE  g.mem[a] = h.mem[a]
  <2>1. a \in Nat /\ b + 8 <= a /\ a <= n
    BY <1>16, WordsAre DEF Inside
  <2>. QED BY <2>1, <1>1, <1>8
<1>. QED BY <1>7, <1>8, <1>9, <1>12, <1>13, <1>14, <1>15, <1>16 DEF Spares, KeepsSizes, KeepsAll, Sums, s

(* A block is cut: s bytes remain in it, the rest is a free block.         *)
Cuts(h, b, s) == s \in Nat /\ s >= 12 /\ s % 4 = 0 /\ SizeOf(h, b) >= s + 16

(* Where the second block begins and how large it is.                      *)
LEMMA CutFacts ==
  ASSUME NEW h, HeapTyped(h), NEW B, Tiled(h, B), NEW b \in B \ {Sentinel},
         NEW s, Cuts(h, b, s), NEW r, r = b + 4 + s, NEW n, n = BlockNext(h, b)
  PROVE  /\ b \in Places /\ r \in Places /\ n \in Places /\ n \in B /\ b \in Nat
         /\ r \in Nat /\ n \in Nat /\ r >= b + 16 /\ n >= r + 16 /\ n \in Words /\ r \in Words
         /\ b + 4 \in Words /\ r + 4 \in Words /\ n + 4 \in Words
         /\ SizeOf(h, b) - (s + 4) \in Nat /\ (SizeOf(h, b) - (s + 4)) % 4 = 0
         /\ n = r + 4 + (SizeOf(h, b) - (s + 4)) /\ b >= Start
<1>1. /\ b \in Nat /\ b % 4 = 0 /\ b >= Start /\ SizeOf(h, b) \in Nat /\ SizeOf(h, b) % 4 = 0
      /\ n = b + 4 + SizeOf(h, b) /\ n \in B /\ n \in Nat /\ n <= Sentinel /\ b \in Places
      /\ n \in Words /\ n \in Places
  BY BlockIs
<1>2. s \in Nat /\ s >= 12 /\ s % 4 = 0 /\ SizeOf(h, b) >= s + 16
  BY DEF Cuts
<1>3. r \in Nat /\ r % 4 = 0 /\ r >= b + 16 /\ n >= r + 16
  BY <1>1, <1>2
<1>4. r \in Places
  BY <1>1, <1>3, PlacesAre, Addresses
<1>5. r \in Words
  BY <1>1, <1>3, WordsAre, Addresses
<1>6. b + 4 \in Words /\ r + 4 \in Words /\ n + 4 \in Words
  BY <1>1, <1>4, HeaderIs
<1>7. /\ SizeOf(h, b) - (s + 4) \in Nat /\ (SizeOf(h, b) - (s + 4)) % 4 = 0
      /\ n = r + 4 + (SizeOf(h, b) - (s + 4))
  BY <1>1, <1>2
<1>. QED BY <1>1, <1>3, <1>4, <1>5, <1>6, <1>7

(* block_split(), word by word.                                            *)
LEMMA SplitWords ==
  ASSUME NEW h, HeapTyped(h), NEW B, Tiled(h, B), NEW b \in B \ {Sentinel},
         NEW s, Cuts(h, b, s), NEW r, r = b + 4 + s, NEW n, n = BlockNext(h, b),
         NEW g, g = Split(h, b, s), NEW rest, rest = SizeOf(h, b) - (s + 4)
  PROVE  /\ HeapTyped(g) /\ SameTables(h, g)
         /\ g.mem[b + 4] = Fields(s, PrevBit(h, b), FreeBit(h, b))
         /\ SizeOf(g, r) = rest /\ FreeBit(g, r) = 1 /\ BlockNext(g, b) = r
         /\ g.mem[n] = r
         /\ g.mem[n + 4] = Fields(SizeOf(h, n), 1, FreeBit(h, n))
         /\ \A a \in Words : a # n /\ a # n + 4 /\ a # b + 4 /\ a # r + 4 => g.mem[a] = h.mem[a]
<1>. DEFINE h1 == WithSize(h, r, rest)
            h2 == WithSize(h1, b, s)
<1>1. /\ b \in Places /\ r \in Places /\ n \in Places /\ b \in Nat
      /\ r \in Nat /\ n \in Nat /\ r >= b + 16 /\ n >= r + 16 /\ n \in Words
      /\ b + 4 \in Words /\ r + 4 \in Words /\ n + 4 \in Words
  BY CutFacts
<1>2. rest \in Nat /\ rest % 4 = 0 /\ n = r + 4 + rest
  BY CutFacts
<1>3. s \in Nat /\ s % 4 = 0
  BY DEF Cuts
<1>4. /\ HeapTyped(h1) /\ SameTables(h, h1)
      /\ \A x \in Words : h1.mem[x] =
           IF x = r + 4 THEN Fields(rest, PrevBit(h, r), FreeBit(h, r)) ELSE h.mem[x]
  <2>1. r \in Places /\ rest \in Nat
    BY <1>1, <1>2
  <2>. QED BY <2>1, WithSizeIs
<1>. HIDE DEF h1
<1>5. /\ PrevBit(h1, b) = PrevBit(h, b) /\ FreeBit(h1, b) = FreeBit(h, b)
      /\ SizeOf(h1, n) = SizeOf(h, n) /\ FreeBit(h1, n) = FreeBit(h, n)
  <2>1. h1.mem[b + 4] = h.mem[b + 4] /\ h1.mem[n + 4] = h.mem[n + 4]
    BY <1>1, <1>4
  <2>. QED BY <2>1, <1>1, <1>4, SameHeader
<1>6. /\ HeapTyped(h2) /\ SameTables(h1, h2)
      /\ \A x \in Words : h2.mem[x] =
           IF x = b + 4 THEN Fields(s, PrevBit(h, b), FreeBit(h, b)) ELSE h1.mem[x]
  <2>1. /\ HeapTyped(h2) /\ SameTables(h1, h2)
        /\ \A x \in Words : h2.mem[x] =
             IF x = b + 4 THEN Fields(s, PrevBit(h1, b), FreeBit(h1, b)) ELSE h1.mem[x]
    BY <1>1, <1>3, <1>4, WithSizeIs
  <2>. QED BY <2>1, <1>5
<1>7. g = MarkFree(h2, r)
  BY DEF Split, Remaining, h1
<1>. HIDE DEF h2
<1>8. SizeOf(h2, r) = rest /\ BlockNext(h2, r) = n
  <2>1. PrevBit(h, r) \in {0, 1} /\ FreeBit(h, r) \in {0, 1}
    BY <1>1, HeaderIs
  <2>2. h2.mem[r + 4] = Fields(rest, PrevBit(h, r), FreeBit(h, r))
    BY <1>1, <1>4, <1>6
  <2>. QED BY <2>1, <2>2, <1>1, <1>2, <1>6, HeaderOf
<1>9. SizeOf(h2, n) = SizeOf(h, n) /\ FreeBit(h2, n) = FreeBit(h, n)
  <2>1. h2.mem[n + 4] = h1.mem[n + 4]
    BY <1>1, <1>6
  <2>. QED BY <2>1, <1>1, <1>4, <1>5, <1>6, SameHeader
<1>10. /\ HeapTyped(g) /\ SameTables(h2, g)
       /\ g.mem[n] = r
       /\ g.mem[n + 4] = Fields(SizeOf(h, n), 1, FreeBit(h, n))
       /\ g.mem[r + 4] = Fields(rest, PrevBit(h2, r), 1)
       /\ \A a \in Words : a # n /\ a # n + 4 /\ a # r + 4 => g.mem[a] = h2.mem[a]
  <2>1. r \in Places /\ n \in Places /\ n >= r + 16 /\ HeapTyped(h2)
    BY <1>1, <1>6
  <2>. QED BY <2>1, <1>7, <1>8, <1>9, MarkFreeWords
<1>11. SizeOf(g, r) = rest /\ FreeBit(g, r) = 1
  <2>1. PrevBit(h2, r) \in {0, 1}
    BY <1>1, <1>6, HeaderIs
  <2>. QED BY <2>1, <1>1, <1>2, <1>10, HeaderOf
<1>12. g.mem[b + 4] = Fields(s, PrevBit(h, b), FreeBit(h, b))
  BY <1>1, <1>6, <1>10
<1>13. BlockNext(g, b) = r
  <2>1. PrevBit(h, b) \in {0, 1} /\ FreeBit(h, b) \in {0, 1}
    BY <1>1, HeaderIs
  <2>. QED BY <2>1, <1>1, <1>3, <1>10, <1>12, HeaderOf
<1>14. SameTables(h, g)
  BY <1>4, <1>6, <1>10 DEF SameTables
<1>. QED BY <1>1, <1>4, <1>6, <1>10, <1>11, <1>12, <1>13, <1>14

(* The rest begins with the pointer back to a free block.                  *)
CutWords(h, b, s, r, n, x, g) ==
  /\ g.mem[b + 4] = Fields(s, PrevBit(h, b), FreeBit(h, b))
  /\ g.mem[r + 4] = Fields(SizeOf(h, b) - (s + 4), x, 1)
  /\ g.mem[n] = r
  /\ g.mem[n + 4] = Fields(SizeOf(h, n), 1, FreeBit(h, n))
  /\ x = 1 => g.mem[r] = b
  /\ \A a \in Words : a # n /\ a # n + 4 /\ a # b + 4 /\ a # r + 4 /\ a # r
                         => g.mem[a] = h.mem[a]

IsCut(h, B, G, b, s, r, g) ==
  /\ HeapTyped(g) /\ SameTables(h, g)
  /\ Tiled(g, B \cup {r}) /\ Flagged(g, B \cup {r}, G \cup {r})
  /\ Spares(h, g, B \ {b, Sentinel}) /\ r \notin B
  /\ SizeOf(g, b) = s /\ SizeOf(g, r) = SizeOf(h, b) - (s + 4)
  /\ BlockNext(g, b) = r /\ BlockNext(g, r) = BlockNext(h, b)
  /\ \A c \in B \ {b} : SizeOf(g, c) = SizeOf(h, c)

(* A block of these words is two.                                          *)
LEMMA CutIs ==
  ASSUME NEW h, HeapTyped(h), NEW B, NEW G, Tiled(h, B), Flagged(h, B, G),
         NEW b \in B \ {Sentinel}, NEW s, Cuts(h, b, s), NEW r, r = b + 4 + s,
         NEW n, n = BlockNext(h, b), NEW x \in {0, 1}, x = 1 <=> b \in G,
         NEW g, HeapTyped(g), SameTables(h, g), CutWords(h, b, s, r, n, x, g)
  PROVE  IsCut(h, B, G, b, s, r, g)
<1>. DEFINE rest == SizeOf(h, b) - (s + 4)
<1>1. /\ b \in Places /\ r \in Places /\ n \in Places /\ n \in B /\ b \in Nat
      /\ r \in Nat /\ n \in Nat /\ r >= b + 16 /\ n >= r + 16 /\ n \in Words /\ r \in Words
      /\ b + 4 \in Words /\ r + 4 \in Words /\ n + 4 \in Words /\ b >= Start
  BY CutFacts
<1>2. rest \in Nat /\ rest % 4 = 0
  BY CutFacts
<1>0. /\ g.mem[b + 4] = Fields(s, PrevBit(h, b), FreeBit(h, b))
      /\ g.mem[r + 4] = Fields(rest, x, 1)
      /\ g.mem[n] = r
      /\ g.mem[n + 4] = Fields(SizeOf(h, n), 1, FreeBit(h, n))
      /\ b \in G => g.mem[r] = b
      /\ \A a \in Words : a # n /\ a # n + 4 /\ a # b + 4 /\ a # r + 4 /\ a # r
                            => g.mem[a] = h.mem[a]
  BY DEF CutWords
<1>. HIDE DEF rest
<1>3. s \in Nat /\ s % 4 = 0
  BY DEF Cuts
<1>4. /\ PrevBit(h, b) \in {0, 1} /\ FreeBit(h, b) \in {0, 1}
      /\ SizeOf(h, n) \in Nat /\ SizeOf(h, n) % 4 = 0 /\ FreeBit(h, n) \in {0, 1}
  BY <1>1, HeaderIs
<1>5. SizeOf(g, r) = rest /\ (IsPrevFree(g, r) <=> x = 1) /\ IsFree(g, r)
  BY <1>0, <1>1, <1>2, HeaderOf
<1>6. /\ SizeOf(g, b) = s
      /\ IsFree(g, b) <=> IsFree(h, b)
      /\ IsPrevFree(g, b) <=> IsPrevFree(h, b)
  <2>1. SizeOf(g, b) = s /\ FreeBit(g, b) = FreeBit(h, b) /\ PrevBit(g, b) = PrevBit(h, b)
    BY <1>0, <1>1, <1>3, <1>4, HeaderOf
  <2>. QED BY <2>1, <1>1, HeaderIs
<1>7. SizeOf(g, n) = SizeOf(h, n) /\ IsPrevFree(g, n) /\ (IsFree(g, n) <=> IsFree(h, n))
  <2>1. SizeOf(g, n) = SizeOf(h, n) /\ IsPrevFree(g, n) /\ FreeBit(g, n) = FreeBit(h, n)
    BY <1>0, <1>1, <1>4, HeaderOf
  <2>. QED BY <2>1, <1>1, HeaderIs
<1>8. ASSUME NEW c \in B
      PROVE  c \in Nat /\ (c <= b \/ c >= n) /\ c # r
  BY <1>1, Distance
<1>9. ASSUME NEW c \in B, c # b, c # n
      PROVE  /\ SizeOf(g, c) = SizeOf(h, c)
             /\ IsFree(g, c) <=> IsFree(h, c)
             /\ IsPrevFree(g, c) <=> IsPrevFree(h, c)
  <2>1. c \in Places /\ c + 4 \in Words
    BY HeaderIs DEF Tiled
  <2>2. /\ c = n \/ c >= n + 16 \/ n >= c + 16
        /\ c = b \/ c >= b + 16 \/ b >= c + 16
    BY <1>1, Distance
  <2>3. g.mem[c + 4] = h.mem[c + 4]
    BY <1>0, <1>1, <1>8, <1>9, <2>1, <2>2
  <2>. QED BY <2>1, <2>3, SameHeader
<1>10. \A c \in B \ {b} : SizeOf(g, c) = SizeOf(h, c)
  BY <1>7, <1>9
<1>11. /\ Tiled(g, B \cup {r}) /\ r \notin B
       /\ BlockNext(g, b) = r /\ BlockNext(g, r) = BlockNext(h, b)
       /\ \A c \in B \ {b} : BlockNext(g, c) = BlockNext(h, c)
  <2>1. s >= 12 /\ SizeOf(h, b) >= s + 16
    BY DEF Cuts
  <2>2. SizeOf(g, b) = s /\ SizeOf(g, r) = SizeOf(h, b) - (s + 4)
    BY <1>5, <1>6 DEF rest
  <2>. QED BY <1>3, <1>10, <2>1, <2>2, TilesCut
<1>12. ASSUME NEW u \in B \ {b, Sentinel}, NEW a \in Words, Inside(h, u, a)
       PROVE  g.mem[a] = h.mem[a]
  <2>1. a # b + 4 /\ a # n + 4 /\ (a = n => n = BlockNext(h, u))
    BY <1>1, <1>12, InsideIs
  <2>2. n # BlockNext(h, u)
    BY NextOnce
  <2>3. a # r /\ a # r + 4
    <3>1. /\ a \in Nat /\ u \in Nat /\ u + 8 <= a /\ a <= BlockNext(h, u)
          /\ BlockNext(h, u) \in Nat
      BY <1>12, WordsAre, BlockIs DEF Inside
    <3>2. u < b => BlockNext(h, u) <= b
      BY Distance
    <3>3. u < b \/ u >= n
      BY <1>1, <1>8
    <3>. QED BY <3>1, <3>2, <3>3, <1>1
  <2>. QED BY <2>1, <2>2, <2>3, <1>0
<1>13. Flagged(g, B \cup {r}, G \cup {r})
  <2>1. ~IsPrevFree(g, Start)
    BY <1>1, <1>6, <1>9, Addresses DEF Flagged, Tiled
  <2>2. \A c \in B \cup {r} : IsFree(g, c) <=> c \in G \cup {r}
    BY <1>5, <1>6, <1>7, <1>8, <1>9 DEF Flagged
  <2>3. ASSUME NEW c \in (B \cup {r}) \ {Sentinel}
        PROVE  IsPrevFree(g, BlockNext(g, c)) <=> c \in G \cup {r}
    <3>1. CASE c = b
      BY <3>1, <1>1, <1>5, <1>11
    <3>2. CASE c = r
      BY <3>2, <1>7, <1>11
    <3>3. CASE c \in B \ {b}
      <4>1. BlockNext(g, c) = BlockNext(h, c) /\ BlockNext(h, c) \in B
        BY <3>3, <1>11, BlockIs
      <4>2. BlockNext(h, c) # n
        BY <3>3, NextOnce
      <4>. QED BY <3>3, <4>1, <4>2, <1>6, <1>8, <1>9 DEF Flagged
    <3>. QED BY <3>1, <3>2, <3>3
  <2>4. ASSUME NEW c \in G \cup {r}
        PROVE  g.mem[BlockNext(g, c)] = c
    <3>1. CASE c = r
      BY <3>1, <1>0, <1>11
    <3>2. CASE c = b /\ c \in G
      BY <3>2, <1>0, <1>11
    <3>3. CASE c # b /\ c \in G
      <4>1. c \in B \ {b, Sentinel}
        BY <3>3 DEF Flagged
      <4>2. /\ BlockNext(g, c) = BlockNext(h, c) /\ BlockNext(h, c) \in Words
            /\ Inside(h, c, BlockNext(h, c))
        BY <4>1, <1>11, BlockIs DEF Inside
      <4>. QED BY <3>3, <4>1, <4>2, <1>12 DEF Flagged
    <3>. QED BY <3>1, <3>2, <3>3
  <2>5. G \cup {r} \subseteq (B \cup {r}) \ {Sentinel}
    BY <1>8 DEF Flagged, Tiled
  <2>. QED BY <2>1, <2>2, <2>3, <2>4, <2>5 DEF Flagged
<1>. QED BY <1>5, <1>6, <1>10, <1>11, <1>12, <1>13 DEF Spares, IsCut, rest

(* Splitting a free block, as block_trim_free() and _leading() do it.      *)
LEMMA SplitFreeIs ==
  ASSUME NEW h, HeapTyped(h), NEW B, NEW G, Tiled(h, B), Flagged(h, B, G),
         NEW b \in G, NEW s, Cuts(h, b, s), NEW r, r = b + 4 + s, NEW g,
         g \in {WithPrevFree(LinkNext(Split(h, b, s), b), r, 1),
                LinkNext(WithPrevFree(Split(h, b, s), r, 1), b)}
  PROVE  IsCut(h, B, G, b, s, r, g)
<1>. DEFINE n == BlockNext(h, b)
            rest == SizeOf(h, b) - (s + 4)
            h1 == Split(h, b, s)
<1>0. b \in B \ {Sentinel}
  BY DEF Flagged
<1>1. /\ b \in Places /\ r \in Places /\ n \in Places /\ b \in Nat
      /\ r \in Nat /\ n \in Nat /\ r >= b + 16 /\ n >= r + 16 /\ r \in Words
      /\ b + 4 \in Words /\ r + 4 \in Words /\ n \in Words /\ n + 4 \in Words
  BY <1>0, CutFacts
<1>2. /\ HeapTyped(h1) /\ SameTables(h, h1)
      /\ h1.mem[b + 4] = Fields(s, PrevBit(h, b), FreeBit(h, b))
      /\ SizeOf(h1, r) = rest /\ FreeBit(h1, r) = 1 /\ BlockNext(h1, b) = r
      /\ h1.mem[n] = r
      /\ h1.mem[n + 4] = Fields(SizeOf(h, n), 1, FreeBit(h, n))
      /\ \A a \in Words : a # n /\ a # n + 4 /\ a # b + 4 /\ a # r + 4 => h1.mem[a] = h.mem[a]
  BY <1>0, SplitWords
<1>. HIDE DEF n, rest, h1
<1>3. /\ HeapTyped(g) /\ SameTables(h1, g)
      /\ \A a \in Words : g.mem[a] = IF a = r + 4 THEN Fields(rest, 1, 1)
                                     ELSE IF a = r THEN b ELSE h1.mem[a]
  <2>1. CASE g = WithPrevFree(LinkNext(h1, b), r, 1)
    <3>. DEFINE h2 == LinkNext(h1, b)
    <3>1. /\ HeapTyped(h2) /\ SameTables(h1, h2)
          /\ \A a \in Words : h2.mem[a] = IF a = r THEN b ELSE h1.mem[a]
      BY <1>1, <1>2, LinkNextIs
    <3>. HIDE DEF h2
    <3>2. SizeOf(h2, r) = rest /\ FreeBit(h2, r) = 1
      <4>1. h2.mem[r + 4] = h1.mem[r + 4]
        BY <3>1, <1>1
      <4>. QED BY <4>1, <3>1, <1>1, <1>2, SameHeader
    <3>3. /\ HeapTyped(g) /\ SameTables(h2, g)
          /\ \A a \in Words : g.mem[a] = IF a = r + 4 THEN Fields(rest, 1, 1) ELSE h2.mem[a]
      <4>1. /\ HeapTyped(WithPrevFree(h2, r, 1)) /\ SameTables(h2, WithPrevFree(h2, r, 1))
            /\ \A a \in Words : WithPrevFree(h2, r, 1).mem[a] =
                 IF a = r + 4 THEN Fields(SizeOf(h2, r), 1, FreeBit(h2, r)) ELSE h2.mem[a]
        BY <3>1, <1>1, WithPrevFreeIs
      <4>. QED BY <4>1, <3>2, <2>1 DEF h2
    <3>. QED BY <3>1, <3>3 DEF SameTables
  <2>2. CASE g = LinkNext(WithPrevFree(h1, r, 1), b)
    <3>. DEFINE h2 == WithPrevFree(h1, r, 1)
    <3>1. /\ HeapTyped(h2) /\ SameTables(h1, h2)
          /\ \A a \in Words : h2.mem[a] = IF a = r + 4 THEN Fields(rest, 1, 1) ELSE h1.mem[a]
      <4>1. /\ HeapTyped(h2) /\ SameTables(h1, h2)
            /\ \A a \in Words : h2.mem[a] = IF a = r + 4 THEN Fields(SizeOf(h1, r), 1, FreeBit(h1, r))
                                            ELSE h1.mem[a]
        BY <1>1, <1>2, WithPrevFreeIs
      <4>. QED BY <4>1, <1>2
    <3>. HIDE DEF h2
    <3>2. BlockNext(h2, b) = r
      <4>1. h2.mem[b + 4] = h1.mem[b + 4]
        BY <3>1, <1>1
      <4>. QED BY <4>1, <3>1, <1>1, <1>2, SameHeader
    <3>3. /\ HeapTyped(g) /\ SameTables(h2, g)
          /\ \A a \in Words : g.mem[a] = IF a = r THEN b ELSE h2.mem[a]
      <4>1. /\ HeapTyped(LinkNext(h2, b)) /\ SameTables(h2, LinkNext(h2, b))
            /\ \A a \in Words : LinkNext(h2, b).mem[a] = IF a = r THEN b ELSE h2.mem[a]
        BY <3>1, <3>2, <1>1, LinkNextIs
      <4>. QED BY <4>1, <2>2 DEF h2
    <3>. QED BY <3>1, <3>3, <1>1 DEF SameTables
  <2>. QED BY <2>1, <2>2 DEF h1
<1>4. CutWords(h, b, s, r, n, 1, g)
  <2>1. /\ g.mem[b + 4] = Fields(s, PrevBit(h, b), FreeBit(h, b))
        /\ g.mem[r + 4] = Fields(rest, 1, 1)
        /\ g.mem[n] = r
        /\ g.mem[n + 4] = Fields(SizeOf(h, n), 1, FreeBit(h, n))
        /\ g.mem[r] = b
        /\ \A a \in Words : a # n /\ a # n + 4 /\ a # b + 4 /\ a # r + 4 /\ a # r
                              => g.mem[a] = h.mem[a]
    BY <1>1, <1>2, <1>3
  <2>. QED BY <2>1 DEF CutWords, rest
<1>5. SameTables(h, g)
  BY <1>2, <1>3 DEF SameTables
<1>6. IsCut(h, B, G, b, s, r, g)
  <2>1. n = BlockNext(h, b) /\ b \in B \ {Sentinel}
    BY <1>0 DEF n
  <2>2. HeapTyped(g) /\ 1 \in {0, 1} /\ (1 = 1 <=> b \in G)
    BY <1>3
  <2>. QED BY <2>1, <2>2, <1>5, <1>4, CutIs
<1>. QED BY <1>6

(* Splitting a block in use, as block_trim_used() does it.                 *)
LEMMA SplitUsedIs ==
  ASSUME NEW h, HeapTyped(h), NEW B, NEW G, Tiled(h, B), Flagged(h, B, G),
         NEW b \in B \ {Sentinel}, b \notin G, NEW s, Cuts(h, b, s), NEW r, r = b + 4 + s,
         NEW g, g = WithPrevFree(Split(h, b, s), r, 0)
  PROVE  /\ IsCut(h, B, G, b, s, r, g)
         /\ \A a \in Words : Inside(g, b, a) => g.mem[a] = h.mem[a]
<1>. DEFINE n == BlockNext(h, b)
            rest == SizeOf(h, b) - (s + 4)
            h1 == Split(h, b, s)
<1>1. /\ b \in Places /\ r \in Places /\ n \in Places /\ b \in Nat
      /\ r \in Nat /\ n \in Nat /\ r >= b + 16 /\ n >= r + 16 /\ r \in Words
      /\ b + 4 \in Words /\ r + 4 \in Words /\ n \in Words /\ n + 4 \in Words
  BY CutFacts
<1>2. /\ HeapTyped(h1) /\ SameTables(h, h1)
      /\ h1.mem[b + 4] = Fields(s, PrevBit(h, b), FreeBit(h, b))
      /\ SizeOf(h1, r) = rest /\ FreeBit(h1, r) = 1
      /\ h1.mem[n] = r
      /\ h1.mem[n + 4] = Fields(SizeOf(h, n), 1, FreeBit(h, n))
      /\ \A a \in Words : a # n /\ a # n + 4 /\ a # b + 4 /\ a # r + 4 => h1.mem[a] = h.mem[a]
  BY SplitWords
<1>. HIDE DEF n, rest, h1
<1>3. /\ HeapTyped(g) /\ SameTables(h1, g)
      /\ \A a \in Words : g.mem[a] = IF a = r + 4 THEN Fields(rest, 0, 1) ELSE h1.mem[a]
  <2>1. /\ HeapTyped(WithPrevFree(h1, r, 0)) /\ SameTables(h1, WithPrevFree(h1, r, 0))
        /\ \A a \in Words : WithPrevFree(h1, r, 0).mem[a] =
             IF a = r + 4 THEN Fields(SizeOf(h1, r), 0, FreeBit(h1, r)) ELSE h1.mem[a]
    BY <1>1, <1>2, WithPrevFreeIs
  <2>. QED BY <2>1, <1>2 DEF h1
<1>4. \A a \in Words : a # n /\ a # n + 4 /\ a # b + 4 /\ a # r + 4 => g.mem[a] = h.mem[a]
  BY <1>2, <1>3
<1>8. CutWords(h, b, s, r, n, 0, g)
  <2>1. r + 4 # b + 4 /\ r + 4 # n /\ r + 4 # n + 4
    BY <1>1
  <2>2. /\ g.mem[b + 4] = Fields(s, PrevBit(h, b), FreeBit(h, b))
        /\ g.mem[n] = r
        /\ g.mem[n + 4] = Fields(SizeOf(h, n), 1, FreeBit(h, n))
    BY <2>1, <1>1, <1>2, <1>3
  <2>3. g.mem[r + 4] = Fields(rest, 0, 1)
    BY <1>1, <1>3
  <2>. QED BY <2>2, <2>3, <1>4 DEF CutWords, rest
<1>5. SameTables(h, g)
  BY <1>2, <1>3 DEF SameTables
<1>6. IsCut(h, B, G, b, s, r, g)
  <2>1. n = BlockNext(h, b) /\ b \in B \ {Sentinel}
    BY DEF n
  <2>2. HeapTyped(g) /\ 0 \in {0, 1} /\ (0 = 1 <=> b \in G)
    BY <1>3
  <2>. QED BY <2>1, <2>2, <1>5, <1>8, CutIs
<1>7. ASSUME NEW a \in Words, Inside(g, b, a)
      PROVE  g.mem[a] = h.mem[a]
  <2>1. a \in Nat /\ b + 8 <= a /\ a <= r
    BY <1>6, <1>7, WordsAre DEF Inside, IsCut
  <2>. QED BY <2>1, <1>1, <1>4
<1>. QED BY <1>6, <1>7

-----------------------------------------------------------------------------
(* The free lists hold the blocks F, each in the list of its size.         *)

Pairs == [fl : Fls, sl : Sls]
Idx(h, b) == MappingInsert(SizeOf(h, b))
Head(h, i) == h.head[i.fl][i.sl]

Chained(h, F) ==
  \A b \in F :
    /\ h.mem[b + 8] # Null =>
         /\ h.mem[b + 8] \in F /\ Idx(h, h.mem[b + 8]) = Idx(h, b)
         /\ h.mem[h.mem[b + 8] + 12] = b
    /\ h.mem[b + 12] # Null =>
         /\ h.mem[b + 12] \in F /\ Idx(h, h.mem[b + 12]) = Idx(h, b)
         /\ h.mem[h.mem[b + 12] + 8] = b
    /\ h.mem[b + 12] = Null => Head(h, Idx(h, b)) = b

Headed(h, F) ==
  \A i \in Pairs :
    /\ Head(h, i) # Null =>
         Head(h, i) \in F /\ Idx(h, Head(h, i)) = i /\ h.mem[Head(h, i) + 12] = Null
    /\ i.sl \in h.sl[i.fl] <=> Head(h, i) # Null

Mapped(h) == \A f \in Fls : f \in h.fl <=> h.sl[f] # {}

(* The links lead on: something grows along a list.                        *)
Ranked(h, F) ==
  \E rank \in [F -> Nat] :
    \A b \in F : h.mem[b + 12] # Null => rank[h.mem[b + 12]] < rank[b]

Linked(h, F) == Chained(h, F) /\ Headed(h, F) /\ Mapped(h) /\ Ranked(h, F)

(* The blocks of F have room for links of their own, and lists for them.   *)
Roomy(h, F) ==
  /\ \A b \in F : /\ b \in Places /\ b # Null /\ b + 8 \in Words /\ b + 12 \in Words
                  /\ Idx(h, b) \in Pairs
  /\ \A b, c \in F : b = c \/ b >= c + 16 \/ c >= b + 16

(* Only links of the blocks of F are written.                              *)
OnlyLinks(h, g, F) ==
  \A a \in Words : (\A c \in F : a # c + 8 /\ a # c + 12) => g.mem[a] = h.mem[a]

(* Indices are the same when their parts are.                              *)
LEMMA SamePair ==
  ASSUME NEW i \in Pairs, NEW j \in Pairs, i.fl = j.fl, i.sl = j.sl
  PROVE  i = j
BY DEF Pairs

(* Links of different blocks are different words.                          *)
LEMMA Apart ==
  ASSUME NEW h, NEW F, Roomy(h, F), NEW b \in F, NEW c \in F
  PROVE  /\ b \in Nat /\ c \in Nat /\ b + 8 # c + 12
         /\ b + 8 = c + 8 => b = c
         /\ b + 12 = c + 12 => b = c
<1>1. b \in Nat /\ c \in Nat
  BY PlacesAre DEF Roomy
<1>2. b = c \/ b >= c + 16 \/ c >= b + 16
  BY DEF Roomy
<1>. QED BY <1>1, <1>2

(* remove_free_block()                                                     *)
LEMMA RemoveWords ==
  ASSUME NEW h, HeapTyped(h), NEW F, Roomy(h, F), Linked(h, F), NEW b \in F,
         NEW g, g = BlockRemove(h, b), NEW next, next = h.mem[b + 8],
         NEW prev, prev = h.mem[b + 12], NEW i, i = Idx(h, b)
  PROVE  /\ HeapTyped(g) /\ OnlyLinks(h, g, F)
         /\ \A c \in F : /\ g.mem[c + 8] = IF c = prev THEN next ELSE h.mem[c + 8]
                         /\ g.mem[c + 12] = IF c = next THEN prev ELSE h.mem[c + 12]
         /\ \A j \in Pairs : /\ Head(g, j) = IF j = i /\ Head(h, i) = b THEN next ELSE Head(h, j)
                             /\ j.sl \in g.sl[j.fl] <=>
                                  /\ j.sl \in h.sl[j.fl]
                                  /\ ~(j = i /\ Head(h, i) = b /\ next = Null)
         /\ \A f \in Fls : f \in g.fl <=>
              f \in h.fl /\ ~(f = i.fl /\ Head(h, i) = b /\ next = Null /\ h.sl[i.fl] = {i.sl})
<1>. DEFINE h1 == IF next = Null THEN h ELSE Put(h, next + 12, prev)
            u == IF prev = Null THEN h1 ELSE Put(h1, prev + 8, next)
<1>1. /\ b + 8 \in Words /\ b + 12 \in Words /\ i \in Pairs /\ Null \notin F
      /\ next \in Nat /\ prev \in Nat
  BY DEF Roomy, HeapTyped
<1>2. /\ next # Null => next \in F /\ next + 12 \in Words
      /\ prev # Null => prev \in F /\ prev + 8 \in Words
  BY DEF Linked, Chained, Roomy
<1>3. /\ HeapTyped(h1) /\ SameTables(h, h1)
      /\ \A a \in Words : h1.mem[a] = IF next # Null /\ a = next + 12 THEN prev ELSE h.mem[a]
  <2>1. CASE next = Null
    BY <2>1 DEF h1, SameTables
  <2>2. CASE next # Null
    <3>1. next + 12 \in Words /\ prev \in Nat
      BY <1>1, <1>2, <2>2
    <3>2. IsPut(h, next + 12, prev, Put(h, next + 12, prev))
      BY <3>1, IsPutIs
    <3>. QED BY <2>2, <3>2 DEF h1, IsPut
  <2>. QED BY <2>1, <2>2
<1>. HIDE DEF h1
<1>4. /\ HeapTyped(u) /\ SameTables(h1, u)
      /\ \A a \in Words : u.mem[a] = IF prev # Null /\ a = prev + 8 THEN next ELSE h1.mem[a]
  <2>1. CASE prev = Null
    BY <2>1, <1>3 DEF u, SameTables
  <2>2. CASE prev # Null
    <3>1. prev + 8 \in Words /\ next \in Nat /\ HeapTyped(h1)
      BY <1>1, <1>2, <1>3, <2>2
    <3>2. IsPut(h1, prev + 8, next, Put(h1, prev + 8, next))
      BY <3>1, IsPutIs
    <3>. QED BY <2>2, <3>2 DEF u, IsPut
  <2>. QED BY <2>1, <2>2
<1>5. Unlinked(h, b) = u
  <2>1. Word(h, b + 8) = next /\ Word(h, b + 12) = prev
    BY <1>1 DEF Word, HeapTyped
  <2>. QED BY <2>1 DEF Unlinked, u, h1
<1>. HIDE DEF u
<1>6. g = IF Head(h, i) # b THEN u
          ELSE [u EXCEPT !.head[i.fl][i.sl] = next,
                         !.sl[i.fl] = IF next = Null THEN @ \ {i.sl} ELSE @,
                         !.fl = IF next = Null /\ h.sl[i.fl] = {i.sl} THEN @ \ {i.fl} ELSE @]
  <2>1. Word(h, b + 8) = next
    BY <1>1 DEF Word, HeapTyped
  <2>. QED BY <2>1, <1>5 DEF BlockRemove, RemoveFreeBlock, Idx, Head
<1>7. /\ u.fl = h.fl /\ u.sl = h.sl /\ u.head = h.head
      /\ u \in [mem : [Words -> Nat], fl : SUBSET Fls, sl : [Fls -> SUBSET Sls],
                head : [Fls -> [Sls -> Places \cup {Null}]]]
  BY <1>3, <1>4 DEF SameTables, HeapTyped
<1>8. i.fl \in Fls /\ i.sl \in Sls /\ next \in Places \cup {Null}
  BY <1>1, <1>2 DEF Pairs, Roomy
<1>9. /\ g.mem = u.mem
      /\ g.head = IF Head(h, i) # b THEN h.head ELSE [h.head EXCEPT ![i.fl][i.sl] = next]
      /\ g.sl = IF Head(h, i) # b \/ next # Null THEN h.sl
                ELSE [h.sl EXCEPT ![i.fl] = h.sl[i.fl] \ {i.sl}]
      /\ g.fl = IF Head(h, i) = b /\ next = Null /\ h.sl[i.fl] = {i.sl} THEN h.fl \ {i.fl}
                ELSE h.fl
  <2>. DEFINE v == [u EXCEPT !.head[i.fl][i.sl] = next,
                         !.sl[i.fl] = IF next = Null THEN @ \ {i.sl} ELSE @,
                         !.fl = IF next = Null /\ h.sl[i.fl] = {i.sl} THEN @ \ {i.fl} ELSE @]
  <2>1. /\ v.mem = u.mem
        /\ v.head = [u.head EXCEPT ![i.fl][i.sl] = next]
        /\ v.sl = [u.sl EXCEPT ![i.fl] = IF next = Null THEN @ \ {i.sl} ELSE @]
        /\ v.fl = IF next = Null /\ h.sl[i.fl] = {i.sl} THEN u.fl \ {i.fl} ELSE u.fl
    BY <1>7
  <2>2. next # Null => v.sl = u.sl
    BY <2>1, <1>7, <1>8
  <2>. HIDE DEF v
  <2>3. g = IF Head(h, i) # b THEN u ELSE v
    BY <1>6 DEF v
  <2>4. CASE Head(h, i) # b
    BY <2>3, <2>4, <1>7
  <2>5. CASE Head(h, i) = b
    <3>1. g = v
      BY <2>3, <2>5
    <3>2. CASE next = Null
      BY <3>1, <3>2, <2>1, <2>5, <1>7
    <3>3. CASE next # Null
      BY <3>1, <3>3, <2>1, <2>2, <2>5, <1>7
    <3>. QED BY <3>2, <3>3
  <2>. QED BY <2>4, <2>5
<1>10. HeapTyped(g)
  <2>1. /\ g = [u EXCEPT !.head = g.head, !.sl = g.sl, !.fl = g.fl]
    BY <1>6, <1>7
  <2>2. g.head \in [Fls -> [Sls -> Places \cup {Null}]]
    BY <1>7, <1>8, <1>9
  <2>3. g.sl \in [Fls -> SUBSET Sls]
    BY <1>7, <1>8, <1>9
  <2>4. g.fl \subseteq Fls
    BY <1>7, <1>9
  <2>. QED BY <2>1, <2>2, <2>3, <2>4, <1>7 DEF HeapTyped
<1>11. \A j \in Pairs : j.fl = i.fl /\ j.sl = i.sl => j = i
  BY <1>1, SamePair
<1>12. \A j \in Pairs :
         /\ Head(g, j) = IF j = i /\ Head(h, i) = b THEN next ELSE Head(h, j)
         /\ j.sl \in g.sl[j.fl] <=>
              j.sl \in h.sl[j.fl] /\ ~(j = i /\ Head(h, i) = b /\ next = Null)
  <2>. TAKE j \in Pairs
  <2>1. /\ j.fl \in Fls /\ j.sl \in Sls
        /\ h.head \in [Fls -> [Sls -> Places \cup {Null}]] /\ h.sl \in [Fls -> SUBSET Sls]
    BY DEF Pairs, HeapTyped
  <2>2. Head(g, j) = IF j = i /\ Head(h, i) = b THEN next ELSE Head(h, j)
    BY <2>1, <1>8, <1>9, <1>11 DEF Head
  <2>3. j.sl \in g.sl[j.fl] <=>
          j.sl \in h.sl[j.fl] /\ ~(j = i /\ Head(h, i) = b /\ next = Null)
    BY <2>1, <1>8, <1>9, <1>11
  <2>. QED BY <2>2, <2>3
<1>13. \A f \in Fls : f \in g.fl <=>
          f \in h.fl /\ ~(f = i.fl /\ Head(h, i) = b /\ next = Null /\ h.sl[i.fl] = {i.sl})
  BY <1>9
<1>14. \A a \in Words : g.mem[a] = IF prev # Null /\ a = prev + 8 THEN next
                                   ELSE IF next # Null /\ a = next + 12 THEN prev ELSE h.mem[a]
  BY <1>3, <1>4, <1>9
<1>15. OnlyLinks(h, g, F)
  BY <1>2, <1>14 DEF OnlyLinks
<1>16. ASSUME NEW c \in F
       PROVE  /\ g.mem[c + 8] = IF c = prev THEN next ELSE h.mem[c + 8]
              /\ g.mem[c + 12] = IF c = next THEN prev ELSE h.mem[c + 12]
  <2>1. c + 8 \in Words /\ c + 12 \in Words /\ c # Null
    BY DEF Roomy
  <2>2. prev # Null => c + 12 # prev + 8 /\ (c + 8 = prev + 8 <=> c = prev)
    BY <1>2, Apart
  <2>3. next # Null => c + 8 # next + 12 /\ (c + 12 = next + 12 <=> c = next)
    BY <1>2, Apart
  <2>. QED BY <2>1, <2>2, <2>3, <1>14
<1>. QED BY <1>10, <1>12, <1>13, <1>15, <1>16

(* The sizes, and with them the lists, do not depend on the links.         *)
LEMMA LinksKeepLists ==
  ASSUME NEW h, HeapTyped(h), NEW g, HeapTyped(g), NEW F, Roomy(h, F), OnlyLinks(h, g, F),
         NEW c \in F
  PROVE  SizeOf(g, c) = SizeOf(h, c) /\ Idx(g, c) = Idx(h, c)
<1>1. c \in Places /\ c + 4 \in Words
  BY HeaderIs DEF Roomy
<1>2. ASSUME NEW d \in F
      PROVE  c + 4 # d + 8 /\ c + 4 # d + 12
  <2>1. c \in Nat /\ d \in Nat
    BY Apart
  <2>2. c = d \/ c >= d + 16 \/ d >= c + 16
    BY DEF Roomy
  <2>. QED BY <2>1, <2>2
<1>3. g.mem[c + 4] = h.mem[c + 4]
  BY <1>1, <1>2 DEF OnlyLinks
<1>4. SizeOf(g, c) = SizeOf(h, c)
  BY <1>1, <1>3, SameHeader
<1>. QED BY <1>4 DEF Idx

(* A block leaves its list. *)
LEMMA RemoveIs ==
  ASSUME NEW h, HeapTyped(h), NEW F, Roomy(h, F), Linked(h, F), NEW b \in F,
         NEW g, g = BlockRemove(h, b)
  PROVE  HeapTyped(g) /\ OnlyLinks(h, g, F) /\ Linked(g, F \ {b})
<1>. DEFINE next == h.mem[b + 8]
            prev == h.mem[b + 12]
            i == Idx(h, b)
            D == F \ {b}
<1>1. /\ HeapTyped(g) /\ OnlyLinks(h, g, F)
      /\ \A c \in F : /\ g.mem[c + 8] = IF c = prev THEN next ELSE h.mem[c + 8]
                      /\ g.mem[c + 12] = IF c = next THEN prev ELSE h.mem[c + 12]
      /\ \A j \in Pairs : /\ Head(g, j) = IF j = i /\ Head(h, i) = b THEN next ELSE Head(h, j)
                          /\ j.sl \in g.sl[j.fl] <=>
                               /\ j.sl \in h.sl[j.fl]
                               /\ ~(j = i /\ Head(h, i) = b /\ next = Null)
      /\ \A f \in Fls : f \in g.fl <=>
           f \in h.fl /\ ~(f = i.fl /\ Head(h, i) = b /\ next = Null /\ h.sl[i.fl] = {i.sl})
  BY RemoveWords
<1>2. \A c \in F : Idx(g, c) = Idx(h, c) /\ c # Null /\ Idx(h, c) \in Pairs
  BY <1>1, LinksKeepLists DEF Roomy
<1>3. /\ \A c \in F :
           /\ h.mem[c + 8] # Null =>
                /\ h.mem[c + 8] \in F /\ Idx(h, h.mem[c + 8]) = Idx(h, c)
                /\ h.mem[h.mem[c + 8] + 12] = c
           /\ h.mem[c + 12] # Null =>
                /\ h.mem[c + 12] \in F /\ Idx(h, h.mem[c + 12]) = Idx(h, c)
                /\ h.mem[h.mem[c + 12] + 8] = c
           /\ h.mem[c + 12] = Null => Head(h, Idx(h, c)) = c
      /\ \A j \in Pairs :
           /\ Head(h, j) # Null =>
                Head(h, j) \in F /\ Idx(h, Head(h, j)) = j /\ h.mem[Head(h, j) + 12] = Null
           /\ j.sl \in h.sl[j.fl] <=> Head(h, j) # Null
  BY DEF Linked, Chained, Headed
<1>4. PICK rank \in [F -> Nat] :
        \A c \in F : h.mem[c + 12] # Null => rank[h.mem[c + 12]] < rank[c]
  BY DEF Linked, Ranked
<1>5. /\ next # Null => next \in D /\ Idx(h, next) = i /\ h.mem[next + 12] = b
      /\ prev # Null => prev \in D /\ Idx(h, prev) = i /\ h.mem[prev + 8] = b
      /\ prev = Null <=> Head(h, i) = b
      /\ i \in Pairs /\ b # Null
  <2>1. prev # Null => prev \in F /\ rank[prev] < rank[b] /\ rank[b] \in Nat
    BY <1>3, <1>4
  <2>2. prev # b
    BY <1>2, <2>1
  <2>3. next # b
    BY <1>2, <1>3, <2>2
  <2>. QED BY <1>2, <1>3, <2>2, <2>3
<1>. HIDE DEF next, prev, i
<1>6. Chained(g, D)
  <2>. SUFFICES ASSUME NEW c \in D
                PROVE  /\ g.mem[c + 8] # Null =>
                            /\ g.mem[c + 8] \in D /\ Idx(h, g.mem[c + 8]) = Idx(h, c)
                            /\ g.mem[g.mem[c + 8] + 12] = c
                       /\ g.mem[c + 12] # Null =>
                            /\ g.mem[c + 12] \in D /\ Idx(h, g.mem[c + 12]) = Idx(h, c)
                            /\ g.mem[g.mem[c + 12] + 8] = c
                       /\ g.mem[c + 12] = Null => Head(g, Idx(h, c)) = c
    BY <1>2 DEF Chained
  <2>1. /\ c \in F /\ c # b
        /\ b \in F /\ next = h.mem[b + 8] /\ prev = h.mem[b + 12] /\ i = Idx(h, b)
    BY DEF next, prev, i
  <2>2. c # Null
    BY <1>2, <2>1
  <2>4. g.mem[c + 8] # Null =>
          /\ g.mem[c + 8] \in D /\ Idx(h, g.mem[c + 8]) = Idx(h, c)
          /\ g.mem[g.mem[c + 8] + 12] = c
    <3>1. CASE c = prev
      <4>1. g.mem[c + 8] = next
        BY <1>1, <2>1, <3>1
      <4>2. Idx(h, c) = i
        BY <1>5, <2>2, <3>1
      <4>3. next # Null => next \in F /\ next \in D /\ Idx(h, next) = i
        BY <1>5
      <4>4. next # Null => g.mem[next + 12] = prev
        BY <1>1, <4>3
      <4>. QED BY <4>1, <4>2, <4>3, <4>4, <3>1
    <3>2. CASE c # prev
      <4>. DEFINE n == h.mem[c + 8]
      <4>1. g.mem[c + 8] = n
        BY <1>1, <2>1, <3>2
      <4>2. n # Null => n \in F /\ Idx(h, n) = Idx(h, c) /\ h.mem[n + 12] = c
        BY <1>3, <2>1
      <4>. HIDE DEF n
      <4>3. n # Null => n # b /\ n # next
        BY <4>2, <1>5, <2>1, <3>2
      <4>4. n # Null => g.mem[n + 12] = c
        BY <4>2, <4>3, <1>1
      <4>. QED BY <4>1, <4>2, <4>3, <4>4
    <3>. QED BY <3>1, <3>2
  <2>5. /\ g.mem[c + 12] # Null =>
             /\ g.mem[c + 12] \in D /\ Idx(h, g.mem[c + 12]) = Idx(h, c)
             /\ g.mem[g.mem[c + 12] + 8] = c
        /\ g.mem[c + 12] = Null => Head(g, Idx(h, c)) = c
    <3>1. CASE c = next
      <4>1. g.mem[c + 12] = prev
        BY <1>1, <2>1, <3>1
      <4>2. Idx(h, c) = i
        BY <1>5, <2>2, <3>1
      <4>3. prev # Null => prev \in F /\ prev \in D /\ Idx(h, prev) = i
        BY <1>5
      <4>4. prev # Null => g.mem[prev + 8] = next
        BY <1>1, <4>3
      <4>5. prev = Null => Head(g, i) = next
        BY <1>1, <1>5
      <4>. QED BY <4>1, <4>2, <4>3, <4>4, <4>5, <3>1
    <3>2. CASE c # next
      <4>. DEFINE p == h.mem[c + 12]
      <4>1. g.mem[c + 12] = p
        BY <1>1, <2>1, <3>2
      <4>2. /\ p # Null => p \in F /\ Idx(h, p) = Idx(h, c) /\ h.mem[p + 8] = c
            /\ p = Null => Head(h, Idx(h, c)) = c
        BY <1>3, <2>1
      <4>. HIDE DEF p
      <4>3. p # Null => p \in D /\ g.mem[p + 8] = c
        BY <4>2, <1>1, <1>5, <2>1, <3>2
      <4>4. p = Null => Head(g, Idx(h, c)) = c
        BY <4>2, <1>1, <1>2, <2>1
      <4>. QED BY <4>1, <4>2, <4>3, <4>4
    <3>. QED BY <3>1, <3>2
  <2>. QED BY <2>4, <2>5
<1>7. Headed(g, D)
  <2>. SUFFICES ASSUME NEW j \in Pairs
                PROVE  /\ Head(g, j) # Null =>
                            /\ Head(g, j) \in D /\ Idx(h, Head(g, j)) = j
                            /\ g.mem[Head(g, j) + 12] = Null
                       /\ j.sl \in g.sl[j.fl] <=> Head(g, j) # Null
    BY <1>2 DEF Headed
  <2>1. CASE j = i /\ Head(h, i) = b
    <3>1. Head(g, j) = next
      BY <1>1, <2>1
    <3>2. next # Null => g.mem[next + 12] = Null
      BY <1>1, <1>5, <2>1
    <3>3. j.sl \in g.sl[j.fl] <=> next # Null
      BY <1>1, <1>3, <1>5, <2>1
    <3>. QED BY <3>1, <3>2, <3>3, <1>5, <2>1
  <2>2. CASE ~(j = i /\ Head(h, i) = b)
    <3>. DEFINE x == Head(h, j)
    <3>1. Head(g, j) = x
      BY <1>1, <2>2
    <3>2. x # Null => x \in F /\ Idx(h, x) = j /\ h.mem[x + 12] = Null
      BY <1>3
    <3>3. x # b
      BY <1>5, <2>2, <3>2 DEF i
    <3>4. j.sl \in g.sl[j.fl] <=> x # Null
      BY <1>1, <1>3, <2>2
    <3>. HIDE DEF x
    <3>5. x # Null => x # next
      BY <1>5, <3>2
    <3>6. x # Null => g.mem[x + 12] = Null
      BY <1>1, <3>2, <3>5
    <3>. QED BY <3>1, <3>2, <3>3, <3>4, <3>6
  <2>. QED BY <2>1, <2>2
<1>8. Mapped(g)
  <2>. SUFFICES ASSUME NEW f \in Fls
                PROVE  f \in g.fl <=> g.sl[f] # {}
    BY DEF Mapped
  <2>1. \A t \in Sls : t \in g.sl[f] <=>
          t \in h.sl[f] /\ ~(f = i.fl /\ t = i.sl /\ Head(h, i) = b /\ next = Null)
    <3>. TAKE t \in Sls
    <3>. DEFINE j == [fl |-> f, sl |-> t]
    <3>1. j \in Pairs /\ j.fl = f /\ j.sl = t
      BY DEF Pairs
    <3>2. j = i <=> f = i.fl /\ t = i.sl
      BY <3>1, <1>5, SamePair
    <3>. HIDE DEF j
    <3>. QED BY <3>1, <3>2, <1>1
  <2>2. h.sl[f] \subseteq Sls /\ g.sl[f] \subseteq Sls
    BY <1>1 DEF HeapTyped
  <2>3. f \in h.fl <=> h.sl[f] # {}
    BY DEF Linked, Mapped
  <2>4. f \in g.fl <=>
          f \in h.fl /\ ~(f = i.fl /\ Head(h, i) = b /\ next = Null /\ h.sl[i.fl] = {i.sl})
    BY <1>1
  <2>5. Head(h, i) = b => i.sl \in h.sl[i.fl]
    BY <1>3, <1>5
  <2>6. CASE f = i.fl /\ Head(h, i) = b /\ next = Null
    BY <2>1, <2>2, <2>3, <2>4, <2>5, <2>6
  <2>7. CASE ~(f = i.fl /\ Head(h, i) = b /\ next = Null)
    BY <2>1, <2>2, <2>3, <2>4, <2>7
  <2>. QED BY <2>6, <2>7
<1>9. Ranked(g, D)
  <2>. DEFINE r == [c \in D |-> rank[c]]
  <2>1. r \in [D -> Nat]
    OBVIOUS
  <2>2. ASSUME NEW c \in D, g.mem[c + 12] # Null
        PROVE  r[g.mem[c + 12]] < r[c]
    <3>1. g.mem[c + 12] \in D
      BY <1>6, <2>2 DEF Chained
    <3>2. CASE c = next
      <4>1. /\ g.mem[c + 12] = prev /\ prev # Null /\ next # Null
        BY <1>1, <1>2, <2>2, <3>2
      <4>2. rank[prev] < rank[b]
        BY <1>4, <4>1 DEF prev
      <4>3. rank[b] < rank[next]
        BY <1>2, <1>4, <1>5, <4>1
      <4>4. rank[prev] \in Nat /\ rank[b] \in Nat /\ rank[next] \in Nat
        BY <1>4, <1>5, <4>1
      <4>. QED BY <3>1, <3>2, <4>1, <4>2, <4>3, <4>4
    <3>3. CASE c # next
      <4>1. g.mem[c + 12] = h.mem[c + 12]
        BY <1>1, <3>3
      <4>. QED BY <4>1, <3>1, <2>2, <1>4
    <3>. QED BY <3>2, <3>3
  <2>. QED BY <2>1, <2>2 DEF Ranked
<1>. QED BY <1>1, <1>6, <1>7, <1>8, <1>9 DEF Linked, D

(* insert_free_block() *)
LEMMA InsertWords ==
  ASSUME NEW h, HeapTyped(h), NEW F, NEW b, b \notin F, Roomy(h, F \cup {b}), Linked(h, F),
         NEW g, g = BlockInsert(h, b), NEW i, i = Idx(h, b), NEW cur, cur = Head(h, i)
  PROVE  /\ HeapTyped(g) /\ OnlyLinks(h, g, F \cup {b})
         /\ g.mem[b + 8] = cur /\ g.mem[b + 12] = Null
         /\ \A c \in F : /\ g.mem[c + 8] = h.mem[c + 8]
                         /\ g.mem[c + 12] = IF c = cur THEN b ELSE h.mem[c + 12]
         /\ \A j \in Pairs : /\ Head(g, j) = IF j = i THEN b ELSE Head(h, j)
                             /\ j.sl \in g.sl[j.fl] <=> j = i \/ j.sl \in h.sl[j.fl]
         /\ \A f \in Fls : f \in g.fl <=> f = i.fl \/ f \in h.fl
<1>. DEFINE h0 == Put(h, b + 8, cur)
            h1 == Put(h0, b + 12, Null)
            h2 == IF cur = Null THEN h1 ELSE Put(h1, cur + 12, b)
            D == F \cup {b}
<1>1. /\ b + 8 \in Words /\ b + 12 \in Words /\ i \in Pairs /\ Null \notin D
      /\ b \in Places /\ b \in Nat
  BY PlacesAre DEF Roomy
<1>2. cur # Null => cur \in F /\ cur # b /\ cur + 12 \in Words
  BY <1>1 DEF Linked, Headed, Roomy
<1>3. i.fl \in Fls /\ i.sl \in Sls
  BY <1>1 DEF Pairs
<1>4. cur \in Places \cup {Null} /\ cur \in Nat /\ Null \in Nat
  BY <1>3, PlacesAre DEF Head, HeapTyped, Null
<1>5. IsPut(h, b + 8, cur, h0)
  BY <1>1, <1>4, IsPutIs
<1>6. IsPut(h0, b + 12, Null, h1)
  <2>1. HeapTyped(h0) /\ b + 12 \in Words /\ Null \in Nat
    BY <1>1, <1>4, <1>5 DEF IsPut
  <2>. HIDE DEF h0
  <2>. QED BY <2>1, IsPutIs
<1>. HIDE DEF h0, h1
<1>7. /\ HeapTyped(h2) /\ SameTables(h1, h2)
      /\ \A a \in Words : h2.mem[a] = IF cur # Null /\ a = cur + 12 THEN b ELSE h1.mem[a]
  <2>1. CASE cur = Null
    BY <2>1, <1>6 DEF h2, SameTables, IsPut
  <2>2. CASE cur # Null
    <3>1. HeapTyped(h1) /\ cur + 12 \in Words /\ b \in Nat
      BY <1>1, <1>2, <1>6, <2>2 DEF IsPut
    <3>2. IsPut(h1, cur + 12, b, Put(h1, cur + 12, b))
      BY <3>1, IsPutIs
    <3>. QED BY <2>2, <3>2 DEF h2, IsPut
  <2>. QED BY <2>1, <2>2
<1>8. g = [h2 EXCEPT !.head[i.fl][i.sl] = b, !.fl = @ \cup {i.fl}, !.sl[i.fl] = @ \cup {i.sl}]
  BY DEF BlockInsert, InsertFreeBlock, Idx, Head, h0, h1, h2
<1>. HIDE DEF h2
<1>9. /\ h2.fl = h.fl /\ h2.sl = h.sl /\ h2.head = h.head
      /\ h2 \in [mem : [Words -> Nat], fl : SUBSET Fls, sl : [Fls -> SUBSET Sls],
                 head : [Fls -> [Sls -> Places \cup {Null}]]]
  BY <1>5, <1>6, <1>7 DEF SameTables, HeapTyped, IsPut
<1>10. /\ g.mem = h2.mem
       /\ g.head = [h.head EXCEPT ![i.fl][i.sl] = b]
       /\ g.sl = [h.sl EXCEPT ![i.fl] = @ \cup {i.sl}]
       /\ g.fl = h.fl \cup {i.fl}
  BY <1>8, <1>9
<1>11. HeapTyped(g)
  <2>1. g = [h2 EXCEPT !.head = g.head, !.sl = g.sl, !.fl = g.fl]
    BY <1>8, <1>9
  <2>2. g.head \in [Fls -> [Sls -> Places \cup {Null}]]
    BY <1>1, <1>3, <1>9, <1>10
  <2>3. g.sl \in [Fls -> SUBSET Sls]
    BY <1>3, <1>9, <1>10
  <2>4. g.fl \subseteq Fls
    BY <1>3, <1>9, <1>10
  <2>. QED BY <2>1, <2>2, <2>3, <2>4, <1>9 DEF HeapTyped
<1>12. \A j \in Pairs : j.fl = i.fl /\ j.sl = i.sl => j = i
  BY <1>1, SamePair
<1>13. \A j \in Pairs :
         /\ Head(g, j) = IF j = i THEN b ELSE Head(h, j)
         /\ j.sl \in g.sl[j.fl] <=> j = i \/ j.sl \in h.sl[j.fl]
  <2>. TAKE j \in Pairs
  <2>1. /\ j.fl \in Fls /\ j.sl \in Sls
        /\ h.head \in [Fls -> [Sls -> Places \cup {Null}]] /\ h.sl \in [Fls -> SUBSET Sls]
    BY DEF Pairs, HeapTyped
  <2>2. Head(g, j) = IF j = i THEN b ELSE Head(h, j)
    BY <2>1, <1>3, <1>10, <1>12 DEF Head
  <2>3. j.sl \in g.sl[j.fl] <=> j = i \/ j.sl \in h.sl[j.fl]
    BY <2>1, <1>3, <1>10, <1>12
  <2>. QED BY <2>2, <2>3
<1>14. \A a \in Words : g.mem[a] = IF cur # Null /\ a = cur + 12 THEN b
                                   ELSE IF a = b + 12 THEN Null
                                   ELSE IF a = b + 8 THEN cur ELSE h.mem[a]
  BY <1>5, <1>6, <1>7, <1>10 DEF IsPut
<1>15. OnlyLinks(h, g, D)
  BY <1>2, <1>14 DEF OnlyLinks
<1>16. /\ b + 8 # b + 12
       /\ cur # Null => b + 8 # cur + 12 /\ b + 12 # cur + 12
  BY <1>1, <1>2, Apart
<1>17. g.mem[b + 8] = cur /\ g.mem[b + 12] = Null
  BY <1>1, <1>14, <1>16
<1>18. ASSUME NEW c \in F
       PROVE  /\ g.mem[c + 8] = h.mem[c + 8]
              /\ g.mem[c + 12] = IF c = cur THEN b ELSE h.mem[c + 12]
  <2>1. c + 8 \in Words /\ c + 12 \in Words /\ c # Null /\ c # b
    BY DEF Roomy
  <2>2. c + 8 # b + 12 /\ c + 8 # b + 8 /\ c + 12 # b + 12 /\ c + 12 # b + 8
    BY <2>1, Apart
  <2>3. cur # Null => c + 8 # cur + 12 /\ (c + 12 = cur + 12 <=> c = cur)
    BY <1>2, Apart
  <2>. QED BY <2>1, <2>2, <2>3, <1>14
<1>19. \A f \in Fls : f \in g.fl <=> f = i.fl \/ f \in h.fl
  BY <1>10
<1>. QED BY <1>11, <1>13, <1>15, <1>17, <1>18, <1>19

(* A block goes to the head of its list. *)
LEMMA InsertIs ==
  ASSUME NEW h, HeapTyped(h), NEW F, NEW b, b \notin F, Roomy(h, F \cup {b}), Linked(h, F),
         NEW g, g = BlockInsert(h, b)
  PROVE  HeapTyped(g) /\ OnlyLinks(h, g, F \cup {b}) /\ Linked(g, F \cup {b})
<1>. DEFINE i == Idx(h, b)
            cur == Head(h, i)
            D == F \cup {b}
<1>1. /\ HeapTyped(g) /\ OnlyLinks(h, g, D)
      /\ g.mem[b + 8] = cur /\ g.mem[b + 12] = Null
      /\ \A c \in F : /\ g.mem[c + 8] = h.mem[c + 8]
                      /\ g.mem[c + 12] = IF c = cur THEN b ELSE h.mem[c + 12]
      /\ \A j \in Pairs : /\ Head(g, j) = IF j = i THEN b ELSE Head(h, j)
                          /\ j.sl \in g.sl[j.fl] <=> j = i \/ j.sl \in h.sl[j.fl]
      /\ \A f \in Fls : f \in g.fl <=> f = i.fl \/ f \in h.fl
  BY InsertWords
<1>2. \A c \in D : Idx(g, c) = Idx(h, c) /\ c # Null /\ Idx(h, c) \in Pairs
  BY <1>1, LinksKeepLists DEF Roomy
<1>3. /\ \A c \in F :
           /\ h.mem[c + 8] # Null =>
                /\ h.mem[c + 8] \in F /\ Idx(h, h.mem[c + 8]) = Idx(h, c)
                /\ h.mem[h.mem[c + 8] + 12] = c
           /\ h.mem[c + 12] # Null =>
                /\ h.mem[c + 12] \in F /\ Idx(h, h.mem[c + 12]) = Idx(h, c)
                /\ h.mem[h.mem[c + 12] + 8] = c
           /\ h.mem[c + 12] = Null => Head(h, Idx(h, c)) = c
      /\ \A j \in Pairs :
           /\ Head(h, j) # Null =>
                Head(h, j) \in F /\ Idx(h, Head(h, j)) = j /\ h.mem[Head(h, j) + 12] = Null
           /\ j.sl \in h.sl[j.fl] <=> Head(h, j) # Null
  BY DEF Linked, Chained, Headed
<1>4. PICK rank \in [F -> Nat] :
        \A c \in F : h.mem[c + 12] # Null => rank[h.mem[c + 12]] < rank[c]
  BY DEF Linked, Ranked
<1>5. /\ i \in Pairs /\ b # Null
      /\ cur # Null => cur \in F /\ Idx(h, cur) = i /\ h.mem[cur + 12] = Null
  BY <1>2, <1>3
<1>. HIDE DEF i, cur
<1>6. Chained(g, D)
  <2>. SUFFICES ASSUME NEW c \in D
                PROVE  /\ g.mem[c + 8] # Null =>
                            /\ g.mem[c + 8] \in D /\ Idx(h, g.mem[c + 8]) = Idx(h, c)
                            /\ g.mem[g.mem[c + 8] + 12] = c
                       /\ g.mem[c + 12] # Null =>
                            /\ g.mem[c + 12] \in D /\ Idx(h, g.mem[c + 12]) = Idx(h, c)
                            /\ g.mem[g.mem[c + 12] + 8] = c
                       /\ g.mem[c + 12] = Null => Head(g, Idx(h, c)) = c
    BY <1>2 DEF Chained
  <2>1. CASE c = b
    <3>1. g.mem[c + 8] = cur /\ g.mem[c + 12] = Null /\ Idx(h, c) = i
      BY <1>1, <2>1 DEF i
    <3>2. cur # Null => g.mem[cur + 12] = b
      BY <1>1, <1>5
    <3>3. Head(g, i) = b
      BY <1>1, <1>5
    <3>. QED BY <3>1, <3>2, <3>3, <1>5, <2>1
  <2>2. CASE c # b
    <3>0. c \in F /\ c # Null
      BY <2>2, <1>2
    <3>. DEFINE n == h.mem[c + 8]
                p == h.mem[c + 12]
    <3>1. g.mem[c + 8] = n
      BY <1>1, <3>0
    <3>2. /\ n # Null => n \in F /\ Idx(h, n) = Idx(h, c) /\ h.mem[n + 12] = c
          /\ p # Null => p \in F /\ Idx(h, p) = Idx(h, c) /\ h.mem[p + 8] = c
          /\ p = Null => Head(h, Idx(h, c)) = c
          /\ g.mem[c + 12] = IF c = cur THEN b ELSE p
          /\ c = cur => Idx(h, c) = i /\ p = Null
      BY <1>1, <1>3, <1>5, <3>0
    <3>. HIDE DEF n, p
    <3>3. n # Null => n # cur
      BY <3>2, <3>0, <1>5
    <3>4. n # Null => g.mem[n + 12] = c
      BY <3>2, <3>3, <1>1
    <3>5. g.mem[c + 8] # Null =>
            /\ g.mem[c + 8] \in D /\ Idx(h, g.mem[c + 8]) = Idx(h, c)
            /\ g.mem[g.mem[c + 8] + 12] = c
      BY <3>1, <3>2, <3>4
    <3>6. CASE c = cur
      <4>1. g.mem[c + 12] = b /\ Idx(h, b) = Idx(h, c) /\ g.mem[b + 8] = c
        BY <3>2, <3>6, <1>1 DEF i
      <4>. QED BY <4>1, <3>5, <1>5
    <3>7. CASE c # cur
      <4>1. g.mem[c + 12] = p
        BY <3>2, <3>7
      <4>2. p # Null => g.mem[p + 8] = c
        BY <3>2, <1>1
      <4>3. p = Null => Head(g, Idx(h, c)) = c
        <5>1. p = Null => Idx(h, c) # i
          BY <3>2, <3>7 DEF cur
        <5>. QED BY <5>1, <3>2, <3>0, <1>1, <1>2
      <4>. QED BY <4>1, <4>2, <4>3, <3>2, <3>5
    <3>. QED BY <3>6, <3>7
  <2>. QED BY <2>1, <2>2
<1>7. Headed(g, D)
  <2>. SUFFICES ASSUME NEW j \in Pairs
                PROVE  /\ Head(g, j) # Null =>
                            /\ Head(g, j) \in D /\ Idx(h, Head(g, j)) = j
                            /\ g.mem[Head(g, j) + 12] = Null
                       /\ j.sl \in g.sl[j.fl] <=> Head(g, j) # Null
    BY <1>2 DEF Headed
  <2>1. CASE j = i
    <3>1. Head(g, j) = b
      BY <1>1, <2>1
    <3>. QED BY <3>1, <1>1, <1>5, <2>1 DEF i
  <2>2. CASE j # i
    <3>. DEFINE x == Head(h, j)
    <3>1. Head(g, j) = x
      BY <1>1, <2>2
    <3>2. x # Null => x \in F /\ Idx(h, x) = j /\ h.mem[x + 12] = Null
      BY <1>3
    <3>3. x # Null => x # cur
      BY <1>5, <2>2, <3>2
    <3>4. j.sl \in g.sl[j.fl] <=> x # Null
      BY <1>1, <1>3, <2>2
    <3>. HIDE DEF x
    <3>6. x # Null => g.mem[x + 12] = Null
      BY <1>1, <3>2, <3>3
    <3>. QED BY <3>1, <3>2, <3>4, <3>6
  <2>. QED BY <2>1, <2>2
<1>8. Mapped(g)
  <2>. SUFFICES ASSUME NEW f \in Fls
                PROVE  f \in g.fl <=> g.sl[f] # {}
    BY DEF Mapped
  <2>0. i.sl \in Sls
    BY <1>5 DEF Pairs
  <2>1. \A t \in Sls : t \in g.sl[f] <=> (f = i.fl /\ t = i.sl) \/ t \in h.sl[f]
    <3>. TAKE t \in Sls
    <3>. DEFINE j == [fl |-> f, sl |-> t]
    <3>1. j \in Pairs /\ j.fl = f /\ j.sl = t
      BY DEF Pairs
    <3>2. j = i <=> f = i.fl /\ t = i.sl
      BY <3>1, <1>5, SamePair
    <3>. HIDE DEF j
    <3>. QED BY <3>1, <3>2, <1>1
  <2>2. h.sl[f] \subseteq Sls /\ g.sl[f] \subseteq Sls
    BY <1>1 DEF HeapTyped
  <2>3. f \in h.fl <=> h.sl[f] # {}
    BY DEF Linked, Mapped
  <2>4. f \in g.fl <=> f = i.fl \/ f \in h.fl
    BY <1>1
  <2>. QED BY <2>0, <2>1, <2>2, <2>3, <2>4
<1>9. Ranked(g, D)
  <2>. DEFINE r == [c \in D |-> IF c = b THEN 0 ELSE rank[c] + 1]
  <2>1. r \in [D -> Nat]
    OBVIOUS
  <2>2. ASSUME NEW c \in D, g.mem[c + 12] # Null
        PROVE  r[g.mem[c + 12]] < r[c]
    <3>1. g.mem[c + 12] \in D /\ c # b /\ c \in F
      BY <1>1, <1>6, <2>2 DEF Chained
    <3>2. rank[c] \in Nat /\ r[c] = rank[c] + 1
      BY <3>1, <1>4
    <3>3. CASE c = cur
      BY <3>1, <3>2, <3>3, <1>1
    <3>4. CASE c # cur
      <4>. DEFINE p == h.mem[c + 12]
      <4>1. g.mem[c + 12] = p /\ p # Null
        BY <1>1, <3>1, <3>4, <2>2
      <4>2. p \in F /\ rank[p] < rank[c]
        BY <1>3, <1>4, <3>1, <4>1
      <4>. HIDE DEF p
      <4>3. rank[p] \in Nat /\ r[p] = rank[p] + 1
        BY <4>2, <1>4
      <4>. QED BY <4>1, <4>2, <4>3, <3>2
    <3>. QED BY <3>3, <3>4
  <2>. QED BY <2>1, <2>2 DEF Ranked
<1>. QED BY <1>1, <1>6, <1>7, <1>8, <1>9 DEF Linked, D

-----------------------------------------------------------------------------
(* Links and headers do not disturb each other. *)

(* Links are none of the headers' words.                                   *)
LEMMA LinksKeepShape ==
  ASSUME NEW h, HeapTyped(h), NEW g, HeapTyped(g), NEW B, NEW G, Tiled(h, B), Flagged(h, B, G),
         NEW F, F \subseteq G, OnlyLinks(h, g, F)
  PROVE  /\ Tiled(g, B) /\ Flagged(g, B, G)
         /\ Spares(h, g, B \ (F \cup {Sentinel}))
         /\ \A c \in B : SizeOf(g, c) = SizeOf(h, c) /\ BlockNext(g, c) = BlockNext(h, c)
<1>1. F \subseteq B \ {Sentinel} /\ B \subseteq Places
  BY DEF Flagged, Tiled
<1>2. ASSUME NEW c \in B, NEW d \in F
      PROVE  /\ c # d + 8 /\ c # d + 12 /\ c + 4 # d + 8 /\ c + 4 # d + 12
  <2>1. c \in Nat /\ d \in Nat /\ (c = d \/ c >= d + 16 \/ d >= c + 16)
    BY <1>1, Distance
  <2>. QED BY <2>1
<1>3. ASSUME NEW c \in B
      PROVE  /\ c + 4 \in Words /\ g.mem[c + 4] = h.mem[c + 4]
             /\ c \in Words => g.mem[c] = h.mem[c]
  <2>1. c + 4 \in Words
    BY <1>1, HeaderIs
  <2>. QED BY <2>1, <1>2 DEF OnlyLinks
<1>4. ASSUME NEW c \in B
      PROVE  /\ SizeOf(g, c) = SizeOf(h, c) /\ BlockNext(g, c) = BlockNext(h, c)
             /\ IsFree(g, c) <=> IsFree(h, c)
             /\ IsPrevFree(g, c) <=> IsPrevFree(h, c)
  BY <1>1, <1>3, SameHeader
<1>5. Tiled(g, B)
  BY <1>4, TilesStay
<1>6. Flagged(g, B, G)
  <2>1. /\ G \subseteq B \ {Sentinel} /\ Start \in B
        /\ \A b \in B \ {Sentinel} : BlockNext(h, b) \in B /\ BlockNext(h, b) \in Words
    BY BlockIs DEF Tiled, Flagged
  <2>2. /\ ~IsPrevFree(g, Start)
        /\ \A b \in B : IsFree(g, b) <=> b \in G
    BY <1>4, <2>1 DEF Flagged
  <2>3. ASSUME NEW b \in B \ {Sentinel}
        PROVE  IsPrevFree(g, BlockNext(g, b)) <=> b \in G
    BY <1>4, <2>1 DEF Flagged
  <2>4. ASSUME NEW b \in G
        PROVE  g.mem[BlockNext(g, b)] = b
    BY <1>3, <1>4, <2>1 DEF Flagged
  <2>. QED BY <2>1, <2>2, <2>3, <2>4 DEF Flagged
<1>7. Spares(h, g, B \ (F \cup {Sentinel}))
  <2>1. ASSUME NEW u \in B \ (F \cup {Sentinel}), NEW a \in Words, Inside(h, u, a), NEW d \in F
        PROVE  a # d + 8 /\ a # d + 12
    <3>1. u \in Nat /\ d \in Nat /\ u # d /\ BlockNext(h, u) \in Nat /\ a \in Nat
      BY <1>1, BlockIs, WordsAre
    <3>2. u < d => BlockNext(h, u) <= d
      BY <1>1, Distance
    <3>3. d < u => BlockNext(h, d) <= u /\ BlockNext(h, d) >= d + 16 /\ BlockNext(h, d) \in Nat
      BY <1>1, Distance, BlockIs
    <3>4. u + 8 <= a /\ a <= BlockNext(h, u)
      BY <2>1 DEF Inside
    <3>. QED BY <3>1, <3>2, <3>3, <3>4
  <2>2. ASSUME NEW u \in B \ (F \cup {Sentinel}), NEW a \in Words, Inside(h, u, a)
        PROVE  g.mem[a] = h.mem[a]
    BY <2>1, <2>2 DEF OnlyLinks
  <2>. QED BY <2>2, <1>4 DEF Spares
<1>. QED BY <1>4, <1>5, <1>6, <1>7

(* Lists stay where their links do. *)
SameLinks(h, g, F) ==
  \A c \in F : /\ g.mem[c + 8] = h.mem[c + 8] /\ g.mem[c + 12] = h.mem[c + 12]
               /\ Idx(g, c) = Idx(h, c)

(* Lists stay when heads, links and sizes do.                              *)
LEMMA LinksStay ==
  ASSUME NEW h, NEW g, NEW F, Linked(h, F), SameTables(h, g), SameLinks(h, g, F)
  PROVE  Linked(g, F)
<1>1. \A c \in F : /\ g.mem[c + 8] = h.mem[c + 8] /\ g.mem[c + 12] = h.mem[c + 12]
                   /\ Idx(g, c) = Idx(h, c)
  BY DEF SameLinks
<1>2. \A j : Head(g, j) = Head(h, j)
  BY DEF Head, SameTables
<1>3. Chained(g, F)
  <2>. SUFFICES ASSUME NEW c \in F
                PROVE  /\ g.mem[c + 8] # Null =>
                            /\ g.mem[c + 8] \in F /\ Idx(g, g.mem[c + 8]) = Idx(g, c)
                            /\ g.mem[g.mem[c + 8] + 12] = c
                       /\ g.mem[c + 12] # Null =>
                            /\ g.mem[c + 12] \in F /\ Idx(g, g.mem[c + 12]) = Idx(g, c)
                            /\ g.mem[g.mem[c + 12] + 8] = c
                       /\ g.mem[c + 12] = Null => Head(g, Idx(g, c)) = c
    BY DEF Chained
  <2>1. /\ h.mem[c + 8] # Null =>
             /\ h.mem[c + 8] \in F /\ Idx(h, h.mem[c + 8]) = Idx(h, c)
             /\ h.mem[h.mem[c + 8] + 12] = c
        /\ h.mem[c + 12] # Null =>
             /\ h.mem[c + 12] \in F /\ Idx(h, h.mem[c + 12]) = Idx(h, c)
             /\ h.mem[h.mem[c + 12] + 8] = c
        /\ h.mem[c + 12] = Null => Head(h, Idx(h, c)) = c
    BY DEF Linked, Chained
  <2>. QED BY <2>1, <1>1, <1>2
<1>4. Headed(g, F)
  BY <1>1, <1>2 DEF Linked, Headed, SameTables
<1>5. Mapped(g)
  BY DEF Linked, Mapped, SameTables
<1>6. Ranked(g, F)
  <2>1. PICK rank \in [F -> Nat] :
          \A c \in F : h.mem[c + 12] # Null => rank[h.mem[c + 12]] < rank[c]
    BY DEF Linked, Ranked
  <2>2. \A c \in F : g.mem[c + 12] # Null => rank[g.mem[c + 12]] < rank[c]
    BY <2>1, <1>1
  <2>. QED BY <2>1, <2>2 DEF Ranked
<1>. QED BY <1>3, <1>4, <1>5, <1>6 DEF Linked

(* Lists stay where their blocks do. *)
LEMMA SparesKeepsLists ==
  ASSUME NEW h, HeapTyped(h), NEW g, HeapTyped(g), NEW B, Tiled(h, B),
         NEW F, F \subseteq B \ {Sentinel}, Linked(h, F), SameTables(h, g), Spares(h, g, F)
  PROVE  Linked(g, F)
<1>1. ASSUME NEW c \in F
      PROVE  /\ g.mem[c + 8] = h.mem[c + 8] /\ g.mem[c + 12] = h.mem[c + 12]
             /\ Idx(g, c) = Idx(h, c)
  <2>1. /\ c + 8 \in Words /\ c + 12 \in Words /\ c \in Nat
        /\ BlockNext(h, c) \in Nat /\ BlockNext(h, c) >= c + 16
    BY BlockIs
  <2>2. Inside(h, c, c + 8) /\ Inside(h, c, c + 12)
    BY <2>1 DEF Inside
  <2>3. SizeOf(g, c) = SizeOf(h, c)
    BY DEF Spares
  <2>4. g.mem[c + 8] = h.mem[c + 8] /\ g.mem[c + 12] = h.mem[c + 12]
    BY <2>1, <2>2 DEF Spares
  <2>. QED BY <2>3, <2>4 DEF Idx
<1>. QED BY <1>1, LinksStay DEF SameLinks

-----------------------------------------------------------------------------
(* Sizes and lists. *)

L == SL_INDEX_COUNT_LOG2
M == FL_INDEX_MAX

(* The constants of the two indices.                                       *)
LEMMA Scales ==
  /\ L \in Nat /\ L >= 1 /\ M \in Nat /\ M > L + 2
  /\ SL_INDEX_COUNT \in Nat /\ SL_INDEX_COUNT >= 2 /\ SL_INDEX_COUNT = Pow2[L]
  /\ SMALL_BLOCK_SIZE = 4 * SL_INDEX_COUNT /\ SMALL_BLOCK_SIZE = Pow2[L + 2]
  /\ SMALL_BLOCK_SIZE \div SL_INDEX_COUNT = 4
  /\ FL_INDEX_SHIFT = L + 2 /\ FL_INDEX_COUNT = M - L - 1
  /\ BlockSizeMax = Pow2[M] /\ BlockSizeMax \in Nat /\ BlockSizeMax >= 16
<1>1. L \in Nat /\ L >= 1 /\ M \in Nat /\ M > L + 2
  BY IndexAssumption DEF L, M
<1>2. SL_INDEX_COUNT = Pow2[L] /\ SMALL_BLOCK_SIZE = Pow2[L + 2] /\ BlockSizeMax = Pow2[M]
  BY DEF SL_INDEX_COUNT, SMALL_BLOCK_SIZE, BlockSizeMax, FL_INDEX_SHIFT, L, M
<1>3. /\ Pow2[L] \in Nat \ {0} /\ Pow2[L + 1] = 2 * Pow2[L]
      /\ Pow2[L + 1] \in Nat \ {0} /\ Pow2[(L + 1) + 1] = 2 * Pow2[L + 1]
      /\ Pow2[M] \in Nat \ {0}
  BY <1>1, Pow2Facts
<1>4. Pow2[L + 2] = 4 * Pow2[L]
  <2>1. (L + 1) + 1 = L + 2
    BY <1>1
  <2>. QED BY <2>1, <1>3
<1>5. Pow2[1] = 2 /\ Pow2[2] = 4 /\ Pow2[3] = 8 /\ Pow2[4] = 16
  <2>1. Pow2[0] = 1 /\ Pow2[0 + 1] = 2 * Pow2[0] /\ Pow2[1 + 1] = 2 * Pow2[1]
        /\ Pow2[2 + 1] = 2 * Pow2[2] /\ Pow2[3 + 1] = 2 * Pow2[3]
    BY Pow2Facts
  <2>. QED BY <2>1
<1>6. Pow2[L] >= 2 /\ Pow2[M] >= 16
  BY <1>1, <1>5, Pow2Grows
<1>7. SMALL_BLOCK_SIZE \div SL_INDEX_COUNT = 4
  <2>1. 4 * Pow2[L] = Pow2[L] * 4 + 0 /\ 0 \in 0 .. Pow2[L] - 1 /\ 4 * Pow2[L] \in Nat
    BY <1>3
  <2>2. (4 * Pow2[L]) \div Pow2[L] = 4
    BY <2>1, <1>3, QuotientIs
  <2>. QED BY <2>2, <1>2, <1>4
<1>8. FL_INDEX_SHIFT = L + 2 /\ FL_INDEX_COUNT = M - L - 1
  BY <1>1 DEF FL_INDEX_SHIFT, FL_INDEX_COUNT, L, M
<1>. QED BY <1>1, <1>2, <1>3, <1>4, <1>6, <1>7, <1>8

(* tlsf_fls() *)
LEMMA FindLastSetIs ==
  ASSUME NEW x \in Nat, x > 0, x < Pow2[M + 3]
  PROVE  /\ FindLastSet(x) \in 0 .. M + 2
         /\ Pow2[FindLastSet(x)] <= x /\ x < Pow2[FindLastSet(x) + 1]
<1>. DEFINE T == {k \in Nat : x < Pow2[k + 1]}
<1>1. M + 2 \in T
  <2>1. (M + 2) + 1 = M + 3 /\ M + 2 \in Nat
    BY Scales
  <2>. QED BY <2>1
<1>2. PICK t \in T : \A k \in T : t <= k
  BY <1>1, LeastMember
<1>3. t \in 0 .. M + 2 /\ x < Pow2[t + 1]
  <2>1. t \in Nat /\ x < Pow2[t + 1]
    BY <1>2
  <2>2. t <= M + 2 /\ M \in Nat
    BY <1>1, <1>2, Scales
  <2>. HIDE DEF T
  <2>. QED BY <2>1, <2>2
<1>4. Pow2[t] <= x
  <2>1. CASE t = 0
    BY <2>1, Pow2Facts
  <2>2. CASE t # 0
    <3>1. t - 1 \in Nat /\ (t - 1) + 1 = t /\ ~(t <= t - 1)
      BY <1>3, <2>2
    <3>2. t - 1 \notin T
      BY <3>1, <1>2
    <3>3. ~(x < Pow2[t]) /\ Pow2[t] \in Nat
      BY <3>1, <3>2, <1>2, Pow2Facts
    <3>. QED BY <3>3
  <2>. QED BY <2>1, <2>2
<1>. HIDE DEF T
<1>5. \E k \in 0 .. FL_INDEX_MAX + 2 : Pow2[k] <= x /\ x < Pow2[k + 1]
  BY <1>3, <1>4 DEF M
<1>. QED BY <1>5 DEF FindLastSet, M

(* A number between n and 2n times d has n to 2n - 1 for quotient.         *)
LEMMA Ratio ==
  ASSUME NEW n \in Nat \ {0}, NEW d \in Nat \ {0}, NEW x \in Nat, n * d <= x, x < 2 * (n * d)
  PROVE  x \div d \in n .. 2 * n - 1
<1>. DEFINE q == x \div d
<1>1. q \in Nat /\ q * d <= x /\ x < q * d + d
  BY Divided
<1>. HIDE DEF q
<1>2. ~(q + 1 <= n)
  <2>. SUFFICES ASSUME q + 1 <= n PROVE FALSE
    OBVIOUS
  <2>1. (q + 1) * d <= n * d
    BY <1>1
  <2>. QED BY <2>1, <1>1
<1>3. ~(2 * n <= q)
  <2>. SUFFICES ASSUME 2 * n <= q PROVE FALSE
    OBVIOUS
  <2>1. (2 * n) * d <= q * d
    BY <1>1
  <2>. QED BY <2>1, <1>1
<1>. QED BY <1>1, <1>2, <1>3 DEF q

(* mapping_insert() of a large size *)
LEMMA MappingIs ==
  ASSUME NEW x \in Nat, SMALL_BLOCK_SIZE <= x, x < Pow2[M + 3], NEW f, f = FindLastSet(x)
  PROVE  /\ f \in Nat /\ f >= L + 2 /\ f <= M + 2 /\ Pow2[f] <= x /\ x < Pow2[f + 1]
         /\ Pow2[f - L] \in Nat \ {0}
         /\ MappingInsert(x).fl = f - (L + 1)
         /\ MappingInsert(x).sl = x \div Pow2[f - L] - SL_INDEX_COUNT
         /\ MappingInsert(x).sl \in Sls
         /\ MappingInsert(x) = [fl |-> f - (L + 1), sl |-> x \div Pow2[f - L] - SL_INDEX_COUNT]
<1>1. x > 0
  BY Scales
<1>2. f \in 0 .. M + 2 /\ Pow2[f] <= x /\ x < Pow2[f + 1]
  BY <1>1, FindLastSetIs
<1>3. f \in Nat /\ f <= M + 2 /\ L \in Nat /\ M \in Nat
  BY <1>2, Scales
<1>4. f >= L + 2
  <2>1. ~(f + 1 <= L + 2)
    <3>1. f + 1 <= L + 2 => Pow2[f + 1] <= Pow2[L + 2]
      BY <1>3, Pow2Grows
    <3>2. Pow2[f + 1] \in Nat /\ Pow2[L + 2] \in Nat /\ Pow2[L + 2] <= x
      BY <1>3, Scales, Pow2Facts
    <3>. QED BY <3>1, <3>2, <1>2
  <2>. QED BY <2>1, <1>3
<1>5. f - L \in Nat /\ L + (f - L) = f
  BY <1>3, <1>4
<1>6. /\ Pow2[f - L] \in Nat \ {0} /\ Pow2[f] = Pow2[L] * Pow2[f - L]
      /\ Pow2[L] \in Nat \ {0} /\ Pow2[f + 1] = 2 * Pow2[f]
  <2>1. Pow2[L + (f - L)] = Pow2[L] * Pow2[f - L]
    BY <1>3, <1>5, Pow2Product
  <2>. QED BY <2>1, <1>3, <1>5, Pow2Facts
<1>7. x \div Pow2[f - L] \in Pow2[L] .. 2 * Pow2[L] - 1
  BY <1>2, <1>6, Ratio
<1>8. MappingInsert(x) = [fl |-> f - (L + 1), sl |-> x \div Pow2[f - L] - SL_INDEX_COUNT]
  <2>1. ~(x < SMALL_BLOCK_SIZE)
    BY Scales
  <2>2. f - (FL_INDEX_SHIFT - 1) = f - (L + 1)
    BY <1>3, Scales
  <2>. QED BY <2>1, <2>2 DEF MappingInsert, L
<1>9. x \div Pow2[f - L] - SL_INDEX_COUNT \in Sls
  BY <1>6, <1>7, Scales DEF Sls
<1>. QED BY <1>2, <1>3, <1>4, <1>6, <1>8, <1>9

(* and of a small one *)
LEMMA MappingSmall ==
  ASSUME NEW x \in Nat, x < SMALL_BLOCK_SIZE
  PROVE  MappingInsert(x) = [fl |-> 0, sl |-> x \div 4] /\ x \div 4 \in Sls
<1>1. MappingInsert(x) = [fl |-> 0, sl |-> x \div 4]
  BY Scales DEF MappingInsert
<1>2. SL_INDEX_COUNT \in Nat /\ x < 4 * SL_INDEX_COUNT
  BY Scales
<1>3. x \div 4 \in 0 .. SL_INDEX_COUNT - 1
  BY <1>2
<1>. QED BY <1>1, <1>3 DEF Sls

(* Every size that a block can have has a list. *)
LEMMA MappingTyped ==
  ASSUME NEW x \in Nat, x < Pow2[M + 3]
  PROVE  /\ MappingInsert(x).fl \in Nat /\ MappingInsert(x).sl \in Sls
         /\ MappingInsert(x) \in [fl : Nat, sl : Sls]
         /\ x < BlockSizeMax => MappingInsert(x) \in Pairs
<1>1. CASE x < SMALL_BLOCK_SIZE
  BY <1>1, MappingSmall, Scales DEF Pairs, Fls
<1>2. CASE ~(x < SMALL_BLOCK_SIZE)
  <2>. DEFINE f == FindLastSet(x)
  <2>0. SMALL_BLOCK_SIZE <= x
    BY <1>2, Scales
  <2>1. /\ f \in Nat /\ f >= L + 2 /\ Pow2[f] <= x
        /\ MappingInsert(x).sl \in Sls
        /\ MappingInsert(x) = [fl |-> f - (L + 1), sl |-> x \div Pow2[f - L] - SL_INDEX_COUNT]
    BY <2>0, MappingIs
  <2>. HIDE DEF f
  <2>2. x < BlockSizeMax => f < M
    <3>1. ~(f < M) => Pow2[M] <= Pow2[f]
      BY <2>1, Scales, Pow2Grows
    <3>2. Pow2[M] = BlockSizeMax /\ Pow2[f] \in Nat /\ BlockSizeMax \in Nat
      BY <2>1, Scales, Pow2Facts
    <3>. QED BY <3>1, <3>2, <2>1
  <2>3. f - (L + 1) \in Nat /\ (f < M => f - (L + 1) \in Fls)
    BY <2>1, Scales DEF Fls
  <2>. QED BY <2>1, <2>2, <2>3 DEF Pairs
<1>. QED BY <1>1, <1>2

(* i is the list j or one behind it. *)
AtLeast(i, j) == i.fl > j.fl \/ (i.fl = j.fl /\ i.sl >= j.sl)

(* Division is monotonic.                                                  *)
LEMMA QuotientGrows ==
  ASSUME NEW x \in Nat, NEW y \in Nat, x <= y, NEW d \in Nat \ {0}
  PROVE  x \div d <= y \div d
<1>. DEFINE q == x \div d
            r == y \div d
<1>1. q \in Nat /\ q * d <= x /\ r \in Nat /\ y < r * d + d
  BY Divided
<1>. HIDE DEF q, r
<1>2. ~(r + 1 <= q)
  <2>. SUFFICES ASSUME r + 1 <= q PROVE FALSE
    OBVIOUS
  <2>1. (r + 1) * d <= q * d
    BY <1>1
  <2>. QED BY <2>1, <1>1
<1>. QED BY <1>1, <1>2 DEF q, r

(* A larger size is in the same list or in one behind it.                  *)
LEMMA MappingGrows ==
  ASSUME NEW x \in Nat, NEW y \in Nat, x <= y, y < Pow2[M + 3]
  PROVE  AtLeast(MappingInsert(y), MappingInsert(x))
<1>0. SMALL_BLOCK_SIZE \in Nat /\ Pow2[M + 3] \in Nat /\ L \in Nat
  BY Scales, Pow2Facts
<1>1. CASE y < SMALL_BLOCK_SIZE
  <2>1. x < SMALL_BLOCK_SIZE
    BY <1>0, <1>1
  <2>2. MappingInsert(x) = [fl |-> 0, sl |-> x \div 4] /\ MappingInsert(y) = [fl |-> 0, sl |-> y \div 4]
    BY <1>1, <2>1, MappingSmall
  <2>3. x \div 4 <= y \div 4
    BY QuotientGrows
  <2>4. x \div 4 \in Nat /\ y \div 4 \in Nat
    BY Divided
  <2>. QED BY <2>2, <2>3, <2>4 DEF AtLeast
<1>2. CASE ~(y < SMALL_BLOCK_SIZE)
  <2>. DEFINE f == FindLastSet(y)
  <2>0. SMALL_BLOCK_SIZE <= y
    BY <1>0, <1>2
  <2>1. /\ f \in Nat /\ f >= L + 2 /\ Pow2[f] <= y /\ y < Pow2[f + 1]
        /\ Pow2[f - L] \in Nat \ {0}
        /\ MappingInsert(y).fl = f - (L + 1)
        /\ MappingInsert(y).sl = y \div Pow2[f - L] - SL_INDEX_COUNT
    BY <2>0, MappingIs
  <2>. HIDE DEF f
  <2>2. CASE x < SMALL_BLOCK_SIZE
    <3>1. MappingInsert(x).fl = 0
      BY <2>2, MappingSmall
    <3>. QED BY <3>1, <2>1, <1>0 DEF AtLeast
  <2>3. CASE ~(x < SMALL_BLOCK_SIZE)
    <3>. DEFINE e == FindLastSet(x)
    <3>0. SMALL_BLOCK_SIZE <= x /\ x < Pow2[M + 3]
      BY <1>0, <2>3
    <3>1. /\ e \in Nat /\ e >= L + 2 /\ Pow2[e] <= x /\ x < Pow2[e + 1]
          /\ Pow2[e - L] \in Nat \ {0}
          /\ MappingInsert(x).fl = e - (L + 1)
          /\ MappingInsert(x).sl = x \div Pow2[e - L] - SL_INDEX_COUNT
      BY <3>0, MappingIs
    <3>. HIDE DEF e
    <3>2. e <= f
      <4>1. f + 1 <= e => Pow2[f + 1] <= Pow2[e]
        BY <2>1, <3>1, Pow2Grows
      <4>2. Pow2[f + 1] \in Nat /\ Pow2[e] \in Nat
        BY <2>1, <3>1, Pow2Facts
      <4>. QED BY <4>1, <4>2, <2>1, <3>1
    <3>3. CASE e < f
      BY <3>3, <3>1, <2>1, <1>0 DEF AtLeast
    <3>4. CASE e = f
      <4>1. x \div Pow2[f - L] <= y \div Pow2[f - L]
        BY <2>1, QuotientGrows
      <4>2. x \div Pow2[f - L] \in Nat /\ y \div Pow2[f - L] \in Nat /\ SL_INDEX_COUNT \in Nat
        BY <2>1, Divided, Scales
      <4>3. MappingInsert(y).sl >= MappingInsert(x).sl
        BY <4>1, <4>2, <3>1, <3>4, <2>1
      <4>. QED BY <4>3, <3>1, <3>4, <2>1 DEF AtLeast
    <3>. QED BY <3>1, <3>2, <3>3, <3>4, <2>1
  <2>. QED BY <2>2, <2>3
<1>. QED BY <1>1, <1>2

(* What mapping_search() rounds up to. *)
LEMMA RoundedIs ==
  ASSUME NEW s \in Nat, s < Pow2[M + 1]
  PROVE  /\ Rounded(s) \in Nat /\ s <= Rounded(s) /\ Rounded(s) < Pow2[M + 3]
         /\ s >= SMALL_BLOCK_SIZE => Rounded(s) = s + Pow2[FindLastSet(s) - L] - 1
         /\ s < SMALL_BLOCK_SIZE => Rounded(s) \in {s, s + 1}
<1>0. /\ L \in Nat /\ M \in Nat /\ SL_INDEX_COUNT \in Nat /\ SL_INDEX_COUNT >= 2
      /\ SL_INDEX_COUNT = Pow2[L] /\ SMALL_BLOCK_SIZE = 4 * SL_INDEX_COUNT
  BY Scales
<1>1. /\ Pow2[M + 1] \in Nat /\ Pow2[M + 2] = 2 * Pow2[M + 1] /\ Pow2[M + 3] = 4 * Pow2[M + 1]
      /\ Pow2[M + 1] > 0
  <2>1. M + 1 \in Nat /\ M + 2 \in Nat /\ (M + 1) + 1 = M + 2 /\ (M + 2) + 1 = M + 3
    BY <1>0
  <2>2. Pow2[M + 1] \in Nat \ {0} /\ Pow2[(M + 1) + 1] = 2 * Pow2[M + 1]
        /\ Pow2[(M + 2) + 1] = 2 * Pow2[M + 2]
    BY <2>1, Pow2Facts
  <2>. QED BY <2>1, <2>2
<1>2. CASE s < SL_INDEX_COUNT
  <2>1. Rounded(s) = s
    BY <1>0, <1>2 DEF Rounded
  <2>. QED BY <2>1, <1>0, <1>1, <1>2
<1>3. CASE ~(s < SL_INDEX_COUNT)
  <2>. DEFINE f == FindLastSet(s)
              d == Pow2[f - L]
  <2>1. s > 0 /\ s < Pow2[M + 3]
    BY <1>0, <1>1, <1>3
  <2>2. f \in 0 .. M + 2 /\ Pow2[f] <= s /\ s < Pow2[f + 1]
    BY <2>1, FindLastSetIs
  <2>3. f \in Nat
    BY <2>2, <1>0
  <2>4. f >= L
    <3>1. f + 1 <= L => Pow2[f + 1] <= Pow2[L]
      BY <2>3, <1>0, Pow2Grows
    <3>2. Pow2[f + 1] \in Nat
      BY <2>3, Pow2Facts
    <3>. QED BY <3>1, <3>2, <2>2, <2>3, <1>0, <1>3
  <2>5. f - L \in Nat /\ L + (f - L) = f
    BY <2>3, <2>4, <1>0
  <2>6. d \in Nat \ {0} /\ d <= s
    <3>1. Pow2[f - L] <= Pow2[f]
      BY <2>3, <2>5, <1>0, Pow2Grows
    <3>2. Pow2[f] \in Nat /\ Pow2[f - L] \in Nat \ {0}
      BY <2>3, <2>5, Pow2Facts
    <3>. QED BY <3>1, <3>2, <2>2
  <2>7. Rounded(s) = s + d - 1
    BY <1>0, <1>3 DEF Rounded, L
  <2>8. s < SMALL_BLOCK_SIZE => d \in {1, 2}
    <3>. SUFFICES ASSUME s < SMALL_BLOCK_SIZE PROVE d \in {1, 2}
      OBVIOUS
    <3>1. ~(L + 2 <= f)
      <4>1. L + 2 <= f => Pow2[L + 2] <= Pow2[f]
        BY <2>3, <1>0, Pow2Grows
      <4>2. Pow2[f] \in Nat /\ Pow2[L + 2] = SMALL_BLOCK_SIZE /\ SMALL_BLOCK_SIZE \in Nat
        BY <2>3, Pow2Facts, Scales
      <4>. QED BY <4>1, <4>2, <2>2
    <3>2. f - L = 0 \/ f - L = 1
      BY <3>1, <2>3, <2>4, <1>0
    <3>3. Pow2[0] = 1 /\ Pow2[0 + 1] = 2 * Pow2[0]
      BY Pow2Facts
    <3>. QED BY <3>2, <3>3
  <2>. HIDE DEF d
  <2>9. s >= SMALL_BLOCK_SIZE => Rounded(s) = s + Pow2[FindLastSet(s) - L] - 1
    BY <2>7 DEF d
  <2>. QED BY <2>6, <2>7, <2>8, <2>9, <1>1
<1>. QED BY <1>2, <1>3

(* What is found from the rounded size on is large enough.                 *)
LEMMA LargeEnough ==
  ASSUME NEW s \in Nat, s % 4 = 0, s < Pow2[M + 1], NEW x \in Nat, x < Pow2[M + 3],
         AtLeast(MappingInsert(x), MappingInsert(Rounded(s)))
  PROVE  s <= x
<1>. DEFINE R == Rounded(s)
<1>1. /\ R \in Nat /\ s <= R /\ R < Pow2[M + 3]
      /\ s >= SMALL_BLOCK_SIZE => R = s + Pow2[FindLastSet(s) - L] - 1
      /\ s < SMALL_BLOCK_SIZE => R \in {s, s + 1}
  BY RoundedIs
<1>. HIDE DEF R
<1>0. AtLeast(MappingInsert(x), MappingInsert(R))
  BY DEF R
<1>2. L \in Nat /\ M \in Nat /\ SMALL_BLOCK_SIZE \in Nat /\ SMALL_BLOCK_SIZE % 4 = 0
      /\ Pow2[M + 3] \in Nat
  BY Scales, Pow2Facts
<1>3. CASE R <= x
  BY <1>1, <1>3
<1>4. CASE x < R
  <2>1. AtLeast(MappingInsert(R), MappingInsert(x))
    BY <1>1, <1>4, MappingGrows
  <2>2. /\ MappingInsert(x).fl \in Nat /\ MappingInsert(R).fl \in Nat
        /\ MappingInsert(x).sl \in Nat /\ MappingInsert(R).sl \in Nat
    BY <1>1, MappingTyped DEF Sls
  <2>3. MappingInsert(x).fl = MappingInsert(R).fl /\ MappingInsert(x).sl = MappingInsert(R).sl
    BY <2>1, <2>2, <1>0 DEF AtLeast
  <2>4. CASE s < SMALL_BLOCK_SIZE
    <3>1. R < SMALL_BLOCK_SIZE /\ R \div 4 = s \div 4
      BY <2>4, <1>1, <1>2
    <3>2. x < SMALL_BLOCK_SIZE
      BY <3>1, <1>1, <1>2, <1>4
    <3>3. MappingInsert(x).sl = x \div 4 /\ MappingInsert(R).sl = R \div 4
      BY <3>1, <3>2, <1>1, MappingSmall
    <3>4. x \div 4 = s \div 4
      BY <3>1, <3>3, <2>3
    <3>. QED BY <3>4
  <2>5. CASE ~(s < SMALL_BLOCK_SIZE)
    <3>. DEFINE f == FindLastSet(s)
                e == FindLastSet(R)
                c == FindLastSet(x)
    <3>1. SMALL_BLOCK_SIZE <= s /\ SMALL_BLOCK_SIZE <= R /\ s < Pow2[M + 3]
      BY <2>5, <1>1, <1>2
    <3>2. /\ f \in Nat /\ f >= L + 2 /\ Pow2[f] <= s /\ s < Pow2[f + 1]
          /\ Pow2[f - L] \in Nat \ {0}
      BY <3>1, MappingIs
    <3>3. /\ e \in Nat /\ e >= L + 2 /\ Pow2[e] <= R /\ R < Pow2[e + 1]
          /\ Pow2[e - L] \in Nat \ {0}
          /\ MappingInsert(R).fl = e - (L + 1)
          /\ MappingInsert(R).sl = R \div Pow2[e - L] - SL_INDEX_COUNT
      BY <3>1, <1>1, MappingIs
    <3>4. SMALL_BLOCK_SIZE <= x
      <4>. SUFFICES ASSUME ~(SMALL_BLOCK_SIZE <= x) PROVE FALSE
        OBVIOUS
      <4>1. x < SMALL_BLOCK_SIZE
        BY <1>2
      <4>2. MappingInsert(x).fl = 0
        BY <4>1, MappingSmall
      <4>. HIDE DEF e
      <4>. QED BY <4>2, <3>3, <2>3, <1>2
    <3>5. /\ c \in Nat /\ c >= L + 2 /\ Pow2[c] <= x
          /\ MappingInsert(x).fl = c - (L + 1)
          /\ MappingInsert(x).sl = x \div Pow2[c - L] - SL_INDEX_COUNT
      BY <3>4, <1>1, MappingIs
    <3>6. R = s + Pow2[f - L] - 1
      BY <1>1, <3>1, <1>2
    <3>. HIDE DEF f, e, c
    <3>7. c = e
      BY <2>3, <3>3, <3>5, <1>2
    <3>8. f <= e
      <4>1. e + 1 <= f => Pow2[e + 1] <= Pow2[f]
        BY <3>2, <3>3, Pow2Grows
      <4>2. Pow2[e + 1] \in Nat /\ Pow2[f] \in Nat
        BY <3>2, <3>3, Pow2Facts
      <4>. QED BY <4>1, <4>2, <3>2, <3>3, <1>1
    <3>9. CASE f < e
      <4>1. Pow2[f + 1] <= Pow2[e]
        BY <3>2, <3>3, <3>9, Pow2Grows
      <4>2. Pow2[f + 1] \in Nat /\ Pow2[e] \in Nat
        BY <3>2, <3>3, Pow2Facts
      <4>. QED BY <4>1, <4>2, <3>2, <3>5, <3>7
    <3>10. CASE f = e
      <4>. DEFINE d == Pow2[e - L]
                  q == R \div d
                  p == x \div d
      <4>1. d \in Nat \ {0} /\ R = s + d - 1
        BY <3>3, <3>6, <3>10
      <4>2. q \in Nat /\ R < q * d + d /\ p \in Nat /\ p * d <= x
        BY <4>1, <1>1, Divided
      <4>3. SL_INDEX_COUNT \in Nat
        BY Scales
      <4>4. p - SL_INDEX_COUNT = q - SL_INDEX_COUNT
        BY <2>3, <3>3, <3>5, <3>7
      <4>. HIDE DEF d, q, p
      <4>5. p = q
        BY <4>2, <4>3, <4>4
      <4>6. q * d \in Nat
        BY <4>1, <4>2
      <4>. QED BY <4>1, <4>2, <4>5, <4>6
    <3>. QED BY <3>2, <3>3, <3>8, <3>9, <3>10
  <2>. QED BY <2>4, <2>5
<1>. QED BY <1>1, <1>3, <1>4

-----------------------------------------------------------------------------
(* Searching a list. *)

(* tlsf_ffs()                                                              *)
LEMMA LeastOfIs ==
  ASSUME NEW S, S \subseteq Nat, S # {}
  PROVE  LeastOf(S) \in S /\ \A x \in S : LeastOf(S) <= x
<1>1. \E x \in S : \A y \in S : x <= y
  BY LeastMember
<1>. QED BY <1>1 DEF LeastOf

(* search_suitable_block() finds the first list that holds something.      *)
LEMMA SuitableIs ==
  ASSUME NEW h, HeapTyped(h), NEW F, Linked(h, F), NEW i \in Pairs, NEW j, j = Suitable(h, i)
  PROVE  /\ j.sl # -1 => j \in Pairs /\ AtLeast(j, i) /\ Head(h, j) # Null
         /\ j.sl = -1 => \A k \in Pairs : AtLeast(k, i) => Head(h, k) = Null
<1>. DEFINE sls == {s \in h.sl[i.fl] : s >= i.sl}
            fls == {f \in h.fl : f > i.fl}
<1>1. /\ i.fl \in Fls /\ i.sl \in Sls /\ h.fl \subseteq Fls
      /\ \A f \in Fls : h.sl[f] \subseteq Sls
      /\ \A f \in Fls : f \in h.fl <=> h.sl[f] # {}
      /\ Fls \subseteq Nat /\ Sls \subseteq Nat
  <2>1. Fls \subseteq Nat /\ Sls \subseteq Nat
    BY Scales DEF Fls, Sls
  <2>2. i.fl \in Fls /\ i.sl \in Sls
    BY DEF Pairs
  <2>3. h.fl \subseteq Fls /\ \A f \in Fls : h.sl[f] \subseteq Sls
    BY DEF HeapTyped
  <2>4. \A f \in Fls : f \in h.fl <=> h.sl[f] # {}
    BY DEF Linked, Mapped
  <2>. QED BY <2>1, <2>2, <2>3, <2>4
<1>2. ASSUME NEW f \in Fls, NEW s \in Sls
      PROVE  s \in h.sl[f] <=> Head(h, [fl |-> f, sl |-> s]) # Null
  <2>1. [fl |-> f, sl |-> s] \in Pairs
    BY DEF Pairs
  <2>. QED BY <2>1 DEF Linked, Headed
<1>3. j = IF sls # {} THEN [i EXCEPT !.sl = LeastOf(sls)]
          ELSE IF fls = {} THEN [i EXCEPT !.sl = -1]
          ELSE [fl |-> LeastOf(fls), sl |-> LeastOf(h.sl[LeastOf(fls)])]
  BY DEF Suitable
<1>4. i = [fl |-> i.fl, sl |-> i.sl]
  BY DEF Pairs
<1>5. CASE sls # {}
  <2>1. LeastOf(sls) \in sls
    BY <1>1, <1>5, LeastOfIs
  <2>2. j = [fl |-> i.fl, sl |-> LeastOf(sls)]
    BY <1>3, <1>4, <1>5
  <2>. HIDE DEF fls
  <2>3. LeastOf(sls) \in Sls /\ LeastOf(sls) \in h.sl[i.fl] /\ LeastOf(sls) >= i.sl
    BY <2>1, <1>1
  <2>. HIDE DEF sls
  <2>4. j.sl # -1 /\ AtLeast(j, i) /\ j \in Pairs
    BY <2>2, <2>3, <1>1 DEF AtLeast, Pairs
  <2>. QED BY <2>2, <2>3, <2>4, <1>1, <1>2
<1>6. CASE sls = {} /\ fls = {}
  <2>1. j.sl = -1
    BY <1>3, <1>4, <1>6
  <2>2. ASSUME NEW k \in Pairs, AtLeast(k, i)
        PROVE  Head(h, k) = Null
    <3>1. k.fl \in Fls /\ k.sl \in Sls /\ k = [fl |-> k.fl, sl |-> k.sl]
      BY DEF Pairs
    <3>2. k.sl \notin h.sl[k.fl]
      <4>1. CASE k.fl = i.fl
        BY <4>1, <3>1, <2>2, <1>1, <1>6 DEF AtLeast
      <4>2. CASE k.fl > i.fl
        BY <4>2, <3>1, <1>1, <1>6
      <4>. QED BY <4>1, <4>2, <2>2 DEF AtLeast
    <3>. QED BY <3>1, <3>2, <1>2
  <2>. QED BY <2>1, <2>2
<1>7. CASE sls = {} /\ fls # {}
  <2>. DEFINE f == LeastOf(fls)
              s == LeastOf(h.sl[f])
  <2>1. f \in fls
    BY <1>1, <1>7, LeastOfIs
  <2>2. f \in Fls /\ f > i.fl /\ f \in h.fl
    BY <2>1, <1>1
  <2>3. j = [fl |-> f, sl |-> s]
    BY <1>3, <1>7
  <2>. HIDE DEF f
  <2>4. h.sl[f] # {} /\ h.sl[f] \subseteq Nat
    BY <2>2, <1>1
  <2>5. s \in h.sl[f]
    BY <2>4, LeastOfIs
  <2>6. s \in Sls
    BY <2>2, <2>5, <1>1
  <2>. HIDE DEF s
  <2>7. j.sl # -1 /\ AtLeast(j, i) /\ j \in Pairs
    BY <2>2, <2>3, <2>6, <1>1 DEF AtLeast, Pairs
  <2>. QED BY <2>2, <2>3, <2>5, <2>6, <2>7, <1>2
<1>. QED BY <1>5, <1>6, <1>7

-----------------------------------------------------------------------------
(* The whole structure: the free blocks G, of which F are listed, and no   *)
(* two listed blocks follow each other.                                    *)
Lonely(h, F) == \A c \in F : BlockNext(h, c) \notin F

Whole(h, B, G, F) ==
  /\ HeapTyped(h) /\ Tiled(h, B) /\ Flagged(h, B, G)
  /\ F \subseteq G /\ Linked(h, F) /\ Lonely(h, F)

SameSizes(h, g, B) == \A c \in B : SizeOf(g, c) = SizeOf(h, c) /\ BlockNext(g, c) = BlockNext(h, c)

(* The tables hold every block of the pool. *)
PoolFits == PoolBytes < BlockSizeMax

(* Blocks have room for links, and the tables for blocks.                  *)
LEMMA RoomyIs ==
  ASSUME PoolFits, NEW h, HeapTyped(h), NEW B, Tiled(h, B), NEW F, F \subseteq B \ {Sentinel}
  PROVE  Roomy(h, F)
<1>1. ASSUME NEW b \in F
      PROVE  /\ b \in Places /\ b # Null /\ b + 8 \in Words /\ b + 12 \in Words
             /\ Idx(h, b) \in Pairs
  <2>1. /\ b \in Places /\ b \in Nat /\ b >= Start /\ b + 8 \in Words /\ b + 12 \in Words
        /\ SizeOf(h, b) \in Nat /\ SizeOf(h, b) <= PoolBytes
    BY BlockIs
  <2>2. Start > 0 /\ Start \in Nat /\ PoolBytes \in Nat
    BY Addresses
  <2>3. SizeOf(h, b) < BlockSizeMax /\ SizeOf(h, b) < Pow2[M + 3]
    <3>1. BlockSizeMax \in Nat /\ BlockSizeMax = Pow2[M] /\ M \in Nat
      BY Scales
    <3>2. Pow2[M] <= Pow2[M + 3] /\ Pow2[M + 3] \in Nat
      BY <3>1, Pow2Grows, Pow2Facts
    <3>. QED BY <2>1, <2>2, <3>1, <3>2 DEF PoolFits
  <2>4. Idx(h, b) \in Pairs
    BY <2>1, <2>3, MappingTyped DEF Idx
  <2>. QED BY <2>1, <2>2, <2>4 DEF Null
<1>2. \A b, c \in F : b = c \/ b >= c + 16 \/ c >= b + 16
  BY Distance
<1>. QED BY <1>1, <1>2 DEF Roomy

(* A listed block leaves its list. *)
LEMMA Removed ==
  ASSUME PoolFits, NEW h, NEW B, NEW G, NEW F, Whole(h, B, G, F), NEW b \in F,
         NEW g, g = BlockRemove(h, b)
  PROVE  /\ Whole(g, B, G, F \ {b}) /\ SameSizes(h, g, B)
         /\ Spares(h, g, B \ (G \cup {Sentinel}))
<1>1. F \subseteq G /\ G \subseteq B \ {Sentinel} /\ HeapTyped(h) /\ Tiled(h, B)
      /\ Flagged(h, B, G) /\ Linked(h, F)
  BY DEF Whole, Flagged
<1>2. F \subseteq B \ {Sentinel}
  BY <1>1
<1>3. Roomy(h, F)
  BY <1>1, <1>2, RoomyIs
<1>4. HeapTyped(g) /\ OnlyLinks(h, g, F) /\ Linked(g, F \ {b})
  BY <1>1, <1>3, RemoveIs
<1>5. /\ Tiled(g, B) /\ Flagged(g, B, G)
      /\ Spares(h, g, B \ (F \cup {Sentinel}))
      /\ \A c \in B : SizeOf(g, c) = SizeOf(h, c) /\ BlockNext(g, c) = BlockNext(h, c)
  BY <1>1, <1>4, LinksKeepShape
<1>6. Lonely(g, F \ {b})
  BY <1>2, <1>5 DEF Whole, Lonely
<1>7. Spares(h, g, B \ (G \cup {Sentinel}))
  BY <1>1, <1>5 DEF Spares
<1>. QED BY <1>1, <1>4, <1>5, <1>6, <1>7 DEF Whole, SameSizes

(* A free block enters its list: no neighbour of it is listed.             *)
LEMMA Inserted ==
  ASSUME PoolFits, NEW h, NEW B, NEW G, NEW F, Whole(h, B, G, F), NEW b \in G, b \notin F,
         BlockNext(h, b) \notin F, \A c \in F : BlockNext(h, c) # b,
         NEW g, g = BlockInsert(h, b)
  PROVE  /\ Whole(g, B, G, F \cup {b}) /\ SameSizes(h, g, B)
         /\ Spares(h, g, B \ (G \cup {Sentinel}))
<1>1. F \subseteq G /\ G \subseteq B \ {Sentinel} /\ HeapTyped(h) /\ Tiled(h, B)
      /\ Flagged(h, B, G) /\ Linked(h, F)
  BY DEF Whole, Flagged
<1>2. F \cup {b} \subseteq B \ {Sentinel} /\ F \cup {b} \subseteq G
  BY <1>1
<1>3. Roomy(h, F \cup {b})
  BY <1>1, <1>2, RoomyIs
<1>4. HeapTyped(g) /\ OnlyLinks(h, g, F \cup {b}) /\ Linked(g, F \cup {b})
  BY <1>1, <1>3, InsertIs
<1>5. /\ Tiled(g, B) /\ Flagged(g, B, G)
      /\ Spares(h, g, B \ ((F \cup {b}) \cup {Sentinel}))
      /\ \A c \in B : SizeOf(g, c) = SizeOf(h, c) /\ BlockNext(g, c) = BlockNext(h, c)
  BY <1>1, <1>2, <1>4, LinksKeepShape
<1>6. Lonely(g, F \cup {b})
  <2>1. BlockNext(h, b) # b
    BY <1>2, BlockIs, <1>1
  <2>. QED BY <2>1, <1>2, <1>5 DEF Whole, Lonely
<1>7. Spares(h, g, B \ (G \cup {Sentinel}))
  BY <1>2, <1>5 DEF Spares
<1>. QED BY <1>2, <1>4, <1>5, <1>6, <1>7 DEF Whole, SameSizes

(* What is spared twice is spared. *)
LEMMA SparesChain ==
  ASSUME NEW h, NEW g, NEW k, NEW U, Spares(h, g, U), NEW V, Spares(g, k, V), NEW W,
         W \subseteq U, W \subseteq V
  PROVE  Spares(h, k, W)
<1>. SUFFICES ASSUME NEW u \in W
              PROVE  /\ SizeOf(k, u) = SizeOf(h, u)
                     /\ \A a \in Words : Inside(h, u, a) => k.mem[a] = h.mem[a]
  BY DEF Spares
<1>1. SizeOf(g, u) = SizeOf(h, u) /\ SizeOf(k, u) = SizeOf(g, u)
  BY DEF Spares
<1>2. \A a : Inside(h, u, a) <=> Inside(g, u, a)
  BY <1>1 DEF Inside, BlockNext
<1>3. \A a \in Words : Inside(h, u, a) => g.mem[a] = h.mem[a] /\ k.mem[a] = g.mem[a]
  BY <1>2 DEF Spares
<1>. QED BY <1>1, <1>3

(* What spares many spares some.                                           *)
LEMMA SparesSome ==
  ASSUME NEW h, NEW g, NEW U, Spares(h, g, U), NEW V, V \subseteq U
  PROVE  Spares(h, g, V)
BY DEF Spares

(* What changes nothing spares all.                                        *)
LEMMA SparesSame ==
  ASSUME NEW h, NEW U
  PROVE  Spares(h, h, U)
BY DEF Spares

(* The heap while nothing is under way: the blocks of U are used.          *)
Kept(h, U) == \E B, F : Whole(h, B, F, F) /\ U = B \ (F \cup {Sentinel})

(* The heap while b is marked free and in no list: behind it is no free    *)
(* block, and in the second case there is none before it either.           *)
Loose(h, B, F, U, b) ==
  /\ Whole(h, B, F \cup {b}, F) /\ b \notin F /\ BlockNext(h, b) \notin F
  /\ U = B \ (F \cup {b, Sentinel})
Fits(h, U, b) == \E B, F : Loose(h, B, F, U, b)
Alone(h, U, b) == \E B, F : Loose(h, B, F, U, b) /\ \A c \in F : BlockNext(h, c) # b

(* block_mark_as_used() of a block that is in no list.                     *)
LEMMA MarkedUsed ==
  ASSUME NEW h, NEW B, NEW F, NEW b, Whole(h, B, F \cup {b}, F), b \notin F,
         NEW g, g = MarkUsed(h, b)
  PROVE  /\ Whole(g, B, F, F) /\ SameSizes(h, g, B) /\ Spares(h, g, B \ {Sentinel})
<1>. DEFINE G == F \cup {b}
<1>1. /\ HeapTyped(h) /\ Tiled(h, B) /\ Flagged(h, B, G) /\ Linked(h, F) /\ Lonely(h, F)
      /\ b \in G /\ F = G \ {b}
  BY DEF Whole
<1>. HIDE DEF G
<1>2. /\ HeapTyped(g) /\ Tiled(g, B) /\ Flagged(g, B, G \ {b})
      /\ SameTables(h, g) /\ Spares(h, g, B \ {Sentinel})
      /\ KeepsSizes(h, g, B)
  BY <1>1, MarkUsedIs
<1>3. F \subseteq B \ {Sentinel}
  BY <1>1 DEF Flagged
<1>4. Spares(h, g, F)
  BY <1>2, <1>3, SparesSome
<1>5. Linked(g, F)
  BY <1>1, <1>2, <1>3, <1>4, SparesKeepsLists
<1>6. SameSizes(h, g, B)
  BY <1>2 DEF SameSizes, KeepsSizes, BlockNext
<1>7. Lonely(g, F)
  BY <1>1, <1>3, <1>6 DEF Lonely, SameSizes
<1>. QED BY <1>1, <1>2, <1>5, <1>6, <1>7 DEF Whole

(* block_mark_as_free() before the block is in a list.                     *)
LEMMA MarkedFree ==
  ASSUME NEW h, NEW B, NEW F, Whole(h, B, F, F), NEW b \in B \ {Sentinel}, b \notin F,
         NEW g, g = MarkFree(h, b)
  PROVE  /\ Whole(g, B, F \cup {b}, F) /\ SameSizes(h, g, B)
         /\ Spares(h, g, B \ {b, Sentinel})
<1>1. /\ HeapTyped(h) /\ Tiled(h, B) /\ Flagged(h, B, F) /\ Linked(h, F) /\ Lonely(h, F)
  BY DEF Whole
<1>2. /\ HeapTyped(g) /\ Tiled(g, B) /\ Flagged(g, B, F \cup {b})
      /\ SameTables(h, g) /\ Spares(h, g, B \ {b, Sentinel})
      /\ KeepsSizes(h, g, B)
  <2>1. HeapTyped(h) /\ Tiled(h, B) /\ Flagged(h, B, F)
    BY <1>1
  <2>2. HeapTyped(g) /\ Tiled(g, B) /\ Flagged(g, B, F \cup {b})
    BY <2>1, MarkFreeIs
  <2>3. SameTables(h, g) /\ Spares(h, g, B \ {b, Sentinel})
    BY <2>1, MarkFreeIs
  <2>4. KeepsSizes(h, g, B)
    BY <2>1, MarkFreeIs
  <2>. QED BY <2>2, <2>3, <2>4
<1>3. F \subseteq B \ {Sentinel} /\ F \subseteq B \ {b, Sentinel}
  BY <1>1 DEF Flagged
<1>4. Spares(h, g, F)
  BY <1>2, <1>3, SparesSome
<1>5. Linked(g, F)
  BY <1>1, <1>2, <1>3, <1>4, SparesKeepsLists
<1>6. SameSizes(h, g, B)
  BY <1>2 DEF SameSizes, KeepsSizes, BlockNext
<1>7. Lonely(g, F)
  BY <1>1, <1>3, <1>6 DEF Lonely, SameSizes
<1>. QED BY <1>2, <1>5, <1>6, <1>7 DEF Whole

(* A block that is in no list is cut. *)
LEMMA WholeCut ==
  ASSUME NEW h, NEW B, NEW G, NEW F, Whole(h, B, G, F), NEW b \in B \ {Sentinel}, b \notin F,
         NEW s, NEW r, NEW g, IsCut(h, B, G, b, s, r, g)
  PROVE  /\ Whole(g, B \cup {r}, G \cup {r}, F)
         /\ r \notin B /\ r \notin F /\ r # Sentinel
         /\ \A c \in F : BlockNext(g, c) = BlockNext(h, c) /\ BlockNext(g, c) # r
         /\ BlockNext(g, b) = r /\ BlockNext(g, r) = BlockNext(h, b)
<1>1. /\ HeapTyped(h) /\ Tiled(h, B) /\ Flagged(h, B, G) /\ Linked(h, F) /\ Lonely(h, F)
      /\ F \subseteq G /\ G \subseteq B \ {Sentinel} /\ Sentinel \in B
  BY DEF Whole, Flagged, Tiled
<1>2. /\ HeapTyped(g) /\ SameTables(h, g)
      /\ Tiled(g, B \cup {r}) /\ Flagged(g, B \cup {r}, G \cup {r})
      /\ Spares(h, g, B \ {b, Sentinel}) /\ r \notin B
      /\ BlockNext(g, b) = r /\ BlockNext(g, r) = BlockNext(h, b)
      /\ \A c \in B \ {b} : SizeOf(g, c) = SizeOf(h, c)
  BY DEF IsCut
<1>3. F \subseteq B \ {Sentinel} /\ F \subseteq B \ {b, Sentinel} /\ F \subseteq B \ {b}
  BY <1>1
<1>4. Spares(h, g, F)
  BY <1>2, <1>3, SparesSome
<1>5. Linked(g, F)
  BY <1>1, <1>2, <1>3, <1>4, SparesKeepsLists
<1>6. ASSUME NEW c \in F
      PROVE  BlockNext(g, c) = BlockNext(h, c) /\ BlockNext(h, c) \in B
  <2>1. BlockNext(g, c) = BlockNext(h, c)
    BY <1>2, <1>3 DEF BlockNext
  <2>2. BlockNext(h, c) \in B
    BY <1>1, <1>3, BlockIs
  <2>. QED BY <2>1, <2>2
<1>7. Lonely(g, F)
  BY <1>1, <1>6 DEF Lonely
<1>8. F \subseteq G \cup {r}
  BY <1>1
<1>9. Whole(g, B \cup {r}, G \cup {r}, F)
  BY <1>2, <1>5, <1>7, <1>8 DEF Whole
<1>. QED BY <1>1, <1>2, <1>3, <1>6, <1>9

(* Two free blocks that are in no list become one.                         *)
LEMMA WholeAbsorbed ==
  ASSUME NEW h, NEW B, NEW G, NEW F, Whole(h, B, G, F), NEW b \in G, b \notin F,
         NEW n \in G, n \notin F, n = BlockNext(h, b), NEW g, g = Absorb(h, b, n)
  PROVE  /\ Whole(g, B \ {n}, G \ {n}, F) /\ Spares(h, g, B \ {b, n, Sentinel})
         /\ SizeOf(g, b) = SizeOf(h, b) + SizeOf(h, n) + 4
         /\ BlockNext(g, b) = BlockNext(h, n) /\ b # n
         /\ \A c \in F : BlockNext(g, c) = BlockNext(h, c)
<1>1. /\ HeapTyped(h) /\ Tiled(h, B) /\ Flagged(h, B, G) /\ Linked(h, F) /\ Lonely(h, F)
      /\ F \subseteq G /\ G \subseteq B \ {Sentinel}
  BY DEF Whole, Flagged
<1>2. /\ HeapTyped(g) /\ Tiled(g, B \ {n}) /\ Flagged(g, B \ {n}, G \ {n})
      /\ SameTables(h, g) /\ Spares(h, g, B \ {b, n, Sentinel})
      /\ SizeOf(g, b) = SizeOf(h, b) + SizeOf(h, n) + 4
      /\ BlockNext(g, b) = BlockNext(h, n)
      /\ KeepsSizes(h, g, B \ {b, n})
  <2>1. HeapTyped(h) /\ Tiled(h, B) /\ Flagged(h, B, G)
    BY <1>1
  <2>2. HeapTyped(g) /\ Tiled(g, B \ {n}) /\ Flagged(g, B \ {n}, G \ {n})
    BY <2>1, AbsorbIs
  <2>3. SameTables(h, g) /\ Spares(h, g, B \ {b, n, Sentinel})
    BY <2>1, AbsorbIs
  <2>4. /\ SizeOf(g, b) = SizeOf(h, b) + SizeOf(h, n) + 4
        /\ BlockNext(g, b) = BlockNext(h, n)
        /\ KeepsSizes(h, g, B \ {b, n})
    <3>1. TakesIn(h, b, n, g)
      BY <2>1, AbsorbIs
    <3>2. KeepsSizes(h, g, B \ {b, n})
      BY <2>1, AbsorbIs
    <3>. QED BY <3>1, <3>2 DEF TakesIn
  <2>. QED BY <2>2, <2>3, <2>4
<1>3. /\ F \subseteq B \ {b, n, Sentinel} /\ F \subseteq B \ {Sentinel} /\ F \subseteq B \ {b, n}
      /\ F \subseteq G \ {n}
  BY <1>1
<1>4. Spares(h, g, F)
  BY <1>2, <1>3, SparesSome
<1>5. Linked(g, F)
  BY <1>1, <1>2, <1>3, <1>4, SparesKeepsLists
<1>6. \A c \in F : BlockNext(g, c) = BlockNext(h, c)
  BY <1>2, <1>3 DEF KeepsSizes, BlockNext
<1>7. Lonely(g, F)
  BY <1>1, <1>6 DEF Lonely
<1>8. b # n
  BY <1>1, BlockIs
<1>. QED BY <1>2, <1>3, <1>5, <1>6, <1>7, <1>8 DEF Whole

(* A list that holds a block has a head. *)
LEMMA ListHasHead ==
  ASSUME NEW h, NEW F, Linked(h, F), NEW b \in F, b # Null, Null \notin F
  PROVE  Head(h, Idx(h, b)) # Null
<1>1. PICK rank \in [F -> Nat] :
        \A c \in F : h.mem[c + 12] # Null => rank[h.mem[c + 12]] < rank[c]
  BY DEF Linked, Ranked
<1>. DEFINE S == {c \in F : Idx(h, c) = Idx(h, b)}
            T == {rank[c] : c \in S}
<1>2. T \subseteq Nat /\ T # {}
  OBVIOUS
<1>3. PICK t \in T : \A x \in T : t <= x
  BY <1>2, LeastMember
<1>4. PICK c \in S : t = rank[c]
  BY <1>3
<1>5. \A d \in S : rank[c] <= rank[d]
  BY <1>3, <1>4
<1>6. h.mem[c + 12] = Null
  <2>. SUFFICES ASSUME h.mem[c + 12] # Null PROVE FALSE
    OBVIOUS
  <2>1. h.mem[c + 12] \in S
    BY DEF Linked, Chained
  <2>2. rank[h.mem[c + 12]] < rank[c] /\ rank[c] <= rank[h.mem[c + 12]]
    BY <1>1, <1>5, <2>1
  <2>3. rank[h.mem[c + 12]] \in Nat /\ rank[c] \in Nat
    BY <2>1
  <2>. QED BY <2>2, <2>3
<1>7. Head(h, Idx(h, c)) = c
  BY <1>6 DEF Linked, Chained
<1>8. Idx(h, c) = Idx(h, b) /\ c # Null
  OBVIOUS
<1>. QED BY <1>7, <1>8

(* Sizes that can be searched for. *)
Searchable(s) == s \in Nat /\ s % 4 = 0 /\ s < Pow2[M + 1] /\ ~OutOfRange(s)

(* mapping_search() of a size in range.                                    *)
LEMMA SearchIs ==
  ASSUME NEW s, Searchable(s), s > 0
  PROVE  MappingSearch(s) \in Pairs /\ MappingSearch(s) = MappingInsert(Rounded(s))
         /\ Rounded(s) \in Nat /\ Rounded(s) < Pow2[M + 3]
<1>1. Rounded(s) \in Nat /\ Rounded(s) < Pow2[M + 3]
  BY RoundedIs DEF Searchable
<1>2. MappingSearch(s) = MappingInsert(Rounded(s)) /\ MappingSearch(s).fl \in Fls
  BY DEF MappingSearch, Searchable, OutOfRange
<1>3. MappingInsert(Rounded(s)) \in [fl : Nat, sl : Sls]
  BY <1>1, MappingTyped
<1>. QED BY <1>1, <1>2, <1>3 DEF Pairs

(* block_locate_free() takes a block that is large enough.                 *)
LEMMA Located ==
  ASSUME PoolFits, NEW h, NEW B, NEW F, Whole(h, B, F, F), NEW s, Searchable(s),
         NEW l, l = LocateFree(h, s), l.block # Null
  PROVE  /\ l.block \in F /\ s <= SizeOf(h, l.block) /\ s > 0
         /\ l.heap = BlockRemove(h, l.block)
<1>. DEFINE i == MappingSearch(s)
            j == Suitable(h, i)
            b == Head(h, j)
<1>1. ~(s = 0 \/ j.sl = -1)
  BY DEF LocateFree
<1>2. s > 0 /\ s \in Nat
  BY <1>1 DEF Searchable
<1>3. /\ i \in Pairs /\ i = MappingInsert(Rounded(s))
  BY <1>2, SearchIs
<1>4. /\ HeapTyped(h) /\ Tiled(h, B) /\ Linked(h, F) /\ F \subseteq B \ {Sentinel}
  BY DEF Whole, Flagged
<1>5. j \in Pairs /\ AtLeast(j, i) /\ b # Null
  BY <1>1, <1>3, <1>4, SuitableIs
<1>6. l = [block |-> b, heap |-> RemoveFreeBlock(h, b, j)]
  BY <1>1 DEF LocateFree, Head
<1>. HIDE DEF i, j
<1>7. b \in F /\ Idx(h, b) = j
  BY <1>4, <1>5 DEF Linked, Headed
<1>. HIDE DEF b
<1>8. l.heap = BlockRemove(h, b) /\ l.block = b
  BY <1>6, <1>7 DEF BlockRemove, Idx
<1>9. SizeOf(h, b) \in Nat /\ SizeOf(h, b) < Pow2[M + 3]
  <2>1. SizeOf(h, b) \in Nat /\ SizeOf(h, b) <= PoolBytes /\ PoolBytes \in Nat
    BY <1>4, <1>7, BlockIs, Addresses
  <2>2. BlockSizeMax \in Nat /\ BlockSizeMax = Pow2[M] /\ M \in Nat
    BY Scales
  <2>3. Pow2[M] <= Pow2[M + 3] /\ Pow2[M + 3] \in Nat
    BY <2>2, Pow2Grows, Pow2Facts
  <2>. QED BY <2>1, <2>2, <2>3 DEF PoolFits
<1>10. s <= SizeOf(h, b)
  <2>1. AtLeast(MappingInsert(SizeOf(h, b)), MappingInsert(Rounded(s)))
    BY <1>3, <1>5, <1>7 DEF Idx
  <2>. QED BY <2>1, <1>2, <1>9, LargeEnough DEF Searchable
<1>. QED BY <1>2, <1>7, <1>8, <1>10

(* It finds one when there is one of the rounded size.                     *)
LEMMA Refused ==
  ASSUME PoolFits, NEW h, NEW B, NEW F, Whole(h, B, F, F), NEW s, Searchable(s), s > 0,
         LocateFree(h, s).block = Null, NEW x \in F
  PROVE  SizeOf(h, x) < Rounded(s)
<1>. DEFINE i == MappingSearch(s)
            j == Suitable(h, i)
<1>1. /\ i \in Pairs /\ i = MappingInsert(Rounded(s)) /\ Rounded(s) \in Nat
  BY SearchIs
<1>2. /\ HeapTyped(h) /\ Tiled(h, B) /\ Linked(h, F) /\ F \subseteq B \ {Sentinel}
  BY DEF Whole, Flagged
<1>3. j.sl = -1
  <2>. SUFFICES ASSUME j.sl # -1 PROVE FALSE
    OBVIOUS
  <2>1. Head(h, j) # Null
    BY <1>1, <1>2, SuitableIs
  <2>2. LocateFree(h, s).block = Head(h, j)
    BY DEF LocateFree, Head
  <2>. QED BY <2>1, <2>2
<1>4. \A k \in Pairs : AtLeast(k, i) => Head(h, k) = Null
  BY <1>1, <1>2, <1>3, SuitableIs
<1>. HIDE DEF i, j
<1>5. SizeOf(h, x) \in Nat /\ SizeOf(h, x) < Pow2[M + 3]
  <2>1. SizeOf(h, x) \in Nat /\ SizeOf(h, x) <= PoolBytes /\ PoolBytes \in Nat
    BY <1>2, BlockIs, Addresses
  <2>2. BlockSizeMax \in Nat /\ BlockSizeMax = Pow2[M] /\ M \in Nat
    BY Scales
  <2>3. Pow2[M] <= Pow2[M + 3] /\ Pow2[M + 3] \in Nat
    BY <2>2, Pow2Grows, Pow2Facts
  <2>. QED BY <2>1, <2>2, <2>3 DEF PoolFits
<1>6. Roomy(h, F)
  BY <1>2, RoomyIs
<1>7. Head(h, Idx(h, x)) # Null /\ Idx(h, x) \in Pairs
  <2>1. x # Null /\ Null \notin F /\ Idx(h, x) \in Pairs
    BY <1>6 DEF Roomy
  <2>. QED BY <2>1, <1>2, ListHasHead
<1>8. ~(Rounded(s) <= SizeOf(h, x))
  <2>. SUFFICES ASSUME Rounded(s) <= SizeOf(h, x) PROVE FALSE
    OBVIOUS
  <2>1. AtLeast(Idx(h, x), i)
    BY <1>1, <1>5, MappingGrows DEF Idx
  <2>. QED BY <2>1, <1>4, <1>7
<1>. QED BY <1>1, <1>5, <1>8

(* The block found is in nobody's hands. *)
LEMMA Taken ==
  ASSUME PoolFits, NEW h, NEW U, Kept(h, U), NEW s, Searchable(s),
         NEW l, l = LocateFree(h, s), l.block # Null
  PROVE  /\ Alone(l.heap, U, l.block) /\ Spares(h, l.heap, U)
         /\ s <= SizeOf(l.heap, l.block) /\ s > 0
<1>1. PICK B, F : Whole(h, B, F, F) /\ U = B \ (F \cup {Sentinel})
  BY DEF Kept
<1>. DEFINE b == l.block
            g == l.heap
            E == F \ {b}
<1>2. b \in F /\ s <= SizeOf(h, b) /\ s > 0 /\ g = BlockRemove(h, b)
  BY <1>1, Located
<1>. HIDE DEF b, g
<1>3. Whole(g, B, F, E) /\ SameSizes(h, g, B) /\ Spares(h, g, B \ (F \cup {Sentinel}))
  BY <1>1, <1>2, Removed
<1>4. F \subseteq B \ {Sentinel} /\ Lonely(h, F)
  BY <1>1 DEF Whole, Flagged
<1>5. F = E \cup {b} /\ b \notin E
  BY <1>2
<1>6. BlockNext(g, b) \notin E /\ \A c \in E : BlockNext(g, c) # b
  BY <1>2, <1>3, <1>4 DEF Lonely, SameSizes
<1>7. U = B \ (E \cup {b, Sentinel})
  BY <1>1, <1>5
<1>8. Loose(g, B, E, U, b)
  BY <1>3, <1>5, <1>6, <1>7 DEF Loose
<1>9. Alone(g, U, b)
  BY <1>6, <1>8 DEF Alone
<1>10. s <= SizeOf(g, b)
  BY <1>2, <1>3, <1>4 DEF SameSizes
<1>. QED BY <1>1, <1>2, <1>3, <1>9, <1>10 DEF b, g

(* A block with no free one on either side fits.                           *)
LEMMA AloneFits ==
  ASSUME NEW h, NEW U, NEW b, Alone(h, U, b)
  PROVE  Fits(h, U, b)
BY DEF Alone, Fits

-----------------------------------------------------------------------------
(* What the operations make of the whole. *)

(* A block without free neighbours goes to its list.                       *)
LEMMA AloneInserted ==
  ASSUME PoolFits, NEW h, NEW U, NEW b, Alone(h, U, b), NEW g, g = BlockInsert(h, b)
  PROVE  Kept(g, U) /\ Spares(h, g, U)
<1>1. PICK B, F : Loose(h, B, F, U, b) /\ \A c \in F : BlockNext(h, c) # b
  BY DEF Alone
<1>. DEFINE G == F \cup {b}
<1>2. /\ Whole(h, B, G, F) /\ b \in G /\ b \notin F /\ BlockNext(h, b) \notin F
      /\ U = B \ (G \cup {Sentinel})
  BY <1>1 DEF Loose
<1>. HIDE DEF G
<1>3. Whole(g, B, G, F \cup {b}) /\ Spares(h, g, B \ (G \cup {Sentinel}))
  BY <1>1, <1>2, Inserted
<1>. QED BY <1>2, <1>3 DEF Kept, G

(* block_merge_next() *)
LEMMA MergedNext ==
  ASSUME PoolFits, NEW h, NEW B, NEW F, NEW b, Whole(h, B, F \cup {b}, F), b \notin F,
         \A c \in F : BlockNext(h, c) # b, NEW g, g = MergeNext(h, b),
         NEW U, U = B \ (F \cup {b, Sentinel})
  PROVE  Alone(g, U, b) /\ Spares(h, g, U)
<1>. DEFINE G == F \cup {b}
            n == BlockNext(h, b)
<1>1. /\ Whole(h, B, G, F) /\ b \in G /\ HeapTyped(h) /\ Tiled(h, B) /\ Flagged(h, B, G)
      /\ Lonely(h, F) /\ F \subseteq G /\ G \subseteq B \ {Sentinel}
  BY DEF Whole, Flagged
<1>2. n \in B /\ n # b
  BY <1>1, BlockIs
<1>3. IsFree(h, n) <=> n \in F
  BY <1>1, <1>2 DEF Flagged
<1>4. CASE ~IsFree(h, n)
  <2>1. g = h
    BY <1>4 DEF MergeNext
  <2>2. Loose(g, B, F, U, b)
    BY <2>1, <1>3, <1>4 DEF Loose
  <2>. QED BY <2>1, <2>2, SparesSame DEF Alone
<1>5. CASE IsFree(h, n)
  <2>. DEFINE h1 == BlockRemove(h, n)
              E == F \ {n}
  <2>1. n \in F
    BY <1>3, <1>5
  <2>2. Whole(h1, B, G, E) /\ SameSizes(h, h1, B) /\ Spares(h, h1, B \ (G \cup {Sentinel}))
    BY <1>1, <2>1, Removed
  <2>3. g = Absorb(h1, b, n)
    BY <1>5 DEF MergeNext
  <2>. HIDE DEF h1
  <2>4. /\ n = BlockNext(h1, b) /\ BlockNext(h1, n) = BlockNext(h, n)
        /\ \A c \in F : BlockNext(h1, c) = BlockNext(h, c)
    BY <2>2, <1>1, <1>2 DEF SameSizes
  <2>5. b \in G /\ b \notin E /\ n \in G /\ n \notin E
    BY <2>1
  <2>. HIDE DEF n, E, G
  <2>6. /\ Whole(g, B \ {n}, G \ {n}, E) /\ Spares(h1, g, B \ {b, n, Sentinel})
        /\ BlockNext(g, b) = BlockNext(h1, n)
        /\ \A c \in E : BlockNext(g, c) = BlockNext(h1, c)
    BY <2>2, <2>3, <2>4, <2>5, WholeAbsorbed
  <2>7. G \ {n} = E \cup {b} /\ U = (B \ {n}) \ (E \cup {b, Sentinel})
    BY <1>1, <1>2, <2>1 DEF G, E
  <2>8. BlockNext(g, b) \notin E
    BY <2>1, <2>4, <2>6, <1>1 DEF Lonely, E
  <2>9. \A c \in E : BlockNext(g, c) # b
    BY <2>4, <2>6 DEF E
  <2>10. Loose(g, B \ {n}, E, U, b)
    BY <2>5, <2>6, <2>7, <2>8 DEF Loose
  <2>11. Alone(g, U, b)
    BY <2>9, <2>10 DEF Alone
  <2>12. Spares(h, g, U)
    <3>1. U \subseteq B \ (G \cup {Sentinel}) /\ U \subseteq B \ {b, n, Sentinel}
      BY <2>1 DEF G
    <3>. QED BY <3>1, <2>2, <2>6, SparesChain
  <2>. QED BY <2>11, <2>12
<1>. QED BY <1>4, <1>5

(* block_merge_prev(): no free block is before the one that results.       *)
NothingBefore(h, U, b) ==
  \E B, F : /\ Whole(h, B, F \cup {b}, F) /\ b \notin F
            /\ \A c \in F : BlockNext(h, c) # b
            /\ U = B \ (F \cup {b, Sentinel})

(* block_merge_prev()                                                      *)
LEMMA MergedPrev ==
  ASSUME PoolFits, NEW h, NEW B, NEW F, NEW b, Whole(h, B, F \cup {b}, F), b \notin F,
         NEW m, m = MergePrev(h, b), NEW U, U = B \ (F \cup {b, Sentinel})
  PROVE  Spares(h, m.heap, U) /\ NothingBefore(m.heap, U, m.block)
<1>. DEFINE G == F \cup {b}
<1>1. /\ Whole(h, B, G, F) /\ b \in G /\ HeapTyped(h) /\ Tiled(h, B) /\ Flagged(h, B, G)
      /\ Lonely(h, F) /\ F \subseteq G /\ G \subseteq B \ {Sentinel} /\ b \in B \ {Sentinel}
      /\ F \subseteq B \ {Sentinel} /\ Start \in B
  BY DEF Whole, Flagged, Tiled
<1>2. CASE ~IsPrevFree(h, b)
  <2>1. m.block = b /\ m.heap = h
    BY <1>2 DEF MergePrev
  <2>2. \A c \in F : BlockNext(h, c) # b
    BY <1>1, <1>2 DEF Flagged
  <2>. QED BY <2>1, <2>2, SparesSame DEF NothingBefore
<1>3. CASE IsPrevFree(h, b)
  <2>1. b # Start
    BY <1>1, <1>3 DEF Flagged
  <2>2. PICK p \in B \ {Sentinel} : BlockNext(h, p) = b
    <3>1. b \in B \ {Start}
      BY <1>1, <2>1
    <3>. QED BY <3>1, <1>1, HasBefore
  <2>3. p \in G /\ p # b
    <3>1. p \in G
      BY <1>1, <1>3, <2>2 DEF Flagged
    <3>2. BlockNext(h, p) # p
      BY <1>1, <2>2, BlockIs
    <3>. QED BY <3>1, <3>2, <2>2
  <2>4. p \in F
    BY <2>3
  <2>5. Word(h, b) = p
    <3>1. h.mem[b] = p
      BY <1>1, <2>2, <2>3 DEF Flagged
    <3>2. b \in Words /\ DOMAIN h.mem = Words
      BY <1>1, <2>2, BlockIs DEF HeapTyped
    <3>. QED BY <3>1, <3>2 DEF Word
  <2>. DEFINE h1 == BlockRemove(h, p)
              E == F \ {p}
              g == m.heap
  <2>6. m.block = p /\ g = Absorb(h1, p, b)
    BY <1>3, <2>5 DEF MergePrev
  <2>7. Whole(h1, B, G, E) /\ SameSizes(h, h1, B) /\ Spares(h, h1, B \ (G \cup {Sentinel}))
    BY <1>1, <2>4, Removed
  <2>. HIDE DEF h1
  <2>8. /\ b = BlockNext(h1, p) /\ BlockNext(h1, b) = BlockNext(h, b)
        /\ \A c \in F : BlockNext(h1, c) = BlockNext(h, c)
    BY <2>2, <2>7, <1>1 DEF SameSizes
  <2>9. p \in G /\ p \notin E /\ b \in G /\ b \notin E
    BY <2>3
  <2>. HIDE DEF E, G, g
  <2>10. /\ Whole(g, B \ {b}, G \ {b}, E) /\ Spares(h1, g, B \ {p, b, Sentinel})
         /\ \A c \in E : BlockNext(g, c) = BlockNext(h1, c)
    BY <2>6, <2>7, <2>8, <2>9, WholeAbsorbed
  <2>11. G \ {b} = E \cup {p} /\ U = (B \ {b}) \ (E \cup {p, Sentinel})
    BY <1>1, <2>4 DEF G, E
  <2>12. \A c \in E : BlockNext(g, c) # p
    BY <1>1, <2>4, <2>8, <2>10 DEF Lonely, E
  <2>13. Spares(h, g, U)
    <3>1. U \subseteq B \ (G \cup {Sentinel}) /\ U \subseteq B \ {p, b, Sentinel}
      BY <2>4 DEF G
    <3>. QED BY <3>1, <2>7, <2>10, SparesChain
  <2>14. Whole(g, B \ {b}, E \cup {p}, E)
    BY <2>10, <2>11
  <2>15. NothingBefore(g, U, p)
    BY <2>9, <2>11, <2>12, <2>14 DEF NothingBefore
  <2>. QED BY <2>6, <2>13, <2>15 DEF g
<1>. QED BY <1>2, <1>3

(* tlsf_free() *)
LEMMA Freed ==
  ASSUME PoolFits, NEW h, NEW U, Kept(h, U), NEW b \in U, NEW p, FromPtr(p) = b,
         NEW g, g = TlsfFree(h, p)
  PROVE  Kept(g, U \ {b}) /\ Spares(h, g, U \ {b})
<1>1. PICK B, F : Whole(h, B, F, F) /\ U = B \ (F \cup {Sentinel})
  BY DEF Kept
<1>. DEFINE V == U \ {b}
            h1 == MarkFree(h, b)
            m == MergePrev(h1, b)
            h3 == MergeNext(m.heap, m.block)
<1>2. b \in B \ {Sentinel} /\ b \notin F /\ V = B \ (F \cup {b, Sentinel})
      /\ V \subseteq B \ {b, Sentinel}
  BY <1>1
<1>3. g = BlockInsert(h3, m.block)
  BY DEF TlsfFree
<1>. HIDE DEF V
<1>4. Whole(h1, B, F \cup {b}, F) /\ Spares(h, h1, B \ {b, Sentinel})
  BY <1>1, <1>2, MarkedFree
<1>. HIDE DEF h1
<1>5. Spares(h1, m.heap, V) /\ NothingBefore(m.heap, V, m.block)
  BY <1>2, <1>4, MergedPrev
<1>. HIDE DEF m
<1>6. Alone(h3, V, m.block) /\ Spares(m.heap, h3, V)
  <2>1. PICK C, E : /\ Whole(m.heap, C, E \cup {m.block}, E) /\ m.block \notin E
                    /\ \A c \in E : BlockNext(m.heap, c) # m.block
                    /\ V = C \ (E \cup {m.block, Sentinel})
    BY <1>5 DEF NothingBefore
  <2>. QED BY <2>1, MergedNext
<1>. HIDE DEF h3
<1>7. Kept(g, V) /\ Spares(h3, g, V)
  BY <1>3, <1>6, AloneInserted
<1>8. Spares(h, h1, V)
  BY <1>2, <1>4, SparesSome
<1>9. Spares(h, m.heap, V)
  BY <1>5, <1>8, SparesChain
<1>10. Spares(h, h3, V)
  BY <1>6, <1>9, SparesChain
<1>11. Spares(h, g, V)
  BY <1>7, <1>10, SparesChain
<1>. QED BY <1>7, <1>11 DEF V

(* Sizes that a block can be given. *)
Allowed(s) == s \in Nat /\ s % 4 = 0 /\ s >= 12

(* block_can_split()                                                       *)
LEMMA CutsIs ==
  ASSUME NEW h, HeapTyped(h), NEW b \in Places, NEW s, Allowed(s)
  PROVE  CanSplit(h, b, s) <=> Cuts(h, b, s)
<1>1. SizeOf(h, b) \in Nat
  BY HeaderIs
<1>. QED BY <1>1 DEF Allowed, CanSplit, Cuts, HeaderSize

(* block_prepare_used(): the rest of the block is free.                    *)
LEMMA Given ==
  ASSUME PoolFits, NEW h, NEW U, NEW b, Fits(h, U, b), NEW s, Allowed(s), s <= SizeOf(h, b),
         NEW g, g = PrepareUsed(h, b, s)
  PROVE  Kept(g, U \cup {b}) /\ b \notin U /\ s <= SizeOf(g, b) /\ Spares(h, g, U)
<1>1. PICK B, F : Loose(h, B, F, U, b)
  BY DEF Fits
<1>2. /\ Whole(h, B, F \cup {b}, F) /\ b \notin F /\ BlockNext(h, b) \notin F
      /\ U = B \ (F \cup {b, Sentinel})
  BY <1>1 DEF Loose
<1>3. /\ HeapTyped(h) /\ Tiled(h, B) /\ Flagged(h, B, F \cup {b}) /\ F \subseteq B \ {Sentinel}
      /\ b \in B \ {Sentinel} /\ b \in Places /\ BlockNext(h, b) \in B
      /\ \A c \in F : BlockNext(h, c) \in B
  <2>1. HeapTyped(h) /\ Tiled(h, B) /\ Flagged(h, B, F \cup {b})
    BY <1>2 DEF Whole
  <2>2. F \cup {b} \subseteq B \ {Sentinel}
    BY <2>1 DEF Flagged
  <2>. QED BY <2>1, <2>2, BlockIs
<1>. DEFINE t == TrimFree(h, b, s)
<1>4. g = MarkUsed(t, b)
  BY DEF PrepareUsed
<1>5. CASE ~CanSplit(h, b, s)
  <2>1. t = h
    BY <1>5 DEF TrimFree
  <2>. HIDE DEF t
  <2>2. Whole(g, B, F, F) /\ SameSizes(h, g, B) /\ Spares(h, g, B \ {Sentinel})
    BY <1>2, <1>4, <2>1, MarkedUsed
  <2>3. U \cup {b} = B \ (F \cup {Sentinel}) /\ U \subseteq B \ {Sentinel} /\ b \notin U
    BY <1>2, <1>3
  <2>4. Kept(g, U \cup {b})
    BY <2>2, <2>3 DEF Kept
  <2>5. Spares(h, g, U)
    BY <2>2, <2>3, SparesSome
  <2>. QED BY <2>2, <2>3, <2>4, <2>5, <1>3 DEF SameSizes
<1>6. CASE CanSplit(h, b, s)
  <2>. DEFINE r == Remaining(b, s)
              h1 == WithPrevFree(LinkNext(Split(h, b, s), b), r, 1)
              G == F \cup {b}
  <2>1. t = BlockInsert(h1, r) /\ r = b + 4 + s /\ Cuts(h, b, s)
    BY <1>3, <1>6, CutsIs DEF TrimFree, Remaining
  <2>. HIDE DEF t
  <2>2. b \in G /\ h1 \in {WithPrevFree(LinkNext(Split(h, b, s), b), r, 1),
                           LinkNext(WithPrevFree(Split(h, b, s), r, 1), b)}
        /\ Flagged(h, B, G)
    BY <1>3
  <2>. HIDE DEF h1, r, G
  <2>3. IsCut(h, B, G, b, s, r, h1)
    BY <1>3, <2>1, <2>2, SplitFreeIs DEF h1
  <2>4. /\ Whole(h1, B \cup {r}, G \cup {r}, F)
        /\ r \notin B /\ r \notin F /\ r # Sentinel
        /\ \A c \in F : BlockNext(h1, c) = BlockNext(h, c) /\ BlockNext(h1, c) # r
        /\ BlockNext(h1, b) = r /\ BlockNext(h1, r) = BlockNext(h, b)
    <3>1. Whole(h, B, G, F)
      BY <1>2 DEF G
    <3>. QED BY <3>1, <2>3, <1>2, <1>3, WholeCut
  <2>. DEFINE E == F \cup {r}
              C == B \cup {r}
              H == G \cup {r}
  <2>5. Whole(t, C, H, E) /\ SameSizes(h1, t, C) /\ Spares(h1, t, C \ (H \cup {Sentinel}))
    <3>1. Whole(h1, C, H, F) /\ r \in H /\ r \notin F /\ BlockNext(h1, r) \notin F
          /\ \A c \in F : BlockNext(h1, c) # r
      BY <1>2, <2>4
    <3>. HIDE DEF C, H
    <3>. QED BY <3>1, <2>1, Inserted
  <2>6. H = E \cup {b} /\ b \notin E
    BY <2>4, <1>2, <1>3 DEF G
  <2>7. Whole(g, C, E, E) /\ SameSizes(t, g, C) /\ Spares(t, g, C \ {Sentinel})
    <3>1. Whole(t, C, E \cup {b}, E)
      BY <2>5, <2>6
    <3>. HIDE DEF C, E
    <3>. QED BY <3>1, <2>6, <1>4, MarkedUsed
  <2>8. /\ U \cup {b} = C \ (E \cup {Sentinel}) /\ b \notin U
        /\ U \subseteq C \ {Sentinel} /\ U \subseteq C \ (H \cup {Sentinel})
        /\ U \subseteq B \ {b, Sentinel}
    BY <1>2, <1>3, <2>4 DEF G
  <2>9. Kept(g, U \cup {b})
    BY <2>7, <2>8 DEF Kept
  <2>10. SizeOf(h1, b) = s /\ Spares(h, h1, B \ {b, Sentinel})
    BY <2>3 DEF IsCut
  <2>11. SizeOf(g, b) = s
    <3>1. b \in C
      BY <1>3
    <3>. QED BY <3>1, <2>5, <2>7, <2>10 DEF SameSizes
  <2>12. Spares(h, g, U)
    <3>. HIDE DEF C, H
    <3>1. Spares(h, h1, U)
      BY <2>8, <2>10, SparesSome
    <3>2. Spares(h, t, U)
      BY <3>1, <2>5, <2>8, SparesChain
    <3>. QED BY <3>2, <2>7, <2>8, SparesChain
  <2>. QED BY <2>8, <2>9, <2>11, <2>12 DEF Allowed
<1>. QED BY <1>5, <1>6

(* block_trim_free_leading(): the front of the block goes to its list.     *)
LEMMA Led ==
  ASSUME PoolFits, NEW h, NEW U, NEW b, Alone(h, U, b), NEW s \in Nat, s % 4 = 0, s >= 16,
         s + 16 <= SizeOf(h, b), NEW t, t = TrimFreeLeading(h, b, s)
  PROVE  /\ t.block = b + s /\ Fits(t.heap, U, t.block) /\ Spares(h, t.heap, U)
         /\ SizeOf(t.heap, t.block) = SizeOf(h, b) - s
<1>1. PICK B, F : Loose(h, B, F, U, b) /\ \A c \in F : BlockNext(h, c) # b
  BY DEF Alone
<1>2. /\ Whole(h, B, F \cup {b}, F) /\ b \notin F /\ BlockNext(h, b) \notin F
      /\ U = B \ (F \cup {b, Sentinel})
  BY <1>1 DEF Loose
<1>3. /\ HeapTyped(h) /\ Tiled(h, B) /\ Flagged(h, B, F \cup {b}) /\ F \subseteq B \ {Sentinel}
      /\ b \in B \ {Sentinel} /\ b \in Places /\ b \in Nat
      /\ BlockNext(h, b) # b /\ SizeOf(h, b) \in Nat
  <2>1. HeapTyped(h) /\ Tiled(h, B) /\ Flagged(h, B, F \cup {b})
    BY <1>2 DEF Whole
  <2>2. F \cup {b} \subseteq B \ {Sentinel}
    BY <2>1 DEF Flagged
  <2>. QED BY <2>1, <2>2, BlockIs
<1>. DEFINE r == Remaining(b, s - 4)
            h1 == LinkNext(WithPrevFree(Split(h, b, s - 4), r, 1), b)
            G == F \cup {b}
            g == t.heap
<1>4. CanSplit(h, b, s) /\ Cuts(h, b, s - 4) /\ r = b + 4 + (s - 4) /\ r = b + s
  BY <1>3 DEF CanSplit, Cuts, HeaderSize, Remaining
<1>5. t.block = r /\ g = BlockInsert(h1, b)
  BY <1>4 DEF TrimFreeLeading
<1>6. b \in G /\ h1 \in {WithPrevFree(LinkNext(Split(h, b, s - 4), b), r, 1),
                         LinkNext(WithPrevFree(Split(h, b, s - 4), r, 1), b)}
      /\ Flagged(h, B, G)
  BY <1>3
<1>. HIDE DEF h1, r, G, g
<1>7. IsCut(h, B, G, b, s - 4, r, h1)
  <2>. DEFINE z == s - 4
  <2>1. Cuts(h, b, z) /\ r = b + 4 + z
        /\ h1 \in {WithPrevFree(LinkNext(Split(h, b, z), b), r, 1),
                   LinkNext(WithPrevFree(Split(h, b, z), r, 1), b)}
    BY <1>4, <1>6
  <2>. HIDE DEF z
  <2>2. IsCut(h, B, G, b, z, r, h1)
    BY <1>3, <1>6, <2>1, SplitFreeIs
  <2>. QED BY <2>2 DEF z
<1>8. /\ Whole(h1, B \cup {r}, G \cup {r}, F)
      /\ r \notin B /\ r \notin F /\ r # Sentinel
      /\ \A c \in F : BlockNext(h1, c) = BlockNext(h, c) /\ BlockNext(h1, c) # r
      /\ BlockNext(h1, b) = r /\ BlockNext(h1, r) = BlockNext(h, b)
  <2>1. Whole(h, B, G, F)
    BY <1>2 DEF G
  <2>. DEFINE z == s - 4
  <2>2. IsCut(h, B, G, b, z, r, h1)
    BY <1>7
  <2>. HIDE DEF z
  <2>. QED BY <2>1, <2>2, <1>2, <1>3, WholeCut
<1>. DEFINE C == B \cup {r}
            H == G \cup {r}
<1>9. Whole(g, C, H, G) /\ SameSizes(h1, g, C) /\ Spares(h1, g, C \ (H \cup {Sentinel}))
  <2>1. Whole(h1, C, H, F) /\ b \in H /\ b \notin F /\ BlockNext(h1, b) \notin F
        /\ \A c \in F : BlockNext(h1, c) # b
    BY <1>1, <1>2, <1>6, <1>8
  <2>. HIDE DEF C, H
  <2>2. Whole(g, C, H, F \cup {b}) /\ SameSizes(h1, g, C) /\ Spares(h1, g, C \ (H \cup {Sentinel}))
    BY <2>1, <1>5, Inserted
  <2>. QED BY <2>2 DEF G
<1>10. r \in C /\ BlockNext(g, r) \notin G /\ r \notin G
  <2>1. BlockNext(g, r) = BlockNext(h, b)
    BY <1>8, <1>9 DEF SameSizes
  <2>. QED BY <2>1, <1>2, <1>3, <1>8 DEF G
<1>11. U = C \ (G \cup {r, Sentinel}) /\ U \subseteq C \ (H \cup {Sentinel})
       /\ U \subseteq B \ {b, Sentinel}
  BY <1>2, <1>8 DEF G
<1>12. Loose(g, C, G, U, r)
  BY <1>9, <1>10, <1>11 DEF Loose
<1>13. Fits(g, U, r)
  BY <1>12 DEF Fits
<1>14. SizeOf(h1, r) = SizeOf(h, b) - ((s - 4) + 4) /\ Spares(h, h1, B \ {b, Sentinel})
  BY <1>7 DEF IsCut
<1>15. SizeOf(g, r) = SizeOf(h, b) - s
  <2>1. SizeOf(g, r) = SizeOf(h1, r)
    BY <1>9, <1>10 DEF SameSizes
  <2>2. (s - 4) + 4 = s
    OBVIOUS
  <2>. QED BY <2>1, <2>2, <1>14
<1>16. Spares(h, g, U)
  <2>. HIDE DEF C, H
  <2>1. Spares(h, h1, U)
    BY <1>11, <1>14, SparesSome
  <2>. QED BY <2>1, <1>9, <1>11, SparesChain
<1>. QED BY <1>4, <1>5, <1>13, <1>15, <1>16 DEF g

(* The data of b, as far as it still reaches. *)
KeepsData(h, g, b) == \A a \in Words : Inside(g, b, a) /\ Inside(h, b, a) => g.mem[a] = h.mem[a]

(* block_trim_used() *)
LEMMA Trimmed ==
  ASSUME PoolFits, NEW h, NEW U, Kept(h, U), NEW b \in U, NEW s, Allowed(s), s <= SizeOf(h, b),
         NEW g, g = TrimUsed(h, b, s)
  PROVE  /\ Kept(g, U) /\ s <= SizeOf(g, b) /\ Spares(h, g, U \ {b})
         /\ KeepsData(h, g, b)
<1>1. PICK B, F : Whole(h, B, F, F) /\ U = B \ (F \cup {Sentinel})
  BY DEF Kept
<1>2. /\ HeapTyped(h) /\ Tiled(h, B) /\ Flagged(h, B, F) /\ F \subseteq B \ {Sentinel}
      /\ b \in B \ {Sentinel} /\ b \notin F /\ b \in Places
      /\ Lonely(h, F) /\ BlockNext(h, b) \in B
  <2>1. HeapTyped(h) /\ Tiled(h, B) /\ Flagged(h, B, F) /\ Lonely(h, F)
    BY <1>1 DEF Whole
  <2>2. F \subseteq B \ {Sentinel}
    BY <2>1 DEF Flagged
  <2>. QED BY <1>1, <2>1, <2>2, BlockIs
<1>3. CASE ~CanSplit(h, b, s)
  <2>1. g = h
    BY <1>3 DEF TrimUsed
  <2>. QED BY <2>1, SparesSame DEF KeepsData
<1>4. CASE CanSplit(h, b, s)
  <2>. DEFINE r == Remaining(b, s)
              h1 == WithPrevFree(Split(h, b, s), r, 0)
              h2 == MergeNext(h1, r)
              C == B \cup {r}
              E == F \cup {r}
  <2>1. g = BlockInsert(h2, r) /\ r = b + 4 + s /\ Cuts(h, b, s)
    BY <1>2, <1>4, CutsIs DEF TrimUsed, Remaining
  <2>. HIDE DEF r, h1
  <2>2. /\ IsCut(h, B, F, b, s, r, h1)
        /\ \A a \in Words : Inside(h1, b, a) => h1.mem[a] = h.mem[a]
    BY <1>2, <2>1, SplitUsedIs DEF h1
  <2>3. /\ Whole(h1, C, E, F)
        /\ r \notin B /\ r \notin F /\ r # Sentinel
        /\ \A c \in F : BlockNext(h1, c) = BlockNext(h, c) /\ BlockNext(h1, c) # r
    BY <1>1, <1>2, <2>2, WholeCut
  <2>. HIDE DEF h2
  <2>4. U = C \ (F \cup {r, Sentinel}) /\ U \ {b} \subseteq B \ {b, Sentinel}
    BY <1>1, <2>3
  <2>5. Alone(h2, U, r) /\ Spares(h1, h2, U)
    <3>. HIDE DEF C
    <3>. QED BY <2>3, <2>4, MergedNext DEF h2, E
  <2>6. Kept(g, U) /\ Spares(h2, g, U)
    BY <2>1, <2>5, AloneInserted
  <2>7. Spares(h1, g, U)
    BY <2>5, <2>6, SparesChain
  <2>8. SizeOf(h1, b) = s /\ Spares(h, h1, B \ {b, Sentinel})
    BY <2>2 DEF IsCut
  <2>9. SizeOf(g, b) = s
    BY <2>7, <2>8 DEF Spares
  <2>10. Spares(h, g, U \ {b})
    <3>1. Spares(h, h1, U \ {b})
      BY <2>4, <2>8, SparesSome
    <3>. QED BY <3>1, <2>7, SparesChain
  <2>11. KeepsData(h, g, b)
    <3>1. \A a : Inside(g, b, a) <=> Inside(h1, b, a)
      BY <2>8, <2>9 DEF Inside, BlockNext
    <3>. QED BY <3>1, <2>2, <2>7 DEF KeepsData, Spares
  <2>. QED BY <2>6, <2>9, <2>10, <2>11 DEF Allowed
<1>. QED BY <1>3, <1>4

(* A used block takes in the free block behind it.                         *)
LEMMA Grown ==
  ASSUME PoolFits, NEW h, NEW U, Kept(h, U), NEW b \in U, IsFree(h, BlockNext(h, b)),
         NEW g, g = MarkUsed(MergeNext(h, b), b)
  PROVE  /\ Kept(g, U) /\ SizeOf(g, b) = SizeOf(h, b) + SizeOf(h, BlockNext(h, b)) + 4
         /\ Spares(h, g, U \ {b}) /\ KeepsData(h, g, b)
<1>1. PICK B, F : Whole(h, B, F, F) /\ U = B \ (F \cup {Sentinel})
  BY DEF Kept
<1>. DEFINE n == BlockNext(h, b)
            h1 == BlockRemove(h, n)
            E == F \ {n}
            C == B \ {n}
<1>2. /\ HeapTyped(h) /\ Tiled(h, B) /\ Flagged(h, B, F) /\ F \subseteq B \ {Sentinel}
      /\ b \in B \ {Sentinel} /\ b \notin F /\ b \in Places
      /\ Lonely(h, F) /\ n \in B /\ n # b
  <2>1. HeapTyped(h) /\ Tiled(h, B) /\ Flagged(h, B, F) /\ Lonely(h, F)
    BY <1>1 DEF Whole
  <2>2. F \subseteq B \ {Sentinel}
    BY <2>1 DEF Flagged
  <2>. QED BY <1>1, <2>1, <2>2, BlockIs
<1>3. n \in F
  BY <1>2 DEF Flagged
<1>4. g = MarkUsed(Absorb(h1, b, n), b)
  BY DEF MergeNext
<1>5. Whole(h1, B, F, E) /\ SameSizes(h, h1, B) /\ Spares(h, h1, B \ (F \cup {Sentinel}))
  BY <1>1, <1>3, Removed
<1>. HIDE DEF h1
<1>6. HeapTyped(h1) /\ Tiled(h1, B) /\ Flagged(h1, B, F) /\ Linked(h1, E) /\ Lonely(h1, E)
  BY <1>5 DEF Whole
<1>7. n = BlockNext(h1, b)
  BY <1>2, <1>5 DEF SameSizes
<1>. HIDE DEF n
<1>8. /\ HeapTyped(g) /\ Tiled(g, C) /\ Flagged(g, C, E)
      /\ SameTables(h1, g) /\ Spares(h1, g, B \ {b, n, Sentinel})
      /\ SizeOf(g, b) = SizeOf(h1, b) + SizeOf(h1, n) + 4
      /\ KeepsSizes(h1, g, B \ {b, n})
      /\ \A a \in Words : Inside(h1, b, a) => g.mem[a] = h1.mem[a]
  <2>1. /\ HeapTyped(h1) /\ Tiled(h1, B) /\ Flagged(h1, B, F) /\ b \in B \ {Sentinel}
        /\ b \notin F /\ n \in F /\ n = BlockNext(h1, b) /\ g = MarkUsed(Absorb(h1, b, n), b)
    BY <1>2, <1>3, <1>4, <1>6, <1>7
  <2>2. HeapTyped(g) /\ Tiled(g, C) /\ Flagged(g, C, E)
    BY <2>1, GrowUsedIs
  <2>3. SameTables(h1, g) /\ Spares(h1, g, B \ {b, n, Sentinel})
    BY <2>1, GrowUsedIs
  <2>4. KeepsSizes(h1, g, B \ {b, n})
    BY <2>1, GrowUsedIs
  <2>5. Sums(h1, b, n, g)
    BY <2>1, GrowUsedIs
  <2>6. KeepsAll(h1, g, b)
    BY <2>1, GrowUsedIs
  <2>. QED BY <2>2, <2>3, <2>4, <2>5, <2>6 DEF Sums, KeepsAll
<1>9. E \subseteq B \ {b, n, Sentinel} /\ E \subseteq B \ {Sentinel} /\ E \subseteq B \ {b, n}
  BY <1>2
<1>10. Spares(h1, g, E)
  BY <1>8, <1>9, SparesSome
<1>11. Linked(g, E)
  BY <1>6, <1>8, <1>9, <1>10, SparesKeepsLists
<1>12. Lonely(g, E)
  BY <1>6, <1>8, <1>9 DEF Lonely, KeepsSizes, BlockNext
<1>13. Whole(g, C, E, E)
  BY <1>8, <1>11, <1>12 DEF Whole
<1>14. /\ U = C \ (E \cup {Sentinel}) /\ U \ {b} \subseteq B \ (F \cup {Sentinel})
       /\ U \ {b} \subseteq B \ {b, n, Sentinel} /\ b \in B \ (F \cup {Sentinel})
  BY <1>1, <1>3
<1>15. Kept(g, U)
  <2>. HIDE DEF C, E
  <2>. QED BY <1>13, <1>14 DEF Kept
<1>16. Spares(h, g, U \ {b})
  BY <1>5, <1>8, <1>14, SparesChain
<1>17. SizeOf(g, b) = SizeOf(h, b) + SizeOf(h, n) + 4
  BY <1>2, <1>5, <1>8 DEF SameSizes
<1>18. KeepsData(h, g, b)
  <2>1. \A a : Inside(h1, b, a) <=> Inside(h, b, a)
    BY <1>2, <1>5 DEF Inside, SameSizes
  <2>2. \A a \in Words : Inside(h, b, a) => h1.mem[a] = h.mem[a]
    BY <1>5, <1>14 DEF Spares
  <2>. QED BY <2>1, <2>2, <1>8 DEF KeepsData
<1>. QED BY <1>15, <1>16, <1>17, <1>18 DEF n

(* The user writes to his block. *)
WritesInside(h, g, b) == \A a \in Words : ~Inside(h, b, a) => g.mem[a] = h.mem[a]

(* The heap stays as it is.                                                *)
LEMMA Written ==
  ASSUME NEW h, NEW U, Kept(h, U), NEW b \in U,
         NEW g, HeapTyped(g), SameTables(h, g), WritesInside(h, g, b)
  PROVE  Kept(g, U) /\ SizeOf(g, b) = SizeOf(h, b) /\ Spares(h, g, U \ {b})
<1>1. PICK B, F : Whole(h, B, F, F) /\ U = B \ (F \cup {Sentinel})
  BY DEF Kept
<1>2. /\ HeapTyped(h) /\ Tiled(h, B) /\ Flagged(h, B, F) /\ F \subseteq B \ {Sentinel}
      /\ b \in B \ {Sentinel} /\ b \notin F /\ b \in Places /\ B \subseteq Places
      /\ Lonely(h, F) /\ Linked(h, F) /\ Start \in B
  <2>1. HeapTyped(h) /\ Tiled(h, B) /\ Flagged(h, B, F) /\ Lonely(h, F) /\ Linked(h, F)
    BY <1>1 DEF Whole
  <2>2. F \subseteq B \ {Sentinel}
    BY <2>1 DEF Flagged
  <2>3. B \subseteq Places /\ Start \in B
    BY <2>1 DEF Tiled
  <2>. QED BY <1>1, <2>1, <2>2, <2>3, BlockIs
<1>3. ASSUME NEW c \in B
      PROVE  /\ c + 4 \in Words /\ g.mem[c + 4] = h.mem[c + 4]
             /\ SizeOf(g, c) = SizeOf(h, c) /\ BlockNext(g, c) = BlockNext(h, c)
             /\ IsFree(g, c) <=> IsFree(h, c)
             /\ IsPrevFree(g, c) <=> IsPrevFree(h, c)
  <2>1. c + 4 \in Words /\ c \in Places
    BY <1>2, HeaderIs
  <2>2. ~Inside(h, b, c + 4)
    BY <2>1, <1>2, InsideIs
  <2>3. g.mem[c + 4] = h.mem[c + 4]
    BY <2>1, <2>2 DEF WritesInside
  <2>. QED BY <2>1, <2>3, <1>2, SameHeader
<1>4. Tiled(g, B)
  BY <1>2, <1>3, TilesStay
<1>5. Flagged(g, B, F)
  <2>1. /\ F \subseteq B \ {Sentinel}
        /\ ~IsPrevFree(g, Start)
        /\ \A c \in B : IsFree(g, c) <=> c \in F
    BY <1>2, <1>3 DEF Flagged
  <2>2. ASSUME NEW c \in B \ {Sentinel}
        PROVE  IsPrevFree(g, BlockNext(g, c)) <=> c \in F
    <3>1. BlockNext(h, c) \in B
      BY <1>2, BlockIs
    <3>. QED BY <3>1, <1>2, <1>3 DEF Flagged
  <2>3. ASSUME NEW c \in F
        PROVE  g.mem[BlockNext(g, c)] = c
    <3>1. c \in B \ {Sentinel} /\ BlockNext(h, c) \in B /\ BlockNext(h, c) \in Words /\ c # b
      BY <1>2, BlockIs
    <3>2. ~Inside(h, b, BlockNext(h, c))
      <4>. SUFFICES ASSUME Inside(h, b, BlockNext(h, c)) PROVE FALSE
        OBVIOUS
      <4>. DEFINE a == BlockNext(h, c)
      <4>1. a \in Words /\ a \in B /\ Inside(h, b, a)
        BY <3>1
      <4>. HIDE DEF a
      <4>2. a = BlockNext(h, b)
        BY <4>1, <1>2, InsideIs
      <4>3. BlockNext(h, b) = BlockNext(h, c)
        BY <4>2 DEF a
      <4>. QED BY <4>3, <3>1, <1>2, NextOnce
    <3>. QED BY <3>1, <3>2, <1>2, <1>3 DEF Flagged, WritesInside
  <2>. QED BY <2>1, <2>2, <2>3 DEF Flagged
<1>6. Spares(h, g, B \ {b, Sentinel})
  <2>1. ASSUME NEW u \in B \ {b, Sentinel}, NEW a \in Words, Inside(h, u, a)
        PROVE  ~Inside(h, b, a)
    <3>1. u \in Nat /\ b \in Nat /\ a \in Nat /\ BlockNext(h, u) \in Nat /\ BlockNext(h, b) \in Nat
          /\ BlockNext(h, u) >= u + 16 /\ BlockNext(h, b) >= b + 16
      BY <1>2, BlockIs, WordsAre
    <3>2. /\ u < b => BlockNext(h, u) <= b
          /\ b < u => BlockNext(h, b) <= u
      BY <1>2, Distance
    <3>3. u + 8 <= a /\ a <= BlockNext(h, u)
      BY <2>1 DEF Inside
    <3>. QED BY <3>1, <3>2, <3>3 DEF Inside
  <2>. QED BY <2>1, <1>3 DEF Spares, WritesInside
<1>7. F \subseteq B \ {b, Sentinel} /\ U \ {b} \subseteq B \ {b, Sentinel}
  BY <1>1, <1>2
<1>8. Spares(h, g, F) /\ Spares(h, g, U \ {b})
  BY <1>6, <1>7, SparesSome
<1>9. Linked(g, F)
  BY <1>2, <1>8, SparesKeepsLists
<1>10. Lonely(g, F)
  BY <1>2, <1>3 DEF Lonely
<1>11. Whole(g, B, F, F)
  BY <1>4, <1>5, <1>9, <1>10 DEF Whole
<1>. QED BY <1>1, <1>2, <1>3, <1>8, <1>11 DEF Kept

-----------------------------------------------------------------------------
(* tlsf_create() *)

(* control_construct()                                                     *)
LEMMA EmptyIs ==
  /\ HeapTyped(EmptyPool) /\ Linked(EmptyPool, {})
  /\ \A a \in Words : EmptyPool.mem[a] \in Nat
<1>1. HeapTyped(EmptyPool)
  BY ArgumentAssumption DEF EmptyPool, HeapTyped
<1>2. \A i \in Pairs : Head(EmptyPool, i) = Null /\ EmptyPool.sl[i.fl] = {}
  BY DEF EmptyPool, Head, Pairs
<1>3. Chained(EmptyPool, {}) /\ Headed(EmptyPool, {})
  BY <1>2 DEF Chained, Headed
<1>4. Mapped(EmptyPool)
  BY DEF EmptyPool, Mapped
<1>5. Ranked(EmptyPool, {})
  <2>1. [x \in {} |-> 0] \in [{} -> Nat]
    OBVIOUS
  <2>. QED BY <2>1 DEF Ranked
<1>. QED BY <1>1, <1>3, <1>4, <1>5 DEF Linked, HeapTyped

(* The pool is one free block, and the sentinel.                           *)
LEMMA Created ==
  ASSUME PoolFits
  PROVE  Kept(Create, {})
<1>. DEFINE e == EmptyPool
            h1 == WithSize(e, Start, PoolBytes)
            h2 == WithFree(h1, Start, 1)
            h3 == WithPrevFree(h2, Start, 0)
            h4 == BlockInsert(h3, Start)
            h5 == LinkNext(h4, Start)
            h6 == WithSize(h5, Sentinel, 0)
            h7 == WithFree(h6, Sentinel, 0)
            h8 == WithPrevFree(h7, Sentinel, 1)
            F == {Start}
            B == {Start, Sentinel}
<1>1. Create = h8
  BY DEF Create
<1>2. /\ Start \in Nat /\ Start > 0 /\ PoolBytes \in Nat /\ PoolBytes >= 12 /\ PoolBytes % 4 = 0
      /\ Sentinel = Start + 4 + PoolBytes /\ Sentinel \in Nat /\ Sentinel >= Start + 16
      /\ Start \in Places /\ Sentinel \in Places
      /\ Start + 4 \in Words /\ Start + 8 \in Words /\ Start + 12 \in Words /\ Sentinel \in Words
      /\ Sentinel + 4 \in Words
  <2>1. /\ Start \in Nat /\ Start > 0 /\ Start % 4 = 0 /\ PoolBytes \in Nat /\ PoolBytes >= 12
        /\ PoolBytes % 4 = 0 /\ Sentinel = Start + 4 + PoolBytes /\ Sentinel \in Nat
        /\ Sentinel % 4 = 0 /\ Sentinel >= Start + 16
    BY Addresses
  <2>2. Start \in Places /\ Sentinel \in Places
    BY <2>1, PlacesAre
  <2>3. /\ Start + 4 \in Words /\ Start + 8 \in Words /\ Start + 12 \in Words /\ Sentinel \in Words
        /\ Sentinel + 4 \in Words
    BY <2>1, WordsAre
  <2>. QED BY <2>1, <2>2, <2>3
<1>3. HeapTyped(e) /\ Linked(e, {})
  BY EmptyIs
<1>. HIDE DEF e
<1>4. /\ HeapTyped(h1) /\ SameTables(e, h1)
      /\ h1.mem[Start + 4] = Fields(PoolBytes, PrevBit(e, Start), FreeBit(e, Start))
  BY <1>2, <1>3, WithSizeIs
<1>5. SizeOf(h1, Start) = PoolBytes
  <2>1. PrevBit(e, Start) \in {0, 1} /\ FreeBit(e, Start) \in {0, 1}
    BY <1>2, <1>3, HeaderIs
  <2>. HIDE DEF h1
  <2>. QED BY <2>1, <1>2, <1>4, HeaderOf
<1>. HIDE DEF h1
<1>6. /\ HeapTyped(h2) /\ SameTables(h1, h2)
      /\ h2.mem[Start + 4] = Fields(PoolBytes, PrevBit(h1, Start), 1)
  BY <1>2, <1>4, <1>5, WithFreeIs
<1>7. SizeOf(h2, Start) = PoolBytes /\ FreeBit(h2, Start) = 1
  <2>1. PrevBit(h1, Start) \in {0, 1}
    BY <1>2, <1>4, HeaderIs
  <2>. HIDE DEF h2
  <2>. QED BY <2>1, <1>2, <1>6, HeaderOf
<1>. HIDE DEF h2
<1>8. /\ HeapTyped(h3) /\ SameTables(h2, h3)
      /\ h3.mem[Start + 4] = Fields(PoolBytes, 0, 1)
  <2>1. /\ HeapTyped(h3) /\ SameTables(h2, h3)
        /\ \A a \in Words : h3.mem[a] = IF a = Start + 4
                 THEN Fields(SizeOf(h2, Start), 0, FreeBit(h2, Start)) ELSE h2.mem[a]
    BY <1>2, <1>6, WithPrevFreeIs
  <2>. QED BY <2>1, <1>2, <1>7
<1>. HIDE DEF h3
<1>9. SizeOf(h3, Start) = PoolBytes
  BY <1>2, <1>8, HeaderOf
<1>10. SameTables(e, h3)
  BY <1>4, <1>6, <1>8 DEF SameTables
<1>11. Linked(h3, {})
  BY <1>3, <1>10, LinksStay DEF SameLinks
<1>12. Roomy(h3, F)
  <2>1. Idx(h3, Start) \in Pairs
    <3>1. BlockSizeMax \in Nat /\ BlockSizeMax = Pow2[M] /\ M \in Nat
      BY Scales
    <3>2. Pow2[M] <= Pow2[M + 3] /\ Pow2[M + 3] \in Nat
      BY <3>1, Pow2Grows, Pow2Facts
    <3>3. PoolBytes < BlockSizeMax /\ PoolBytes < Pow2[M + 3]
      BY <3>1, <3>2, <1>2 DEF PoolFits
    <3>. QED BY <3>3, <1>2, <1>9, MappingTyped DEF Idx
  <2>. QED BY <2>1, <1>2 DEF Roomy, Null
<1>13. HeapTyped(h4) /\ OnlyLinks(h3, h4, F) /\ Linked(h4, F)
  <2>1. Start \notin {} /\ {} \cup {Start} = F
    OBVIOUS
  <2>. HIDE DEF F
  <2>2. HeapTyped(h4) /\ OnlyLinks(h3, h4, {} \cup {Start}) /\ Linked(h4, {} \cup {Start})
    BY <2>1, <1>8, <1>11, <1>12, InsertIs
  <2>. QED BY <2>1, <2>2
<1>. HIDE DEF h4
<1>14. h4.mem[Start + 4] = Fields(PoolBytes, 0, 1)
  BY <1>2, <1>8, <1>13 DEF OnlyLinks
<1>15. BlockNext(h4, Start) = Sentinel
  BY <1>2, <1>13, <1>14, HeaderOf
<1>16. /\ HeapTyped(h5) /\ SameTables(h4, h5)
       /\ \A a \in Words : h5.mem[a] = IF a = Sentinel THEN Start ELSE h4.mem[a]
  <2>1. BlockNext(h4, Start) \in Words
    BY <1>2, <1>15
  <2>. QED BY <2>1, <1>2, <1>13, <1>15, LinkNextIs
<1>. HIDE DEF h5
<1>17. /\ HeapTyped(h6) /\ SameTables(h5, h6)
       /\ \A a \in Words : a # Sentinel + 4 => h6.mem[a] = h5.mem[a]
       /\ h6.mem[Sentinel + 4] = Fields(0, PrevBit(h5, Sentinel), FreeBit(h5, Sentinel))
  BY <1>2, <1>16, WithSizeIs
<1>18. SizeOf(h6, Sentinel) = 0
  <2>1. PrevBit(h5, Sentinel) \in {0, 1} /\ FreeBit(h5, Sentinel) \in {0, 1}
    BY <1>2, <1>16, HeaderIs
  <2>. HIDE DEF h6
  <2>. QED BY <2>1, <1>2, <1>17, HeaderOf
<1>. HIDE DEF h6
<1>19. /\ HeapTyped(h7) /\ SameTables(h6, h7)
       /\ \A a \in Words : a # Sentinel + 4 => h7.mem[a] = h6.mem[a]
       /\ h7.mem[Sentinel + 4] = Fields(0, PrevBit(h6, Sentinel), 0)
  BY <1>2, <1>17, <1>18, WithFreeIs
<1>20. SizeOf(h7, Sentinel) = 0 /\ FreeBit(h7, Sentinel) = 0
  <2>1. PrevBit(h6, Sentinel) \in {0, 1}
    BY <1>2, <1>17, HeaderIs
  <2>. HIDE DEF h7
  <2>. QED BY <2>1, <1>2, <1>19, HeaderOf
<1>. HIDE DEF h7
<1>21. /\ HeapTyped(h8) /\ SameTables(h7, h8)
       /\ \A a \in Words : a # Sentinel + 4 => h8.mem[a] = h7.mem[a]
       /\ h8.mem[Sentinel + 4] = Fields(0, 1, 0)
  <2>1. /\ HeapTyped(h8) /\ SameTables(h7, h8)
        /\ \A a \in Words : h8.mem[a] = IF a = Sentinel + 4
                 THEN Fields(SizeOf(h7, Sentinel), 1, FreeBit(h7, Sentinel)) ELSE h7.mem[a]
    BY <1>2, <1>19, WithPrevFreeIs
  <2>. QED BY <2>1, <1>2, <1>20
<1>. HIDE DEF h8
<1>22. /\ h8.mem[Start + 4] = Fields(PoolBytes, 0, 1)
       /\ h8.mem[Start + 8] = h4.mem[Start + 8] /\ h8.mem[Start + 12] = h4.mem[Start + 12]
       /\ h8.mem[Sentinel] = Start
  <2>1. \A a \in Words : a # Sentinel + 4 => h8.mem[a] = h5.mem[a]
    BY <1>17, <1>19, <1>21
  <2>2. /\ Start + 4 # Sentinel + 4 /\ Start + 8 # Sentinel + 4 /\ Start + 12 # Sentinel + 4
        /\ Start + 4 # Sentinel /\ Start + 8 # Sentinel /\ Start + 12 # Sentinel
        /\ Sentinel # Sentinel + 4
    BY <1>2
  <2>. QED BY <2>1, <2>2, <1>2, <1>14, <1>16
<1>23. /\ SizeOf(h8, Start) = PoolBytes /\ IsFree(h8, Start) /\ ~IsPrevFree(h8, Start)
       /\ BlockNext(h8, Start) = Sentinel
  BY <1>2, <1>21, <1>22, HeaderOf
<1>24. SizeOf(h8, Sentinel) = 0 /\ ~IsFree(h8, Sentinel) /\ IsPrevFree(h8, Sentinel)
  BY <1>2, <1>21, HeaderOf
<1>25. Tiled(h8, B)
  BY <1>2, <1>23, <1>24 DEF Tiled, BlockSizeMin
<1>26. Flagged(h8, B, F)
  BY <1>2, <1>22, <1>23, <1>24 DEF Flagged
<1>27. Linked(h8, F)
  <2>1. SameTables(h4, h8)
    BY <1>16, <1>17, <1>19, <1>21 DEF SameTables
  <2>2. SizeOf(h4, Start) = PoolBytes
    BY <1>2, <1>13, <1>14, HeaderOf
  <2>3. SameLinks(h4, h8, F)
    BY <2>2, <1>22, <1>23 DEF SameLinks, Idx
  <2>. QED BY <2>1, <2>3, <1>13, LinksStay
<1>28. Lonely(h8, F)
  BY <1>2, <1>23 DEF Lonely
<1>29. Whole(h8, B, F, F)
  BY <1>21, <1>25, <1>26, <1>27, <1>28 DEF Whole
<1>30. {} = B \ (F \cup {Sentinel})
  OBVIOUS
<1>. QED BY <1>1, <1>29, <1>30 DEF Kept

-----------------------------------------------------------------------------
(* Sizes asked for, and their alignment. *)

(* align_up()                                                              *)
LEMMA AlignUpIs ==
  ASSUME NEW x \in Nat, NEW al \in Nat \ {0}
  PROVE  /\ AlignUp(x, al) \in Nat /\ x <= AlignUp(x, al) /\ AlignUp(x, al) <= x + al - 1
         /\ \E q \in Nat : AlignUp(x, al) = q * al
<1>. DEFINE q == (x + al - 1) \div al
<1>1. x + al - 1 \in Nat
  OBVIOUS
<1>2. q \in Nat /\ q * al <= x + al - 1 /\ x + al - 1 < q * al + al
  BY <1>1, Divided
<1>3. AlignUp(x, al) = q * al
  BY DEF AlignUp
<1>. HIDE DEF q
<1>4. q * al \in Nat
  BY <1>2
<1>. QED BY <1>2, <1>3, <1>4

(* A multiple of a multiple of four.                                       *)
LEMMA MultipleOfFour ==
  ASSUME NEW q \in Nat, NEW al \in Nat, al % 4 = 0
  PROVE  (q * al) % 4 = 0
<1>1. al = 4 * (al \div 4) /\ al \div 4 \in Nat
  OBVIOUS
<1>. DEFINE k == al \div 4
<1>2. al = 4 * k /\ k \in Nat
  BY <1>1
<1>. HIDE DEF k
<1>3. q * al = 4 * (q * k) /\ q * k \in Nat
  BY <1>2
<1>. QED BY <1>3

(* The power above block_size_max.                                         *)
LEMMA NextPower ==
  Pow2[M + 1] = 2 * BlockSizeMax /\ Pow2[M + 1] \in Nat
<1>1. M \in Nat /\ BlockSizeMax = Pow2[M] /\ BlockSizeMax \in Nat
  BY Scales
<1>. QED BY <1>1, Pow2Facts

(* adjust_request_size() to words *)
LEMMA Adjusted ==
  ASSUME NEW n \in Nat, n > 0, n < BlockSizeMax, NEW s, s = AdjustRequestSize(n, ALIGN_SIZE)
  PROVE  Allowed(s) /\ n <= s /\ s < Pow2[M + 1]
<1>. DEFINE u == AlignUp(n, 4)
<1>1. s = IF u < 12 THEN 12 ELSE u
  BY DEF AdjustRequestSize, ALIGN_SIZE, BlockSizeMin
<1>2. u \in Nat /\ n <= u /\ u <= n + 4 - 1 /\ u % 4 = 0
  BY AlignUpIs DEF AlignUp
<1>3. BlockSizeMax \in Nat /\ BlockSizeMax >= 16 /\ Pow2[M + 1] = 2 * BlockSizeMax
  BY Scales, NextPower
<1>. HIDE DEF u
<1>. QED BY <1>1, <1>2, <1>3 DEF Allowed

(* adjust_request_size() refuses sizes out of range.                       *)
LEMMA Unadjusted ==
  ASSUME NEW n \in Nat, ~(n > 0 /\ n < BlockSizeMax), NEW al
  PROVE  AdjustRequestSize(n, al) = 0
BY DEF AdjustRequestSize

(* The alignments are powers of two from 4 on. *)
LEMMA AlignmentIs ==
  ASSUME NEW al \in Alignments
  PROVE  al \in Nat /\ al % 4 = 0 /\ (al = 4 \/ al = 8 \/ al >= 16)
<1>1. PICK k \in 2 .. 12 : al = Pow2[k]
  BY ArgumentAssumption
<1>2. Pow2[1] = 2 /\ Pow2[2] = 4 /\ Pow2[3] = 8 /\ Pow2[4] = 16
  <2>1. Pow2[0] = 1 /\ Pow2[0 + 1] = 2 * Pow2[0] /\ Pow2[1 + 1] = 2 * Pow2[1]
        /\ Pow2[2 + 1] = 2 * Pow2[2] /\ Pow2[3 + 1] = 2 * Pow2[3]
    BY Pow2Facts
  <2>. QED BY <2>1
<1>3. al \in Nat /\ al % 4 = 0
  <2>1. k - 2 \in Nat /\ 2 + (k - 2) = k
    OBVIOUS
  <2>2. Pow2[2 + (k - 2)] = Pow2[2] * Pow2[k - 2]
    BY <2>1, Pow2Product
  <2>3. Pow2[k - 2] \in Nat
    BY <2>1, Pow2Facts
  <2>4. al = 4 * Pow2[k - 2]
    BY <1>1, <1>2, <2>1, <2>2
  <2>. QED BY <2>3, <2>4
<1>4. k = 2 \/ k = 3 \/ k >= 4
  OBVIOUS
<1>5. k >= 4 => Pow2[4] <= Pow2[k]
  BY Pow2Grows
<1>. QED BY <1>1, <1>2, <1>3, <1>4, <1>5

(* size_with_gap of tlsf_memalign() *)
LEMMA SizeWithGapIs ==
  ASSUME NEW s, Allowed(s), NEW al \in Nat, al % 4 = 0, al >= 4, NEW t, t = SizeWithGap(s, al)
  PROVE  t = 0 \/ (t \in Nat /\ t % 4 = 0 /\ t < Pow2[M + 1] /\ t >= s + al + 16)
<1>. DEFINE n == s + al + HeaderSize
            u == AlignUp(n, al)
<1>1. n \in Nat /\ n = s + al + 16 /\ n >= al + 16 /\ s \in Nat
  BY DEF Allowed, HeaderSize
<1>2. t = IF n < BlockSizeMax THEN (IF u < 12 THEN 12 ELSE u) ELSE 0
  BY <1>1 DEF SizeWithGap, AdjustRequestSize, BlockSizeMin
<1>. HIDE DEF n
<1>3. u \in Nat /\ n <= u /\ u <= n + al - 1 /\ u % 4 = 0
  <2>0. n \in Nat /\ al \in Nat \ {0}
    BY <1>1
  <2>1. u \in Nat /\ n <= u /\ u <= n + al - 1 /\ \E q \in Nat : u = q * al
    BY <2>0, AlignUpIs
  <2>2. PICK q \in Nat : u = q * al
    BY <2>1
  <2>. QED BY <2>1, <2>2, MultipleOfFour
<1>4. BlockSizeMax \in Nat /\ Pow2[M + 1] = 2 * BlockSizeMax
  BY Scales, NextPower
<1>. HIDE DEF u
<1>5. CASE n < BlockSizeMax
  <2>1. ~(u < 12) /\ t = u
    BY <1>1, <1>2, <1>3, <1>5
  <2>. QED BY <2>1, <1>1, <1>3, <1>4, <1>5
<1>6. CASE ~(n < BlockSizeMax)
  BY <1>2, <1>6
<1>. QED BY <1>5, <1>6

(* The gap leaves room for a block, and ends where it should.              *)
Leads(p, al, g) ==
  /\ g \in Nat /\ g % 4 = 0 /\ (g = 0 \/ g >= 16) /\ g <= al + 12
  /\ (p + g) % al = 0
  /\ al = 4 => g = 0

(* The gap of tlsf_memalign()                                              *)
LEMMA GapIs ==
  ASSUME NEW p \in Nat, p % 4 = 0, NEW al \in Alignments, NEW g, g = Gap(p, al)
  PROVE  Leads(p, al, g)
<1>. USE DEF Leads
<1>0. al \in Nat /\ al % 4 = 0 /\ (al = 4 \/ al = 8 \/ al >= 16)
  BY AlignmentIs
<1>. DEFINE a == AlignUp(p, al)
            o == IF 16 - (a - p) > al THEN 16 - (a - p) ELSE al
<1>1. a \in Nat /\ p <= a /\ a <= p + al - 1 /\ \E q \in Nat : a = q * al
  <2>1. al \in Nat \ {0}
    BY <1>0
  <2>. QED BY <2>1, AlignUpIs
<1>2. PICK q \in Nat : a = q * al
  BY <1>1
<1>3. a % 4 = 0
  BY <1>0, <1>2, MultipleOfFour
<1>4. g = IF a - p > 0 /\ a - p < 16 THEN AlignUp(a + o, al) - p ELSE a - p
  BY DEF Gap, HeaderSize
<1>. HIDE DEF a, o
<1>5. ASSUME NEW m \in Nat
      PROVE  (m * al) % al = 0
  <2>1. m * al = al * m + 0 /\ m * al \in Nat /\ 0 \in 0 .. al - 1 /\ al \in Nat \ {0}
    BY <1>0
  <2>. QED BY <2>1, QuotientIs
<1>6. (a - p) % 4 = 0 /\ a - p \in Nat
  BY <1>1, <1>3
<1>7. CASE ~(a - p > 0 /\ a - p < 16)
  <2>1. g = a - p
    BY <1>4, <1>7
  <2>2. p + g = q * al
    BY <2>1, <1>1, <1>2, <1>0
  <2>3. al = 4 => g = 0
    BY <2>1, <1>0, <1>1, <1>6
  <2>4. (p + g) % al = 0
    BY <2>2, <1>5
  <2>5. g \in Nat /\ g % 4 = 0 /\ (g = 0 \/ g >= 16) /\ g <= al + 12
    BY <2>1, <1>0, <1>1, <1>6, <1>7
  <2>. QED BY <2>3, <2>4, <2>5
<1>8. CASE a - p > 0 /\ a - p < 16
  <2>0. al # 4 /\ a - p <= 12
    BY <1>0, <1>1, <1>6, <1>8
  <2>1. CASE al = 8
    <3>1. a - p = 4
      BY <2>1, <1>1, <1>6, <1>8
    <3>2. o = 12
      BY <3>1, <2>1 DEF o
    <3>3. AlignUp(a + 12, 8) = a + 16
      <4>1. a = q * 8
        BY <1>2, <2>1
      <4>2. ((q * 8 + 12 + 8 - 1) \div 8) * 8 = q * 8 + 16
        OBVIOUS
      <4>. QED BY <4>1, <4>2 DEF AlignUp
    <3>4. g = a + 16 - p
      <4>1. AlignUp(a + o, al) = a + 16
        BY <2>1, <3>2, <3>3
      <4>2. g = AlignUp(a + o, al) - p
        BY <1>4, <1>8
      <4>. QED BY <4>1, <4>2, <1>1
    <3>5. p + g = (q + 2) * al
      BY <3>4, <1>1, <1>2, <2>1
    <3>6. (p + g) % al = 0
      BY <3>5, <1>5
    <3>7. g = 20
      BY <3>1, <3>4, <1>1
    <3>. QED BY <3>6, <3>7, <2>1
  <2>2. CASE al >= 16
    <3>1. o = al
      BY <2>2, <1>8, <1>1, <1>0 DEF o
    <3>2. AlignUp(a + al, al) = a + al
      <4>1. a + al + al - 1 = al * (q + 1) + (al - 1)
        BY <1>0, <1>2
      <4>2. a + al + al - 1 \in Nat /\ al \in Nat \ {0} /\ q + 1 \in Nat /\ al - 1 \in 0 .. al - 1
        BY <1>0, <1>1, <2>2
      <4>3. (a + al + al - 1) \div al = q + 1
        BY <4>1, <4>2, QuotientIs
      <4>4. (q + 1) * al = a + al
        BY <1>0, <1>2
      <4>. QED BY <4>3, <4>4 DEF AlignUp
    <3>3. g = a + al - p
      <4>1. AlignUp(a + o, al) = a + al
        BY <3>1, <3>2
      <4>2. g = AlignUp(a + o, al) - p
        BY <1>4, <1>8
      <4>. QED BY <4>1, <4>2, <1>1, <1>0
    <3>4. p + g = (q + 1) * al
      BY <3>3, <1>0, <1>1, <1>2
    <3>5. (p + g) % al = 0
      BY <3>4, <1>5
    <3>6. g \in Nat /\ g % 4 = 0 /\ g >= 16 /\ g <= al + 12
      BY <3>3, <1>0, <1>1, <1>6, <2>0, <2>2
    <3>. QED BY <3>5, <3>6, <2>2
  <2>. QED BY <2>0, <2>1, <2>2, <1>0
<1>. QED BY <1>7, <1>8

-----------------------------------------------------------------------------
(* What users hold. *)

(* A block in use lies within the pool.                                    *)
LEMMA KeptIs ==
  ASSUME NEW h, NEW U, Kept(h, U), NEW b \in U
  PROVE  /\ HeapTyped(h) /\ b \in Places /\ b \in Nat /\ b % 4 = 0 /\ b > 0
         /\ SizeOf(h, b) \in Nat /\ SizeOf(h, b) >= 12 /\ SizeOf(h, b) % 4 = 0
         /\ BlockNext(h, b) = b + 4 + SizeOf(h, b) /\ BlockNext(h, b) \in Nat
         /\ BlockNext(h, b) \in Places /\ BlockNext(h, b) <= Sentinel
<1>1. PICK B, F : Whole(h, B, F, F) /\ U = B \ (F \cup {Sentinel})
  BY DEF Kept
<1>2. HeapTyped(h) /\ Tiled(h, B) /\ b \in B \ {Sentinel}
  BY <1>1 DEF Whole
<1>3. Start \in Nat \ {0} /\ Start <= b
  BY <1>2, BlockIs, Addresses
<1>. QED BY <1>2, <1>3, BlockIs

(* A user who stores within what he asked for leaves the heap whole.       *)
LEMMA StoredIs ==
  ASSUME NEW h, NEW U, Kept(h, U), NEW b \in U, NEW m \in Nat, NEW n \in Nat, n <= SizeOf(h, b),
         NEW t \in Nat, NEW g, g = Stored(h, ToPtr(b), m, n, t)
  PROVE  Kept(g, U) /\ SizeOf(g, b) = SizeOf(h, b) /\ Spares(h, g, U \ {b})
<1>1. /\ HeapTyped(h) /\ b \in Nat /\ SizeOf(h, b) \in Nat
      /\ BlockNext(h, b) = b + 4 + SizeOf(h, b)
  BY KeptIs
<1>2. /\ HeapTyped(g) /\ SameTables(h, g)
      /\ \A a \in Words : g.mem[a] = IF a >= b + 8 + m /\ a + 4 <= b + 8 + n THEN t ELSE h.mem[a]
  BY <1>1 DEF Stored, HeapTyped, SameTables, ToPtr
<1>3. WritesInside(h, g, b)
  <2>. SUFFICES ASSUME NEW a \in Words, ~Inside(h, b, a) PROVE g.mem[a] = h.mem[a]
    BY DEF WritesInside
  <2>1. a \in Nat
    BY WordsAre
  <2>2. ~(a >= b + 8 + m /\ a + 4 <= b + 8 + n)
    BY <1>1, <2>1 DEF Inside
  <2>. QED BY <1>2, <2>2
<1>. QED BY <1>2, <1>3, Written

(* memcpy() into one block out of another. *)
LEMMA CopiedIs ==
  ASSUME NEW h, NEW U, Kept(h, U), NEW b \in U, NEW c \in U, NEW n \in Nat,
         n <= SizeOf(h, b), n <= SizeOf(h, c), NEW g, g = Copied(h, ToPtr(b), ToPtr(c), n)
  PROVE  Kept(g, U) /\ SizeOf(g, b) = SizeOf(h, b) /\ Spares(h, g, U \ {b})
<1>1. /\ HeapTyped(h) /\ b \in Nat /\ SizeOf(h, b) \in Nat /\ b % 4 = 0
      /\ BlockNext(h, b) = b + 4 + SizeOf(h, b)
  BY KeptIs
<1>2. /\ c \in Nat /\ SizeOf(h, c) \in Nat /\ c % 4 = 0 /\ c \in Places /\ BlockNext(h, c) \in Nat
      /\ BlockNext(h, c) = c + 4 + SizeOf(h, c) /\ BlockNext(h, c) <= Sentinel
  BY KeptIs
<1>3. ASSUME NEW a \in Words, a >= b + 8, a + 4 <= b + 8 + n
      PROVE  c + 8 + (a - (b + 8)) \in Words
  <2>1. a \in Nat /\ a % 4 = 0
    BY WordsAre
  <2>2. Start <= c /\ Start \in Nat /\ Sentinel \in Nat
    BY <1>2, PlacesAre, Addresses
  <2>. DEFINE x == c + 8 + (a - (b + 8))
  <2>3. x \in Nat /\ x % 4 = 0 /\ Start + 4 <= x /\ x <= Sentinel + 4
    BY <1>1, <1>2, <1>3, <2>1, <2>2
  <2>. QED BY <2>3, WordsAre
<1>4. \A a \in Words : a \in Nat
  BY WordsAre
<1>5. g = [h EXCEPT !.mem = [a \in Words |-> IF a >= b + 8 /\ a + 4 <= b + 8 + n
                                             THEN h.mem[c + 8 + (a - (b + 8))] ELSE h.mem[a]]]
  BY <1>1 DEF Copied, ToPtr, HeapTyped
<1>6. SameTables(h, g) /\ HeapTyped(g)
  BY <1>1, <1>3, <1>5 DEF HeapTyped, SameTables
<1>7. WritesInside(h, g, b)
  <2>. SUFFICES ASSUME NEW a \in Words, ~Inside(h, b, a) PROVE g.mem[a] = h.mem[a]
    BY DEF WritesInside
  <2>2. ~(a >= b + 8 /\ a + 4 <= b + 8 + n)
    BY <1>1, <1>4 DEF Inside
  <2>. QED BY <1>1, <1>5, <2>2 DEF HeapTyped
<1>. QED BY <1>6, <1>7, Written

(* The blocks of the pointers in lv are those in use, and each is what was *)
(* asked for.                                                              *)
Held(lv) == {FromPtr(p) : p \in DOMAIN lv}
Entry(e) == e \in [n : Nat, tag : Contents, al : Nat]
Serves(h, p, e) == Entry(e) /\ e.n <= SizeOf(h, FromPtr(p)) /\ p % e.al = 0

Holds(h, lv) ==
  /\ Kept(h, Held(lv)) /\ lv = [q \in DOMAIN lv |-> lv[q]]
  /\ \A p \in DOMAIN lv : p \in Nat /\ Serves(h, p, lv[p])

With(lv, p, e) == [q \in DOMAIN lv \cup {p} |-> IF q = p THEN e ELSE lv[q]]
Without(lv, p) == [q \in DOMAIN lv \ {p} |-> lv[q]]

(* A pointer stands for one block.                                         *)
LEMMA Pointers ==
  ASSUME NEW h, NEW lv, Holds(h, lv)
  PROVE  /\ \A p \in DOMAIN lv : p \in Nat /\ FromPtr(p) \in Held(lv) /\ ToPtr(FromPtr(p)) = p
         /\ \A p, q \in DOMAIN lv : FromPtr(p) = FromPtr(q) => p = q
<1>1. \A p \in DOMAIN lv : p \in Nat
  BY DEF Holds
<1>. QED BY <1>1 DEF Held, FromPtr, ToPtr

(* A user is given a block.                                                *)
LEMMA HoldsNew ==
  ASSUME NEW h, NEW lv, Holds(h, lv), NEW b, NEW U, U = Held(lv), b \notin U,
         NEW g, Kept(g, U \cup {b}), Spares(h, g, U),
         NEW e, Entry(e), e.n <= SizeOf(g, b), ToPtr(b) % e.al = 0
  PROVE  ToPtr(b) \notin DOMAIN lv /\ Holds(g, With(lv, ToPtr(b), e))
<1>. DEFINE r == ToPtr(b)
            k == With(lv, r, e)
<1>1. b \in U \cup {b} /\ b \in Nat
  <2>1. b \in U \cup {b}
    OBVIOUS
  <2>. QED BY <2>1, KeptIs
<1>2. r \in Nat /\ FromPtr(r) = b
  BY <1>1 DEF ToPtr, FromPtr
<1>3. r \notin DOMAIN lv
  BY <1>2 DEF Held
<1>4. DOMAIN k = DOMAIN lv \cup {r} /\ k[r] = e /\ \A q \in DOMAIN lv : k[q] = lv[q]
  BY <1>3 DEF With
<1>5. k = [q \in DOMAIN k |-> k[q]]
  BY DEF With
<1>. HIDE DEF k
<1>6. Held(k) = U \cup {b}
  BY <1>2, <1>4 DEF Held
<1>7. ASSUME NEW q \in DOMAIN lv
      PROVE  q \in Nat /\ Serves(g, q, k[q])
  <2>1. FromPtr(q) \in U
    BY DEF Held
  <2>2. SizeOf(g, FromPtr(q)) = SizeOf(h, FromPtr(q))
    BY <2>1 DEF Spares
  <2>. QED BY <2>2, <1>4 DEF Holds, Serves
<1>8. Serves(g, r, k[r])
  BY <1>2, <1>4 DEF Serves
<1>. QED BY <1>2, <1>3, <1>4, <1>5, <1>6, <1>7, <1>8 DEF Holds, k

(* A user's block changes.                                                 *)
LEMMA HoldsChanged ==
  ASSUME NEW h, NEW lv, Holds(h, lv), NEW p \in DOMAIN lv, NEW U, U = Held(lv),
         NEW g, Kept(g, U), Spares(h, g, U \ {FromPtr(p)}),
         NEW e, Entry(e), e.n <= SizeOf(g, FromPtr(p)), p % e.al = 0
  PROVE  Holds(g, With(lv, p, e))
<1>. DEFINE k == With(lv, p, e)
<1>4. DOMAIN k = DOMAIN lv /\ k[p] = e /\ \A q \in DOMAIN lv \ {p} : k[q] = lv[q]
  BY DEF With
<1>5. k = [q \in DOMAIN k |-> k[q]]
  BY DEF With
<1>. HIDE DEF k
<1>6. Held(k) = U
  BY <1>4 DEF Held
<1>7. ASSUME NEW q \in DOMAIN lv \ {p}
      PROVE  q \in Nat /\ Serves(g, q, k[q])
  <2>1. FromPtr(q) \in U \ {FromPtr(p)}
    BY Pointers
  <2>2. SizeOf(g, FromPtr(q)) = SizeOf(h, FromPtr(q))
    BY <2>1 DEF Spares
  <2>. QED BY <2>2, <1>4 DEF Holds, Serves
<1>8. p \in Nat /\ Serves(g, p, k[p])
  BY <1>4 DEF Serves, Holds
<1>. QED BY <1>4, <1>5, <1>6, <1>7, <1>8 DEF Holds, k

(* A user gives his block back.                                            *)
LEMMA HoldsWithout ==
  ASSUME NEW h, NEW lv, Holds(h, lv), NEW p \in DOMAIN lv, NEW U, U = Held(lv),
         NEW b, b = FromPtr(p), NEW g, Kept(g, U \ {b}), KeepsSizes(h, g, U \ {b})
  PROVE  Holds(g, Without(lv, p))
<1>. DEFINE k == Without(lv, p)
<1>4. DOMAIN k = DOMAIN lv \ {p} /\ \A q \in DOMAIN lv \ {p} : k[q] = lv[q]
  BY DEF Without
<1>5. k = [q \in DOMAIN k |-> k[q]]
  BY DEF Without
<1>. HIDE DEF k
<1>6. Held(k) = U \ {b}
  <2>1. \A q \in DOMAIN lv : FromPtr(q) = b <=> q = p
    BY Pointers
  <2>. QED BY <1>4, <2>1 DEF Held
<1>7. ASSUME NEW q \in DOMAIN lv \ {p}
      PROVE  q \in Nat /\ Serves(g, q, k[q])
  <2>1. FromPtr(q) \in U \ {b}
    BY Pointers
  <2>2. SizeOf(g, FromPtr(q)) = SizeOf(h, FromPtr(q))
    BY <2>1 DEF KeepsSizes
  <2>. QED BY <2>2, <1>4 DEF Holds, Serves
<1>. QED BY <1>4, <1>5, <1>6, <1>7 DEF Holds, k

(* What is stored at p goes over to r, as far as m bytes.                  *)
Carries(h, g, p, r, m) == \A i \in Nat : 4 * i + 4 <= m => g.mem[r + 4 * i] = h.mem[p + 4 * i]

(* The words stored lie in the block.                                      *)
LEMMA WordOf ==
  ASSUME NEW h, NEW U, Kept(h, U), NEW b \in U, NEW i \in Nat, 4 * i + 4 <= SizeOf(h, b)
  PROVE  ToPtr(b) + 4 * i \in Words /\ Inside(h, b, ToPtr(b) + 4 * i)
<1>1. /\ b \in Nat /\ SizeOf(h, b) \in Nat /\ b % 4 = 0 /\ b \in Places
      /\ BlockNext(h, b) = b + 4 + SizeOf(h, b) /\ BlockNext(h, b) <= Sentinel
  BY KeptIs
<1>2. Start <= b /\ Start \in Nat /\ Sentinel \in Nat
  BY <1>1, PlacesAre, Addresses
<1>. DEFINE a == b + 8 + 4 * i
<1>3. a \in Nat /\ a % 4 = 0 /\ Start + 4 <= a /\ a <= BlockNext(h, b) /\ a <= Sentinel + 4
  BY <1>1, <1>2
<1>4. a \in Words
  BY <1>3, WordsAre
<1>. QED BY <1>1, <1>3, <1>4 DEF Inside, ToPtr

(* What goes over twice goes over.                                         *)
LEMMA CarriesChain ==
  ASSUME NEW h, NEW g, NEW k, NEW p, NEW q, NEW r, NEW m, Carries(h, g, p, q, m),
         Carries(g, k, q, r, m)
  PROVE  Carries(h, k, p, r, m)
BY DEF Carries

(* A block that is spared keeps its data.                                  *)
LEMMA CarriesSpared ==
  ASSUME NEW h, NEW U, Kept(h, U), NEW b \in U, NEW g, NEW V, Spares(h, g, V), b \in V,
         NEW m \in Nat, m <= SizeOf(h, b)
  PROVE  Carries(h, g, ToPtr(b), ToPtr(b), m)
<1>. SUFFICES ASSUME NEW i \in Nat, 4 * i + 4 <= m
              PROVE  g.mem[ToPtr(b) + 4 * i] = h.mem[ToPtr(b) + 4 * i]
  BY DEF Carries
<1>1. 4 * i + 4 <= SizeOf(h, b)
  BY KeptIs
<1>2. ToPtr(b) + 4 * i \in Words /\ Inside(h, b, ToPtr(b) + 4 * i)
  BY <1>1, WordOf
<1>. QED BY <1>2 DEF Spares

(* So does one that grows or shrinks.                                      *)
LEMMA CarriesKept ==
  ASSUME NEW h, NEW U, Kept(h, U), NEW b \in U, NEW g, Kept(g, U), KeepsData(h, g, b),
         NEW m \in Nat, m <= SizeOf(h, b), m <= SizeOf(g, b)
  PROVE  Carries(h, g, ToPtr(b), ToPtr(b), m)
<1>. SUFFICES ASSUME NEW i \in Nat, 4 * i + 4 <= m
              PROVE  g.mem[ToPtr(b) + 4 * i] = h.mem[ToPtr(b) + 4 * i]
  BY DEF Carries
<1>0. SizeOf(h, b) \in Nat /\ SizeOf(g, b) \in Nat
  BY KeptIs
<1>1. 4 * i + 4 <= SizeOf(h, b) /\ 4 * i + 4 <= SizeOf(g, b)
  BY <1>0
<1>2. ToPtr(b) + 4 * i \in Words /\ Inside(h, b, ToPtr(b) + 4 * i)
  BY <1>1, WordOf
<1>3. Inside(g, b, ToPtr(b) + 4 * i)
  BY <1>1, WordOf
<1>. QED BY <1>2, <1>3 DEF KeepsData

(* A store leaves what is in front of it.                                  *)
LEMMA CarriesStored ==
  ASSUME NEW h, NEW U, Kept(h, U), NEW b \in U, NEW k \in Nat, NEW n \in Nat,
         NEW t, NEW g, g = Stored(h, ToPtr(b), k, n, t),
         NEW m \in Nat, m <= SizeOf(h, b), m <= k
  PROVE  Carries(h, g, ToPtr(b), ToPtr(b), m)
<1>. SUFFICES ASSUME NEW i \in Nat, 4 * i + 4 <= m
              PROVE  g.mem[ToPtr(b) + 4 * i] = h.mem[ToPtr(b) + 4 * i]
  BY DEF Carries
<1>0. SizeOf(h, b) \in Nat /\ b \in Nat /\ HeapTyped(h)
  BY KeptIs
<1>1. 4 * i + 4 <= SizeOf(h, b)
  BY <1>0
<1>. DEFINE a == ToPtr(b) + 4 * i
<1>2. a \in Words
  BY <1>1, WordOf
<1>3. ~(a >= ToPtr(b) + k)
  BY <1>0 DEF ToPtr
<1>. HIDE DEF a
<1>4. g.mem[a] = h.mem[a]
  BY <1>0, <1>2, <1>3 DEF Stored, HeapTyped
<1>. QED BY <1>4 DEF a

(* memcpy() carries over.                                                  *)
LEMMA CarriesCopied ==
  ASSUME NEW h, NEW U, Kept(h, U), NEW b \in U, NEW c \in U, NEW n \in Nat,
         n <= SizeOf(h, b), NEW g, g = Copied(h, ToPtr(b), ToPtr(c), n),
         NEW m \in Nat, m <= n
  PROVE  Carries(h, g, ToPtr(c), ToPtr(b), m)
<1>. SUFFICES ASSUME NEW i \in Nat, 4 * i + 4 <= m
              PROVE  g.mem[ToPtr(b) + 4 * i] = h.mem[ToPtr(c) + 4 * i]
  BY DEF Carries
<1>0. SizeOf(h, b) \in Nat /\ b \in Nat /\ HeapTyped(h) /\ c \in Nat
  BY KeptIs
<1>1. 4 * i + 4 <= SizeOf(h, b)
  BY <1>0
<1>. DEFINE a == ToPtr(b) + 4 * i
<1>2. a \in Words
  BY <1>1, WordOf
<1>3. /\ a >= ToPtr(b) /\ a + 4 <= ToPtr(b) + n
      /\ ToPtr(c) + (a - ToPtr(b)) = ToPtr(c) + 4 * i
  BY <1>0 DEF ToPtr
<1>. HIDE DEF a
<1>4. g.mem[a] = h.mem[ToPtr(c) + (a - ToPtr(b))]
  BY <1>0, <1>2, <1>3 DEF Copied, HeapTyped
<1>. QED BY <1>3, <1>4 DEF a

-----------------------------------------------------------------------------
(* The calls.  What each does to what users hold and have stored.          *)

Allocates(h, lv, g, lv2, r) ==
  /\ r \notin DOMAIN lv /\ \E e : lv2 = With(lv, r, e)
  /\ Spares(h, g, Held(lv)) /\ Holds(g, lv2)

Releases(h, lv, g, lv2, p) ==
  p \in DOMAIN lv /\ lv2 = Without(lv, p) /\ Spares(h, g, Held(lv) \ {FromPtr(p)}) /\ Holds(g, lv2)

Resized(h, lv, g, lv2, p, r) ==
  /\ p \in DOMAIN lv /\ r \in DOMAIN lv2
  /\ DOMAIN lv2 = (DOMAIN lv \ {p}) \cup {r} /\ \A q \in DOMAIN lv \ {p} : lv2[q] = lv[q] /\ q # r
  /\ \A m \in Nat : m <= lv[p].n /\ m <= lv2[r].n => Carries(h, g, p, r, m)
  /\ Spares(h, g, Held(lv) \ {FromPtr(p)}) /\ Holds(g, lv2)

(* The arguments of realloc() and memalign() are sizes that they serve.    *)
RequestsFit == Resizes \subseteq 0 .. BlockSizeMax - 1 /\ AlignedRequests \subseteq 1 .. BlockSizeMax - 1

(* A size asked of malloc() or realloc(), adjusted.                        *)
LEMMA WordSize ==
  ASSUME NEW n \in Nat, NEW s, s = AdjustRequestSize(n, ALIGN_SIZE), ~OutOfRange(s)
  PROVE  Searchable(s) /\ (s > 0 => Allowed(s) /\ n <= s)
<1>1. CASE n > 0 /\ n < BlockSizeMax
  BY <1>1, Adjusted DEF Searchable, Allowed
<1>2. CASE ~(n > 0 /\ n < BlockSizeMax)
  <2>1. s = 0
    BY <1>2, Unadjusted
  <2>2. Pow2[M + 1] \in Nat /\ Pow2[M + 1] > 0
    BY NextPower, Scales
  <2>. QED BY <2>1, <2>2 DEF Searchable
<1>. QED BY <1>1, <1>2

(* A size asked of memalign(), adjusted.                                   *)
LEMMA GapSize ==
  ASSUME RequestsFit, NEW n \in AlignedRequests, NEW al \in Alignments,
         NEW t, t = AlignedSize(n, al), ~OutOfRange(t),
         NEW s, s = AdjustRequestSize(n, ALIGN_SIZE)
  PROVE  /\ Searchable(t) /\ Allowed(s) /\ n <= s
         /\ t = 0 \/ (al = 4 /\ t = s) \/ (al > 4 /\ t >= s + al + 16)
<1>1. BlockSizeMax \in Nat
  BY Scales
<1>2. n \in Nat /\ n > 0 /\ n < BlockSizeMax
  BY <1>1 DEF RequestsFit
<1>3. Allowed(s) /\ n <= s /\ s < Pow2[M + 1]
  BY <1>2, Adjusted
<1>4. al \in Nat /\ al % 4 = 0 /\ al >= 4
  BY AlignmentIs
<1>5. CASE al = 4
  <2>1. t = s
    BY <1>5 DEF AlignedSize, ALIGN_SIZE
  <2>. QED BY <2>1, <1>3, <1>5 DEF Searchable, Allowed
<1>6. CASE al # 4
  <2>1. t = SizeWithGap(s, al) /\ al > 4
    BY <1>4, <1>6 DEF AlignedSize, ALIGN_SIZE
  <2>2. t = 0 \/ (t \in Nat /\ t % 4 = 0 /\ t < Pow2[M + 1] /\ t >= s + al + 16)
    BY <1>3, <1>4, <2>1, SizeWithGapIs
  <2>3. Pow2[M + 1] \in Nat /\ Pow2[M + 1] > 0
    BY NextPower, Scales
  <2>. QED BY <1>3, <2>1, <2>2, <2>3 DEF Searchable
<1>. QED BY <1>5, <1>6

(* block_prepare_used(), and what the user stores then.                    *)
LEMMA GivenOut ==
  ASSUME PoolFits, NEW h, NEW lv, Holds(h, lv), NEW U, U = Held(lv), NEW k, NEW b, Fits(k, U, b),
         Spares(h, k, U), NEW s, Allowed(s), s <= SizeOf(k, b), NEW n \in Nat, n <= s,
         NEW t \in Contents, NEW al \in Nat, ToPtr(b) % al = 0,
         NEW g, g = Stored(PrepareUsed(k, b, s), ToPtr(b), 0, n, t)
  PROVE  Allocates(h, lv, g, With(lv, ToPtr(b), [n |-> n, tag |-> t, al |-> al]), ToPtr(b))
<1>. DEFINE f == PrepareUsed(k, b, s)
            e == [n |-> n, tag |-> t, al |-> al]
<1>1. Kept(f, U \cup {b}) /\ b \notin U /\ s <= SizeOf(f, b) /\ Spares(k, f, U)
  BY Given
<1>2. SizeOf(f, b) \in Nat /\ s \in Nat
  BY <1>1, KeptIs DEF Allowed
<1>3. n <= SizeOf(f, b) /\ t \in Nat
  BY <1>1, <1>2, ArgumentAssumption DEF Contents
<1>. HIDE DEF f
<1>4. Kept(g, U \cup {b}) /\ SizeOf(g, b) = SizeOf(f, b) /\ Spares(f, g, (U \cup {b}) \ {b})
  <2>1. Kept(f, U \cup {b}) /\ b \in U \cup {b} /\ g = Stored(f, ToPtr(b), 0, n, t) /\ 0 \in Nat
    BY <1>1 DEF f
  <2>. QED BY <2>1, <1>3, StoredIs
<1>5. (U \cup {b}) \ {b} = U
  BY <1>1
<1>6. Spares(h, f, U)
  BY <1>1, SparesChain
<1>7. Spares(h, g, U)
  <2>1. Spares(f, g, U)
    BY <1>4, <1>5
  <2>. QED BY <1>6, <2>1, SparesChain
<1>8. Entry(e) /\ e.n <= SizeOf(g, b) /\ ToPtr(b) % e.al = 0
  BY <1>3, <1>4 DEF Entry
<1>. HIDE DEF e
<1>9. ToPtr(b) \notin DOMAIN lv /\ Holds(g, With(lv, ToPtr(b), e))
  BY <1>1, <1>4, <1>7, <1>8, HoldsNew
<1>10. Spares(h, g, Held(lv))
  BY <1>7
<1>. QED BY <1>9, <1>10 DEF Allocates, e

(* malloc() gives a block.                                                 *)
LEMMA MallocStep ==
  ASSUME PoolFits, Holds(heap, live), NEW n \in Nat, NEW t \in Contents, Malloc(n, t)
  PROVE  \E r : Allocates(heap, live, heap', live', r)
<1>. DEFINE s == AdjustRequestSize(AtLeastOne(n), ALIGN_SIZE)
            l == LocateFree(heap, s)
            b == l.block
            U == Held(live)
            e == [n |-> n, tag |-> t, al |-> ALIGN_SIZE]
<1>1. /\ ~OutOfRange(s) /\ b # Null
      /\ heap' = Stored(PrepareUsed(l.heap, b, s), ToPtr(b), 0, n, t)
      /\ live' = With(live, ToPtr(b), e)
  BY DEF Malloc, Handed, With
<1>2. n \in Nat /\ AtLeastOne(n) \in Nat /\ n <= AtLeastOne(n)
  BY DEF AtLeastOne
<1>3. Searchable(s) /\ (s > 0 => Allowed(s) /\ AtLeastOne(n) <= s)
  BY <1>1, <1>2, WordSize
<1>. HIDE DEF s
<1>4. Kept(heap, U)
  BY DEF Holds
<1>5. Alone(l.heap, U, b) /\ Spares(heap, l.heap, U) /\ s <= SizeOf(l.heap, b) /\ s > 0
  BY <1>1, <1>3, <1>4, Taken
<1>. HIDE DEF l
<1>6. Fits(l.heap, U, b)
  BY <1>5, AloneFits
<1>7. Allowed(s) /\ n <= s
  BY <1>2, <1>3, <1>5 DEF Searchable
<1>8. Kept(PrepareUsed(l.heap, b, s), U \cup {b})
  BY <1>5, <1>6, <1>7, Given
<1>9. ToPtr(b) % ALIGN_SIZE = 0 /\ ALIGN_SIZE \in Nat
  <2>1. b \in U \cup {b}
    OBVIOUS
  <2>2. b \in Nat /\ b % 4 = 0
    BY <1>8, <2>1, KeptIs
  <2>. QED BY <2>2 DEF ToPtr, ALIGN_SIZE
<1>10. Allocates(heap, live, heap', With(live, ToPtr(b), e), ToPtr(b))
  <2>. HIDE DEF b, U
  <2>1. U = Held(live)
    BY DEF U
  <2>. QED BY <1>1, <1>2, <1>5, <1>6, <1>7, <1>9, <2>1, GivenOut
<1>. QED BY <1>1, <1>10

(* free() takes one back.                                                  *)
LEMMA FreeStep ==
  ASSUME PoolFits, Holds(heap, live), NEW p \in DOMAIN live, Free(p)
  PROVE  Releases(heap, live, heap', live', p)
<1>. DEFINE b == FromPtr(p)
            U == Held(live)
<1>1. heap' = TlsfFree(heap, p) /\ live' = Without(live, p)
  BY DEF Free, Without
<1>2. Kept(heap, U) /\ b \in U
  BY DEF Holds, Held
<1>3. Kept(heap', U \ {b}) /\ Spares(heap, heap', U \ {b})
  BY <1>1, <1>2, Freed
<1>4. Holds(heap', Without(live, p))
  <2>1. KeepsSizes(heap, heap', U \ {b})
    BY <1>3 DEF Spares, KeepsSizes
  <2>. QED BY <1>3, <2>1, HoldsWithout
<1>. QED BY <1>1, <1>3, <1>4 DEF Releases

(* The block itself becomes what is asked for.                             *)
LEMMA ReallocInPlaceStep ==
  ASSUME PoolFits, RequestsFit, Holds(heap, live), NEW p \in DOMAIN live, NEW n \in Resizes,
         ReallocInPlace(p, n)
  PROVE  Resized(heap, live, heap', live', p, p)
<1>. DEFINE s == AdjustRequestSize(n, ALIGN_SIZE)
            b == FromPtr(p)
            U == Held(live)
            grown == IF s > SizeOf(heap, b) THEN MarkUsed(MergeNext(heap, b), b) ELSE heap
            trimmed == TrimUsed(grown, b, s)
            e == [n |-> n, tag |-> live[p].tag, al |-> live[p].al]
<1>1. /\ n > 0 /\ ~NeedsMove(p, s)
      /\ heap' = Stored(trimmed, p, live[p].n, n, live[p].tag)
      /\ live' = With(live, p, e)
  BY DEF ReallocInPlace, Handed, With
<1>2. BlockSizeMax \in Nat
  BY Scales
<1>3. n \in Nat /\ n < BlockSizeMax
  BY <1>2 DEF RequestsFit
<1>4. Allowed(s) /\ n <= s /\ s \in Nat
  BY <1>1, <1>3, Adjusted DEF Allowed
<1>5. Kept(heap, U) /\ b \in U /\ p = ToPtr(b) /\ p \in Nat
  BY Pointers DEF Holds
<1>6. /\ SizeOf(heap, b) \in Nat /\ live[p].n \in Nat /\ live[p].n <= SizeOf(heap, b)
      /\ live[p].tag \in Contents /\ live[p].tag \in Nat /\ live[p].al \in Nat /\ p % live[p].al = 0
  <2>1. Serves(heap, p, live[p])
    BY DEF Holds
  <2>2. live[p] \in [n : Nat, tag : Contents, al : Nat]
    BY <2>1 DEF Serves, Entry
  <2>3. Contents \subseteq Nat
    BY ArgumentAssumption DEF Contents
  <2>. QED BY <2>1, <2>2, <2>3, <1>5, KeptIs DEF Serves
<1>7. /\ Kept(grown, U) /\ Spares(heap, grown, U \ {b}) /\ s <= SizeOf(grown, b)
      /\ SizeOf(heap, b) <= SizeOf(grown, b) /\ SizeOf(grown, b) \in Nat
      /\ KeepsData(heap, grown, b)
  <2>1. CASE ~(s > SizeOf(heap, b))
    <3>1. grown = heap /\ s <= SizeOf(heap, b)
      BY <2>1, <1>4, <1>6
    <3>2. KeepsData(heap, heap, b) /\ Spares(heap, heap, U \ {b})
      BY SparesSame DEF KeepsData
    <3>. QED BY <3>1, <3>2, <1>5, <1>6
  <2>2. CASE s > SizeOf(heap, b)
    <3>. DEFINE z == BlockNext(heap, b)
    <3>1. IsFree(heap, z) /\ ~(s > SizeOf(heap, b) + SizeOf(heap, z) + 4)
      BY <2>2, <1>1 DEF NeedsMove
    <3>2. grown = MarkUsed(MergeNext(heap, b), b)
      BY <2>2
    <3>. HIDE DEF grown
    <3>3. /\ Kept(grown, U) /\ SizeOf(grown, b) = SizeOf(heap, b) + SizeOf(heap, z) + 4
          /\ Spares(heap, grown, U \ {b}) /\ KeepsData(heap, grown, b)
      BY <3>1, <3>2, <1>5, Grown
    <3>4. SizeOf(heap, z) \in Nat
      BY <1>5, KeptIs, HeaderIs
    <3>. QED BY <3>1, <3>3, <3>4, <1>4, <1>6
  <2>. QED BY <2>1, <2>2
<1>. HIDE DEF grown
<1>8. /\ Kept(trimmed, U) /\ s <= SizeOf(trimmed, b) /\ Spares(grown, trimmed, U \ {b})
      /\ KeepsData(grown, trimmed, b) /\ SizeOf(trimmed, b) \in Nat
  <2>1. /\ Kept(trimmed, U) /\ s <= SizeOf(trimmed, b) /\ Spares(grown, trimmed, U \ {b})
        /\ KeepsData(grown, trimmed, b)
    BY <1>4, <1>5, <1>7, Trimmed
  <2>. QED BY <2>1, <1>5, KeptIs
<1>9. n <= SizeOf(trimmed, b)
  BY <1>3, <1>4, <1>8
<1>. HIDE DEF trimmed, s
<1>10. /\ Kept(heap', U) /\ SizeOf(heap', b) = SizeOf(trimmed, b)
       /\ Spares(trimmed, heap', U \ {b})
  BY <1>1, <1>3, <1>5, <1>6, <1>8, <1>9, StoredIs
<1>11. Spares(heap, heap', U \ {b})
  <2>1. Spares(heap, trimmed, U \ {b})
    BY <1>7, <1>8, SparesChain
  <2>. QED BY <2>1, <1>10, SparesChain
<1>12. Entry(e) /\ e.n <= SizeOf(heap', b) /\ p % e.al = 0
  BY <1>3, <1>6, <1>9, <1>10 DEF Entry
<1>13. Holds(heap', With(live, p, e))
  <2>. HIDE DEF e
  <2>. QED BY <1>10, <1>11, <1>12, HoldsChanged
<1>14. DOMAIN live' = DOMAIN live /\ live'[p] = e /\ \A q \in DOMAIN live \ {p} : live'[q] = live[q]
  BY <1>1 DEF With
<1>15. ASSUME NEW m \in Nat, m <= live[p].n, m <= n
       PROVE  Carries(heap, heap', p, p, m)
  <2>1. m <= SizeOf(heap, b) /\ m <= SizeOf(grown, b) /\ m <= SizeOf(trimmed, b)
    BY <1>15, <1>3, <1>6, <1>7, <1>8, <1>9
  <2>2. Carries(heap, grown, p, p, m)
    BY <2>1, <1>5, <1>7, CarriesKept
  <2>3. Carries(grown, trimmed, p, p, m)
    BY <2>1, <1>5, <1>7, <1>8, CarriesKept
  <2>4. Carries(trimmed, heap', p, p, m)
    BY <2>1, <1>1, <1>3, <1>5, <1>6, <1>8, <1>15, CarriesStored
  <2>5. Carries(heap, trimmed, p, p, m)
    BY <2>2, <2>3, CarriesChain
  <2>. QED BY <2>4, <2>5, CarriesChain
<1>16. live'[p].n = n
  BY <1>14
<1>17. \A q \in DOMAIN live \ {p} : live'[q] = live[q] /\ q # p
  BY <1>14
<1>18. \A m \in Nat : m <= live[p].n /\ m <= live'[p].n => Carries(heap, heap', p, p, m)
  BY <1>15, <1>16
<1>19. /\ DOMAIN live' = (DOMAIN live \ {p}) \cup {p} /\ p \in DOMAIN live'
       /\ Holds(heap', live') /\ Spares(heap, heap', Held(live) \ {FromPtr(p)})
  BY <1>1, <1>11, <1>13, <1>14
<1>. QED BY <1>17, <1>18, <1>19 DEF Resized

(* A new block is taken, what fits of the old one copied, the old one freed. *)
LEMMA ReallocMovesStep ==
  ASSUME PoolFits, RequestsFit, Holds(heap, live), NEW p \in DOMAIN live, NEW n \in Resizes,
         ReallocMoves(p, n)
  PROVE  \E r : Resized(heap, live, heap', live', p, r)
<1>. DEFINE s == AdjustRequestSize(n, ALIGN_SIZE)
            l == LocateFree(heap, s)
            b == l.block
            c == FromPtr(p)
            r == ToPtr(b)
            U == Held(live)
            V == U \cup {b}
            size == Smaller(SizeOf(heap, c), n)
            used == PrepareUsed(l.heap, b, s)
            given == Copied(used, r, p, size)
            freed == TlsfFree(given, p)
            e == [n |-> n, tag |-> live[p].tag, al |-> ALIGN_SIZE]
<1>1. /\ n > 0 /\ ~OutOfRange(s) /\ b # Null
      /\ heap' = Stored(freed, r, live[p].n, n, live[p].tag)
      /\ live' = [q \in (DOMAIN live \ {p}) \cup {r} |-> IF q = r THEN e ELSE live[q]]
  BY DEF ReallocMoves
<1>2. BlockSizeMax \in Nat
  BY Scales
<1>3. n \in Nat /\ n < BlockSizeMax
  BY <1>2 DEF RequestsFit
<1>4. Allowed(s) /\ n <= s /\ s \in Nat
  BY <1>1, <1>3, Adjusted DEF Allowed
<1>5. Kept(heap, U) /\ c \in U /\ p = ToPtr(c) /\ p \in Nat
  BY Pointers DEF Holds
<1>6. /\ SizeOf(heap, c) \in Nat /\ live[p].n \in Nat /\ live[p].n <= SizeOf(heap, c)
      /\ live[p].tag \in Contents /\ live[p].tag \in Nat
  <2>1. Serves(heap, p, live[p])
    BY DEF Holds
  <2>2. live[p] \in [n : Nat, tag : Contents, al : Nat]
    BY <2>1 DEF Serves, Entry
  <2>3. Contents \subseteq Nat
    BY ArgumentAssumption DEF Contents
  <2>. QED BY <2>1, <2>2, <2>3, <1>5, KeptIs DEF Serves
<1>7. Searchable(s)
  BY <1>1, <1>3, WordSize
<1>. HIDE DEF s
<1>8. Alone(l.heap, U, b) /\ Spares(heap, l.heap, U) /\ s <= SizeOf(l.heap, b)
  BY <1>1, <1>5, <1>7, Taken
<1>. HIDE DEF l
<1>9. Fits(l.heap, U, b)
  BY <1>8, AloneFits
<1>. HIDE DEF b
<1>10. Kept(used, V) /\ b \notin U /\ s <= SizeOf(used, b) /\ Spares(l.heap, used, U)
  BY <1>4, <1>8, <1>9, Given
<1>. HIDE DEF used
<1>11. Spares(heap, used, U)
  BY <1>8, <1>10, SparesChain
<1>12. c \in V /\ b \in V /\ V \ {b} = U /\ V \ {c} = (U \ {c}) \cup {b} /\ b # c
  BY <1>5, <1>10
<1>. HIDE DEF V
<1>13. /\ size \in Nat /\ size <= n /\ size <= SizeOf(used, c) /\ size <= SizeOf(used, b)
       /\ n <= SizeOf(used, b) /\ SizeOf(used, c) = SizeOf(heap, c) /\ SizeOf(used, b) \in Nat
  <2>1. SizeOf(used, c) = SizeOf(heap, c)
    BY <1>5, <1>11 DEF Spares
  <2>2. SizeOf(used, b) \in Nat
    BY <1>10, <1>12, KeptIs
  <2>. QED BY <2>1, <2>2, <1>3, <1>4, <1>6, <1>10 DEF Smaller
<1>14. \A m \in Nat : m <= live[p].n /\ m <= n => m <= size /\ m <= SizeOf(heap, c)
  BY <1>3, <1>6 DEF Smaller
<1>. HIDE DEF size
<1>15. Kept(given, V) /\ SizeOf(given, b) = SizeOf(used, b) /\ Spares(used, given, U)
  BY <1>5, <1>10, <1>12, <1>13, CopiedIs
<1>16. ASSUME NEW m \in Nat, m <= size
       PROVE  Carries(used, given, p, r, m)
  BY <1>16, <1>5, <1>10, <1>12, <1>13, CarriesCopied
<1>. HIDE DEF given
<1>17. Kept(freed, V \ {c}) /\ Spares(given, freed, V \ {c})
  BY <1>12, <1>15, Freed
<1>. HIDE DEF freed
<1>18. b \in V \ {c}
  BY <1>12
<1>19. SizeOf(freed, b) = SizeOf(given, b)
  BY <1>17, <1>18 DEF Spares
<1>20. Kept(heap', V \ {c}) /\ SizeOf(heap', b) = SizeOf(freed, b) /\ Spares(freed, heap', U \ {c})
  <2>1. n <= SizeOf(freed, b)
    BY <1>13, <1>15, <1>19
  <2>2. (V \ {c}) \ {b} = U \ {c}
    BY <1>10, <1>12
  <2>. DEFINE W == V \ {c}
  <2>3. Kept(freed, W) /\ b \in W
    BY <1>17, <1>18
  <2>4. W \ {b} = U \ {c}
    BY <2>2
  <2>5. /\ live[p].n \in Nat /\ live[p].tag \in Nat
        /\ heap' = Stored(freed, ToPtr(b), live[p].n, n, live[p].tag)
    BY <1>1, <1>6
  <2>. HIDE DEF W, U
  <2>6. Kept(heap', W) /\ SizeOf(heap', b) = SizeOf(freed, b) /\ Spares(freed, heap', W \ {b})
    <3>. DEFINE x == live[p].n
                y == live[p].tag
                z == heap'
    <3>1. /\ Kept(freed, W) /\ b \in W /\ x \in Nat /\ n \in Nat /\ n <= SizeOf(freed, b) /\ y \in Nat
          /\ z = Stored(freed, ToPtr(b), x, n, y)
      BY <2>1, <2>3, <2>5, <1>3
    <3>. HIDE DEF x, y, z
    <3>2. Kept(z, W) /\ SizeOf(z, b) = SizeOf(freed, b) /\ Spares(freed, z, W \ {b})
      BY <3>1, StoredIs
    <3>. QED BY <3>2 DEF z
  <2>. QED BY <2>4, <2>6 DEF W
<1>21. Spares(heap, heap', U \ {c})
  <2>1. U \ {c} \subseteq U /\ U \ {c} \subseteq V \ {c}
    BY <1>12
  <2>2. Spares(heap, given, U)
    BY <1>11, <1>15, SparesChain
  <2>3. Spares(heap, freed, U \ {c})
    BY <2>1, <2>2, <1>17, SparesChain
  <2>. QED BY <2>3, <1>20, SparesChain
<1>22. ASSUME NEW m \in Nat, m <= live[p].n, m <= n
       PROVE  Carries(heap, heap', p, r, m)
  <2>1. m <= size /\ m <= SizeOf(heap, c)
    BY <1>14, <1>22
  <2>2. Carries(heap, used, p, p, m)
    BY <2>1, <1>5, <1>11, CarriesSpared
  <2>3. Carries(used, given, p, r, m)
    BY <2>1, <1>16
  <2>4. m <= SizeOf(given, b) /\ m <= SizeOf(freed, b)
    BY <1>22, <1>3, <1>13, <1>15, <1>19
  <2>5. Carries(given, freed, r, r, m)
    BY <2>4, <1>15, <1>12, <1>17, <1>18, CarriesSpared
  <2>6. Carries(freed, heap', r, r, m)
    BY <2>4, <1>22, <1>1, <1>3, <1>6, <1>17, <1>18, CarriesStored
  <2>7. Carries(heap, given, p, r, m)
    BY <2>2, <2>3, CarriesChain
  <2>8. Carries(heap, freed, p, r, m)
    BY <2>5, <2>7, CarriesChain
  <2>. QED BY <2>6, <2>8, CarriesChain
<1>23. b \in Nat /\ b % 4 = 0
  BY <1>17, <1>18, KeptIs
<1>. DEFINE mid == With(live, r, e)
<1>24. r \in Nat /\ FromPtr(r) = b /\ r # p /\ r % ALIGN_SIZE = 0 /\ ALIGN_SIZE \in Nat
  BY <1>5, <1>12, <1>23 DEF ToPtr, FromPtr, ALIGN_SIZE
<1>25. Entry(e) /\ e.n <= SizeOf(used, b) /\ r % e.al = 0 /\ e.n = n
  BY <1>3, <1>6, <1>13, <1>24 DEF Entry
<1>. HIDE DEF e
<1>26. r \notin DOMAIN live /\ Holds(used, mid)
  <2>1. Kept(used, U \cup {b})
    BY <1>10 DEF V
  <2>2. U = Held(live)
    OBVIOUS
  <2>. HIDE DEF U
  <2>. QED BY <2>1, <2>2, <1>10, <1>11, <1>25, HoldsNew
<1>27. /\ DOMAIN mid = DOMAIN live \cup {r} /\ mid[r] = e
       /\ \A q \in DOMAIN live : mid[q] = live[q]
  BY <1>26 DEF With
<1>28. Held(mid) = V
  BY <1>24, <1>27 DEF Held, V
<1>29. live' = Without(mid, p)
  <2>1. DOMAIN mid \ {p} = (DOMAIN live \ {p}) \cup {r}
    BY <1>24, <1>27
  <2>2. \A q \in DOMAIN mid \ {p} : mid[q] = IF q = r THEN e ELSE live[q]
    BY <1>27
  <2>. HIDE DEF mid, r
  <2>. QED BY <2>1, <2>2, <1>1 DEF Without
<1>30. KeepsSizes(used, heap', V \ {c})
  <2>1. ASSUME NEW u \in U \ {c}
        PROVE  SizeOf(heap', u) = SizeOf(used, u)
    <3>1. SizeOf(used, u) = SizeOf(heap, u) /\ SizeOf(heap', u) = SizeOf(heap, u)
      BY <1>11, <1>21 DEF Spares
    <3>. QED BY <3>1
  <2>2. SizeOf(heap', b) = SizeOf(used, b)
    BY <1>15, <1>19, <1>20
  <2>. QED BY <2>1, <2>2, <1>12 DEF KeepsSizes
<1>31. Holds(heap', live')
  <2>1. p \in DOMAIN mid
    BY <1>27
  <2>. HIDE DEF mid, r
  <2>2. V = Held(mid)
    BY <1>28
  <2>. QED BY <2>1, <2>2, <1>20, <1>26, <1>29, <1>30, HoldsWithout
<1>32. /\ DOMAIN live' = (DOMAIN live \ {p}) \cup {r} /\ live'[r].n = n
       /\ \A q \in DOMAIN live \ {p} : live'[q] = live[q] /\ q # r
  BY <1>1, <1>25, <1>26
<1>33. \A m \in Nat : m <= live[p].n /\ m <= live'[r].n => Carries(heap, heap', p, r, m)
  BY <1>22, <1>32
<1>34. Resized(heap, live, heap', live', p, r)
  <2>1. Spares(heap, heap', Held(live) \ {FromPtr(p)})
    BY <1>21
  <2>. QED BY <2>1, <1>31, <1>32, <1>33 DEF Resized
<1>. QED BY <1>34

(* A larger block is taken, its front given back if the pointer needs it. *)
LEMMA MemalignStep ==
  ASSUME PoolFits, RequestsFit, Holds(heap, live), NEW al \in Alignments,
         NEW n \in AlignedRequests, NEW t \in Contents, Memalign(al, n, t)
  PROVE  \E r : Allocates(heap, live, heap', live', r)
<1>. DEFINE s == AdjustRequestSize(n, ALIGN_SIZE)
            z == AlignedSize(n, al)
            l == LocateFree(heap, z)
            b == l.block
            gap == Gap(ToPtr(b), al)
            led == IF gap > 0 THEN TrimFreeLeading(l.heap, b, gap) ELSE l
            U == Held(live)
            e == [n |-> n, tag |-> t, al |-> al]
<1>1. /\ ~OutOfRange(z) /\ b # Null
      /\ heap' = Stored(PrepareUsed(led.heap, led.block, s), ToPtr(led.block), 0, n, t)
      /\ live' = With(live, ToPtr(led.block), e)
  BY DEF Memalign, Handed, With
<1>2. n \in Nat
  <2>1. BlockSizeMax \in Nat
    BY Scales
  <2>. QED BY <2>1 DEF RequestsFit
<1>3. /\ Searchable(z) /\ Allowed(s) /\ n <= s
      /\ z = 0 \/ (al = 4 /\ z = s) \/ (al > 4 /\ z >= s + al + 16)
  BY <1>1, GapSize
<1>. HIDE DEF s, z
<1>4. Kept(heap, U) /\ U = Held(live)
  BY DEF Holds
<1>5. Alone(l.heap, U, b) /\ Spares(heap, l.heap, U) /\ z <= SizeOf(l.heap, b) /\ z > 0
  BY <1>1, <1>3, <1>4, Taken
<1>. HIDE DEF l
<1>6. Fits(l.heap, U, b)
  BY <1>5, AloneFits
<1>7. b \in Nat /\ b % 4 = 0 /\ SizeOf(l.heap, b) \in Nat
  <2>1. PICK B, F : Loose(l.heap, B, F, U, b)
    BY <1>6 DEF Fits
  <2>2. Whole(l.heap, B, F \cup {b}, F)
    BY <2>1 DEF Loose
  <2>3. HeapTyped(l.heap) /\ Tiled(l.heap, B) /\ b \in B \ {Sentinel}
    BY <2>2 DEF Whole, Flagged
  <2>. QED BY <2>3, BlockIs
<1>8. al \in Nat /\ al >= 4
  BY AlignmentIs
<1>9. /\ gap \in Nat /\ gap % 4 = 0 /\ (gap = 0 \/ gap >= 16) /\ gap <= al + 12
      /\ (ToPtr(b) + gap) % al = 0 /\ (al = 4 => gap = 0)
  <2>1. ToPtr(b) \in Nat /\ ToPtr(b) % 4 = 0
    BY <1>7 DEF ToPtr
  <2>. DEFINE q == ToPtr(b)
              x == Gap(q, al)
  <2>2. q \in Nat /\ q % 4 = 0 /\ x = Gap(q, al)
    BY <2>1
  <2>. HIDE DEF x, q
  <2>3. Leads(q, al, x)
    BY <2>2, GapIs
  <2>. QED BY <2>3 DEF x, q, Leads
<1>. HIDE DEF gap
<1>10. s \in Nat /\ s >= 12 /\ z \in Nat
  BY <1>3 DEF Allowed, Searchable
<1>11. CASE gap = 0
  <2>1. led = l
    BY <1>11
  <2>2. s <= SizeOf(l.heap, b)
    BY <1>3, <1>5, <1>7, <1>8, <1>10
  <2>3. ToPtr(b) % al = 0
    BY <1>7, <1>9, <1>11 DEF ToPtr
  <2>4. heap' = Stored(PrepareUsed(l.heap, b, s), ToPtr(b), 0, n, t)
    BY <1>1, <2>1
  <2>5. live' = With(live, ToPtr(b), e)
    BY <1>1, <2>1
  <2>. HIDE DEF U, b, led
  <2>6. Allocates(heap, live, heap', With(live, ToPtr(b), e), ToPtr(b))
    BY <2>2, <2>3, <2>4, <1>2, <1>3, <1>4, <1>5, <1>6, <1>8, GivenOut
  <2>. QED BY <2>5, <2>6
<1>12. CASE gap > 0
  <2>1. gap >= 16 /\ gap + 16 <= SizeOf(l.heap, b) /\ s <= SizeOf(l.heap, b) - gap
    BY <1>12, <1>3, <1>5, <1>7, <1>8, <1>9, <1>10
  <2>2. led = TrimFreeLeading(l.heap, b, gap)
    BY <1>12
  <2>. HIDE DEF led
  <2>3. /\ led.block = b + gap /\ Fits(led.heap, U, led.block) /\ Spares(l.heap, led.heap, U)
        /\ SizeOf(led.heap, led.block) = SizeOf(l.heap, b) - gap
    BY <2>1, <2>2, <1>5, <1>9, Led
  <2>4. Spares(heap, led.heap, U) /\ s <= SizeOf(led.heap, led.block)
    BY <2>1, <2>3, <1>5, SparesChain
  <2>5. ToPtr(led.block) % al = 0
    <3>1. ToPtr(led.block) = ToPtr(b) + gap
      BY <2>3, <1>7, <1>9 DEF ToPtr
    <3>. QED BY <3>1, <1>9
  <2>. DEFINE c == led.block
  <2>6. heap' = Stored(PrepareUsed(led.heap, c, s), ToPtr(c), 0, n, t) /\ live' = With(live, ToPtr(c), e)
    BY <1>1
  <2>7. Fits(led.heap, U, c) /\ s <= SizeOf(led.heap, c) /\ ToPtr(c) % al = 0
    BY <2>3, <2>4, <2>5
  <2>. HIDE DEF U, b, c
  <2>8. Allocates(heap, live, heap', With(live, ToPtr(c), e), ToPtr(c))
    BY <2>4, <2>6, <2>7, <1>2, <1>3, <1>4, <1>8, GivenOut
  <2>. QED BY <2>6, <2>8
<1>. QED BY <1>9, <1>11, <1>12

-----------------------------------------------------------------------------
(* The invariant. *)

HeapInv == Holds(heap, live) /\ lost \in BOOLEAN

(* What a step may do: it gives out a block, takes one back, changes one's *)
(* size or leaves everything as it is.                                     *)
Changes ==
  \/ \E r : Allocates(heap, live, heap', live', r)
  \/ \E p : Releases(heap, live, heap', live', p)
  \/ \E p, r : Resized(heap, live, heap', live', p, r)
  \/ UNCHANGED <<heap, live>>

(* Each step is one of these.                                              *)
LEMMA Steps ==
  ASSUME PoolFits, RequestsFit, HeapInv, [Next]_vars
  PROVE  Changes /\ lost' \in BOOLEAN
<1>. USE DEF HeapInv
<1>1. ASSUME NEW n \in Requests, MallocFails(n)
      PROVE  Changes /\ lost' \in BOOLEAN
  BY <1>1 DEF MallocFails, Changes, vars
<1>0. ASSUME GoesAstray
      PROVE  Changes /\ lost' \in BOOLEAN
  BY <1>0 DEF GoesAstray, Changes
<1>2. ASSUME NEW n \in Requests, MallocGoesAstray(n)
      PROVE  Changes /\ lost' \in BOOLEAN
  BY <1>0, <1>2 DEF MallocGoesAstray
<1>3. ASSUME NEW n \in Requests, NEW t \in Tags, Malloc(n, t)
      PROVE  Changes /\ lost' \in BOOLEAN
  <2>1. lost' = lost
    BY <1>3 DEF Malloc
  <2>2. n \in Nat /\ t \in Contents
    BY ArgumentAssumption DEF Contents
  <2>. QED BY <2>1, <2>2, <1>3, MallocStep DEF Changes
<1>11. ASSUME NEW n \in Zeroed, Calloc(n)
       PROVE  Changes /\ lost' \in BOOLEAN
  <2>1. n \in Nat /\ 0 \in Contents
    BY ArgumentAssumption DEF Contents
  <2>2. CASE Malloc(n, 0)
    <3>1. lost' = lost
      BY <2>2 DEF Malloc
    <3>. QED BY <2>1, <2>2, <3>1, MallocStep DEF Changes
  <2>3. CASE MallocFails(n)
    BY <2>3 DEF MallocFails, Changes, vars
  <2>4. CASE GoesAstray
    BY <1>0, <2>4
  <2>. QED BY <1>11, <2>2, <2>3, <2>4 DEF Calloc, MallocGoesAstray
<1>4. ASSUME NEW p \in DOMAIN live, Free(p)
      PROVE  Changes /\ lost' \in BOOLEAN
  <2>1. lost' = lost
    BY <1>4 DEF Free
  <2>. QED BY <2>1, <1>4, FreeStep DEF Changes
<1>5. ASSUME NEW p \in DOMAIN live, NEW n \in Resizes, ReallocInPlace(p, n)
      PROVE  Changes /\ lost' \in BOOLEAN
  <2>1. lost' = lost
    BY <1>5 DEF ReallocInPlace
  <2>. QED BY <2>1, <1>5, ReallocInPlaceStep DEF Changes
<1>6. ASSUME NEW p \in DOMAIN live, NEW n \in Resizes, ReallocMoves(p, n)
      PROVE  Changes /\ lost' \in BOOLEAN
  <2>1. lost' = lost
    BY <1>6 DEF ReallocMoves
  <2>. QED BY <2>1, <1>6, ReallocMovesStep DEF Changes
<1>7. ASSUME NEW p \in DOMAIN live, NEW n \in Resizes, ReallocFails(p, n)
      PROVE  Changes /\ lost' \in BOOLEAN
  BY <1>7 DEF ReallocFails, Changes, vars
<1>12. ASSUME NEW p \in DOMAIN live, NEW n \in Resizes, ReallocGoesAstray(p, n)
       PROVE  Changes /\ lost' \in BOOLEAN
  BY <1>0, <1>12 DEF ReallocGoesAstray
<1>8. ASSUME NEW al \in Alignments, NEW n \in AlignedRequests, MemalignFails(al, n)
      PROVE  Changes /\ lost' \in BOOLEAN
  BY <1>8 DEF MemalignFails, Changes, vars
<1>13. ASSUME NEW al \in Alignments, NEW n \in AlignedRequests, MemalignGoesAstray(al, n)
       PROVE  Changes /\ lost' \in BOOLEAN
  BY <1>0, <1>13 DEF MemalignGoesAstray
<1>9. ASSUME NEW al \in Alignments, NEW n \in AlignedRequests, NEW t \in Tags, Memalign(al, n, t)
      PROVE  Changes /\ lost' \in BOOLEAN
  <2>1. lost' = lost
    BY <1>9 DEF Memalign
  <2>2. t \in Contents
    BY DEF Contents
  <2>. QED BY <2>1, <2>2, <1>9, MemalignStep DEF Changes
<1>10. CASE Astray \/ UNCHANGED vars
  BY <1>10 DEF Astray, Changes, vars
<1>. QED BY <1>1, <1>2, <1>3, <1>4, <1>5, <1>6, <1>7, <1>8, <1>9, <1>10, <1>11, <1>12, <1>13
         DEF Next, Calls

(* After each call the pool is a row of blocks from the first to the       *)
(* sentinel, the free ones flagged, listed and apart, and the used ones    *)
(* are those that users hold, none smaller than asked for.                 *)
THEOREM Invariance ==
  ASSUME PoolFits, RequestsFit
  PROVE  Spec => []HeapInv
<1>1. Init => HeapInv
  <2>. SUFFICES ASSUME Init PROVE HeapInv
    OBVIOUS
  <2>1. DOMAIN live = {} /\ live = [p \in {} |-> 0] /\ heap = Create /\ lost = FALSE
    BY DEF Init
  <2>2. Held(live) = {}
    BY <2>1 DEF Held
  <2>3. Kept(heap, Held(live))
    BY <2>1, <2>2, Created
  <2>4. live = [q \in DOMAIN live |-> live[q]]
    BY <2>1
  <2>. QED BY <2>1, <2>3, <2>4 DEF HeapInv, Holds
<1>2. ASSUME HeapInv, [Next]_vars
      PROVE  HeapInv'
  <2>1. Changes /\ lost' \in BOOLEAN
    BY <1>2, Steps
  <2>2. CASE UNCHANGED <<heap, live>>
    BY <2>1, <2>2, <1>2 DEF HeapInv
  <2>3. CASE ~UNCHANGED <<heap, live>>
    <3>1. Holds(heap', live')
      BY <2>1, <2>3 DEF Changes, Allocates, Releases, Resized
    <3>. QED BY <2>1, <3>1 DEF HeapInv
  <2>. QED BY <2>2, <2>3
<1>. QED BY <1>1, <1>2, PTL DEF Spec

-----------------------------------------------------------------------------
(* The walks that the properties are stated with. *)

(* The steps of a walk through the pool. *)
Steps16 == PoolBytes \div HeaderSize + 1

Walks(f, K, a, step) == f = [k \in 0 .. K |-> IF k = 0 THEN a ELSE step[f[k - 1]]]

(* There is a function that goes on by step, K times.                      *)
LEMMA WalkExists ==
  ASSUME NEW S, NEW a \in S, NEW step \in [S -> S], NEW K \in Nat
  PROVE  \E f \in [0 .. K -> S] : Walks(f, K, a, step)
<1>. DEFINE steps == [n \in Nat |-> step]
<1>1. steps \in [Nat -> [S -> S]]
  OBVIOUS
<1>2. PICK g \in [Nat -> S] : Unfolds(g, a, steps)
  <2>. HIDE DEF steps
  <2>. QED BY <1>1, Recursion, Zenon
<1>3. g[0] = a /\ \A n \in Nat : g[n + 1] = step[g[n]]
  BY <1>2 DEF Unfolds
<1>. DEFINE f == [k \in 0 .. K |-> g[k]]
<1>4. f \in [0 .. K -> S]
  OBVIOUS
<1>5. ASSUME NEW k \in 0 .. K
      PROVE  f[k] = IF k = 0 THEN a ELSE step[f[k - 1]]
  <2>1. CASE k = 0
    BY <2>1, <1>3
  <2>2. CASE k # 0
    <3>1. k - 1 \in 0 .. K /\ k - 1 \in Nat /\ (k - 1) + 1 = k
      BY <2>2
    <3>2. g[(k - 1) + 1] = step[g[k - 1]]
      BY <3>1, <1>3
    <3>. QED BY <2>2, <3>1, <3>2
  <2>. QED BY <2>1, <2>2
<1>6. f = [k \in 0 .. K |-> IF k = 0 THEN a ELSE step[f[k - 1]]]
  BY <1>5
<1>. HIDE DEF f
<1>7. Walks(f, K, a, step)
  BY <1>6 DEF Walks
<1>. QED BY <1>4, <1>7

Onward(h, X) == X \cup ({BlockNext(h, b) : b \in {x \in X : SizeOf(h, x) > 0}} \cap Places)

(* So many steps of 16 bytes reach the end of the pool.                    *)
LEMMA Steps16Is ==
  Steps16 \in Nat /\ Steps16 > 0 /\ Sentinel <= Start + 16 * Steps16
<1>1. PoolBytes \in Nat /\ PoolBytes % 4 = 0 /\ Start \in Nat /\ Sentinel = Start + 4 + PoolBytes
  BY Addresses
<1>. QED BY <1>1 DEF Steps16, HeaderSize

(* Blocks is the end of a walk.                                            *)
LEMMA BlocksWalk ==
  \E f \in [0 .. Steps16 -> SUBSET Places] :
    /\ Blocks = f[Steps16] /\ f[0] = {Start}
    /\ \A k \in 0 .. Steps16 - 1 : f[k + 1] = Onward(heap, f[k])
<1>. DEFINE K == Steps16
            step == [X \in SUBSET Places |-> Onward(heap, X)]
            met[k \in 0 .. K] ==
              IF k = 0 THEN {Start}
              ELSE LET old == met[k - 1]
                   IN  old \cup ({BlockNext(heap, b) : b \in {x \in old : SizeOf(heap, x) > 0}} \cap Places)
<1>1. Blocks = met[K]
  BY DEF Blocks, Steps16
<1>2. K \in Nat /\ {Start} \in SUBSET Places
  <2>1. Start \in Places
    BY PlacesAre, Addresses
  <2>. QED BY <2>1, Steps16Is
<1>3. step \in [SUBSET Places -> SUBSET Places]
  BY DEF Onward
<1>. HIDE DEF K
<1>4. PICK f \in [0 .. K -> SUBSET Places] :
        f = [k \in 0 .. K |-> IF k = 0 THEN {Start} ELSE step[f[k - 1]]]
  <2>. DEFINE S == SUBSET Places
              a == {Start}
  <2>1. a \in S /\ step \in [S -> S] /\ K \in Nat
    BY <1>2, <1>3
  <2>. HIDE DEF step, met, S, a
  <2>2. \E g \in [0 .. K -> S] : Walks(g, K, a, step)
    BY <2>1, WalkExists, Zenon
  <2>. QED BY <2>2 DEF S, a, Walks
<1>5. ASSUME NEW k \in 0 .. K, k # 0
      PROVE  f[k] = Onward(heap, f[k - 1])
  <2>1. k - 1 \in 0 .. K
    BY <1>2, <1>5
  <2>2. f[k - 1] \in SUBSET Places
    BY <2>1
  <2>3. f[k] = step[f[k - 1]]
    BY <1>4, <1>5
  <2>. QED BY <2>2, <2>3
<1>6. f[0] = {Start}
  BY <1>2, <1>4
<1>7. f = [k \in 0 .. K |->
             IF k = 0 THEN {Start}
             ELSE LET old == f[k - 1]
                  IN  old \cup ({BlockNext(heap, b) : b \in {x \in old : SizeOf(heap, x) > 0}} \cap Places)]
  <2>. HIDE DEF step, met
  <2>. QED BY <1>5, <1>6 DEF Onward
<1>8. met = [k \in 0 .. K |->
             IF k = 0 THEN {Start}
             ELSE LET old == met[k - 1]
                  IN  old \cup ({BlockNext(heap, b) : b \in {x \in old : SizeOf(heap, x) > 0}} \cap Places)]
  BY <1>7
<1>. HIDE DEF met
<1>9. /\ met[0] = {Start} /\ DOMAIN met = 0 .. K
      /\ \A k \in 0 .. K - 1 : met[k + 1] = Onward(heap, met[k])
  <2>1. met[0] = {Start} /\ DOMAIN met = 0 .. K
    BY <1>2, <1>8
  <2>2. ASSUME NEW k \in 0 .. K - 1
        PROVE  met[k + 1] = Onward(heap, met[k])
    <3>1. k + 1 \in 0 .. K /\ (k + 1) - 1 = k /\ k + 1 # 0
      BY <1>2
    <3>. QED BY <3>1, <1>8 DEF Onward
  <2>. QED BY <2>1, <2>2
<1>10. \A k \in 0 .. K : met[k] \in SUBSET Places
  <2>. DEFINE T == {k \in 0 .. K : met[k] \in SUBSET Places}
  <2>1. 0 \in T
    BY <1>2, <1>9
  <2>2. \A k \in 0 .. K - 1 : k \in T => k + 1 \in T
    BY <1>2, <1>9 DEF Onward
  <2>3. 0 \in Int /\ K \in Int
    BY <1>2
  <2>4. \A k \in 0 .. K : k \in T
    <3>. HIDE DEF T
    <3>. QED BY <2>1, <2>2, <2>3, UpTo
  <2>. QED BY <2>4
<1>11. met = [k \in 0 .. K |-> met[k]]
  BY <1>8
<1>12. met \in [0 .. K -> SUBSET Places]
  BY <1>10, <1>11
<1>. QED BY <1>1, <1>9, <1>12 DEF K

(* The walk through the pool meets its blocks. *)
LEMMA BlocksAre ==
  ASSUME NEW B, NEW F, Whole(heap, B, F, F)
  PROVE  Blocks = B /\ FreeBlocks = F
<1>1. PICK f \in [0 .. Steps16 -> SUBSET Places] :
        /\ Blocks = f[Steps16] /\ f[0] = {Start}
        /\ \A k \in 0 .. Steps16 - 1 : f[k + 1] = Onward(heap, f[k])
  BY BlocksWalk
<1>2. HeapTyped(heap) /\ Tiled(heap, B) /\ Flagged(heap, B, F) /\ B \subseteq Places
  BY DEF Whole, Tiled
<1>3. /\ Start \in Nat /\ Start \in B /\ Sentinel \in Nat /\ SizeOf(heap, Sentinel) = 0
      /\ \A b \in B : b \in Nat /\ b <= Sentinel /\ b >= Start
  BY <1>2, PlacesAre, Addresses DEF Tiled
<1>. DEFINE K == Steps16
            Near(k) == {b \in B : b <= Start + 16 * k}
            T == {k \in 0 .. K : f[k] \subseteq B /\ Near(k) \subseteq f[k]}
<1>4. K \in Nat /\ Sentinel <= Start + 16 * K
  BY Steps16Is
<1>. HIDE DEF K
<1>5. 0 \in T
  <2>1. \A b \in B : b <= Start + 16 * 0 => b = Start
    BY <1>3
  <2>2. Near(0) \subseteq {Start}
    BY <2>1
  <2>. HIDE DEF Near
  <2>3. 0 \in 0 .. K /\ f[0] \subseteq B /\ Near(0) \subseteq f[0]
    BY <2>2, <1>1, <1>3, <1>4
  <2>. QED BY <2>3
<1>6. ASSUME NEW k \in 0 .. K - 1, k \in T
      PROVE  k + 1 \in T
  <2>1. k \in Nat /\ k + 1 \in 0 .. K
    BY <1>4
  <2>2. f[k + 1] = Onward(heap, f[k]) /\ f[k] \subseteq B /\ Near(k) \subseteq f[k]
    BY <1>1, <1>6 DEF K
  <2>3. ASSUME NEW b \in f[k], SizeOf(heap, b) > 0
        PROVE  BlockNext(heap, b) \in B
    BY <2>2, <2>3, <1>2, <1>3, BlockIs
  <2>4. f[k + 1] \subseteq B
    BY <2>2, <2>3 DEF Onward
  <2>5. ASSUME NEW b \in Near(k + 1)
        PROVE  b \in f[k + 1]
    <3>1. CASE b = Start
      <4>1. Start \in Near(k)
        BY <1>3, <2>1
      <4>. QED BY <4>1, <3>1, <2>2 DEF Onward
    <3>2. CASE b # Start
      <4>1. PICK c \in B \ {Sentinel} : BlockNext(heap, c) = b
        BY <3>2, <1>2, HasBefore
      <4>2. b >= c + 16 /\ SizeOf(heap, c) > 0 /\ c \in Nat /\ b \in Nat /\ b <= Start + 16 * (k + 1)
        BY <4>1, <1>2, BlockIs
      <4>3. c \in Near(k)
        BY <4>2, <2>1, <1>3
      <4>. QED BY <4>1, <4>2, <4>3, <2>2, <1>2 DEF Onward
    <3>. QED BY <3>1, <3>2
  <2>. QED BY <2>1, <2>4, <2>5
<1>7. K \in T
  <2>. HIDE DEF T
  <2>1. 0 \in Int /\ K \in Int /\ K \in 0 .. K
    BY <1>4
  <2>2. \A k \in 0 .. K - 1 : k \in T => k + 1 \in T
    BY <1>6
  <2>. QED BY <1>5, <2>1, <2>2, UpTo
<1>8. Near(K) = B
  <2>1. \A b \in B : b <= Start + 16 * K
    BY <1>3, <1>4
  <2>. QED BY <2>1
<1>9. Blocks = B
  BY <1>1, <1>7, <1>8 DEF K
<1>10. FreeBlocks = F
  <2>1. F \subseteq B /\ \A b \in B : IsFree(heap, b) <=> b \in F
    BY <1>2 DEF Flagged
  <2>. QED BY <2>1, <1>9 DEF FreeBlocks
<1>. QED BY <1>9, <1>10

-----------------------------------------------------------------------------
(* The properties. *)

(* The blocks walked are those of the invariant.                           *)
LEMMA HeldIs ==
  ASSUME HeapInv
  PROVE  \E B, F : /\ Whole(heap, B, F, F) /\ Blocks = B /\ FreeBlocks = F
                   /\ Held(live) = B \ (F \cup {Sentinel})
<1>1. PICK B, F : Whole(heap, B, F, F) /\ Held(live) = B \ (F \cup {Sentinel})
  BY DEF HeapInv, Holds, Kept
<1>. QED BY <1>1, BlocksAre

(* The types are part of the invariant.                                    *)
LEMMA TypesFollow ==
  ASSUME HeapInv
  PROVE  TypeOK
<1>1. PICK B, F : Whole(heap, B, F, F)
  BY HeldIs
<1>2. HeapTyped(heap)
  BY <1>1 DEF Whole
<1>3. \A p \in DOMAIN live : live[p] \in [n : Nat, tag : Contents, al : Nat]
  BY DEF HeapInv, Holds, Serves, Entry
<1>. QED BY <1>2, <1>3 DEF TypeOK, HeapTyped, HeapInv

(* The words of the pool stay numbers, links lead to places of the pool,   *)
(* and nothing is stored outside it.                                       *)
THEOREM HeapTypes ==
  ASSUME PoolFits, RequestsFit
  PROVE  Spec => []TypeOK
<1>1. HeapInv => TypeOK
  BY TypesFollow
<1>. QED BY <1>1, Invariance, PTL

(* So is the row of blocks.                                                *)
LEMMA TilingFollows ==
  ASSUME HeapInv
  PROVE  BlocksTile
<1>1. PICK B, F : Whole(heap, B, F, F) /\ Blocks = B
  BY HeldIs
<1>2. Tiled(heap, B) /\ Flagged(heap, B, F)
  BY <1>1 DEF Whole
<1>3. Sentinel \in B /\ SizeOf(heap, Sentinel) = 0 /\ ~IsFree(heap, Sentinel)
  BY <1>2 DEF Tiled, Flagged
<1>. QED BY <1>1, <1>2, <1>3 DEF BlocksTile, Tiled

(* The blocks follow each other without gap or overlap from the first to   *)
(* the sentinel, each with room for the links it would need when free:     *)
(* splitting and merging lose no byte of the pool.                         *)
THEOREM Tiling ==
  ASSUME PoolFits, RequestsFit
  PROVE  Spec => []BlocksTile
<1>1. HeapInv => BlocksTile
  BY TilingFollows
<1>. QED BY <1>1, Invariance, PTL

(* So are the flags.                                                       *)
LEMMA FlagsFollow ==
  ASSUME HeapInv
  PROVE  NeighboursAgree
<1>1. PICK B, F : Whole(heap, B, F, F) /\ Blocks = B
  BY HeldIs
<1>2. HeapTyped(heap) /\ Tiled(heap, B) /\ Flagged(heap, B, F) /\ Lonely(heap, F)
  BY <1>1 DEF Whole
<1>3. ~IsPrevFree(heap, Start)
  BY <1>2 DEF Flagged
<1>4. ASSUME NEW b \in B \ {Sentinel}
      PROVE  /\ IsFree(heap, b) <=> IsPrevFree(heap, BlockNext(heap, b))
             /\ IsFree(heap, b) => /\ ~IsFree(heap, BlockNext(heap, b))
                                   /\ heap.mem[BlockNext(heap, b)] = b
  <2>1. BlockNext(heap, b) \in B
    BY <1>2, BlockIs
  <2>. QED BY <2>1, <1>2 DEF Flagged, Lonely
<1>. QED BY <1>1, <1>3, <1>4 DEF NeighboursAgree

(* A block knows whether its neighbour in front is free and where that one *)
(* begins, and free neighbours have been merged: what freeing relies on    *)
(* when it reads the word in front of a header.                            *)
THEOREM Flags ==
  ASSUME PoolFits, RequestsFit
  PROVE  Spec => []NeighboursAgree
<1>1. HeapInv => NeighboursAgree
  BY FlagsFollow
<1>. QED BY <1>1, Invariance, PTL

(* So is who holds what.                                                   *)
LEMMA UseFollows ==
  ASSUME HeapInv
  PROVE  UsedAreHeld
<1>1. PICK B, F : /\ Whole(heap, B, F, F) /\ Blocks = B /\ FreeBlocks = F
                  /\ Held(live) = B \ (F \cup {Sentinel})
  BY HeldIs
<1>2. Holds(heap, live)
  BY DEF HeapInv
<1>3. \A p \in DOMAIN live : ToPtr(FromPtr(p)) = p
  BY <1>2, Pointers
<1>4. {ToPtr(b) : b \in Held(live)} = DOMAIN live
  BY <1>3 DEF Held
<1>5. \A p \in DOMAIN live : SizeOf(heap, FromPtr(p)) >= live[p].n /\ p % live[p].al = 0
  <2>1. TAKE p \in DOMAIN live
  <2>2. Serves(heap, p, live[p])
    BY <1>2 DEF Holds
  <2>3. FromPtr(p) \in Held(live) /\ Kept(heap, Held(live))
    BY <1>2 DEF Held, Holds
  <2>4. SizeOf(heap, FromPtr(p)) \in Nat /\ live[p].n \in Nat
    BY <2>2, <2>3, KeptIs DEF Serves, Entry
  <2>. QED BY <2>2, <2>4 DEF Serves
<1>. QED BY <1>1, <1>4, <1>5 DEF UsedAreHeld

(* The blocks that are neither free nor the sentinel are those that users  *)
(* hold, each as large and as aligned as was asked for: no call hands out  *)
(* a block twice, forgets one, or shrinks one below its request.           *)
THEOREM Use ==
  ASSUME PoolFits, RequestsFit
  PROVE  Spec => []UsedAreHeld
<1>1. HeapInv => UsedAreHeld
  BY UseFollows
<1>. QED BY <1>1, Invariance, PTL

(* The search finds by the lists and the bitmaps.                          *)
LEMMA FitFollows ==
  ASSUME PoolFits, HeapInv
  PROVE  GoodFit
<1>1. PICK B, F : Whole(heap, B, F, F) /\ FreeBlocks = F
  BY HeldIs
<1>2. HeapTyped(heap) /\ F \subseteq Places
  BY <1>1 DEF Whole, Flagged, Tiled
<1>3. ASSUME NEW n \in Requests, NEW s, s = AdjustRequestSize(AtLeastOne(n), ALIGN_SIZE),
             NEW b, b = LocateFree(heap, s).block, s > 0, ~OutOfRange(s)
      PROVE  /\ (\E x \in F : SizeOf(heap, x) >= Rounded(s)) => b # Null
             /\ b # Null => SizeOf(heap, b) >= s
  <2>1. AtLeastOne(n) \in Nat
    BY ArgumentAssumption DEF AtLeastOne
  <2>2. Searchable(s)
    BY <1>3, <2>1, WordSize
  <2>3. ASSUME b # Null
        PROVE  SizeOf(heap, b) >= s
    <3>1. b \in F /\ s <= SizeOf(heap, b)
      BY <1>1, <1>3, <2>2, <2>3, Located
    <3>2. SizeOf(heap, b) \in Nat
      BY <3>1, <1>2, HeaderIs
    <3>. QED BY <3>1, <3>2, <2>2 DEF Searchable
  <2>4. ASSUME b = Null, NEW x \in F
        PROVE  ~(SizeOf(heap, x) >= Rounded(s))
    <3>1. SizeOf(heap, x) < Rounded(s)
      BY <1>1, <1>3, <2>2, <2>4, Refused
    <3>2. SizeOf(heap, x) \in Nat /\ Rounded(s) \in Nat
      BY <1>2, <1>3, <2>2, HeaderIs, SearchIs
    <3>. QED BY <3>1, <3>2
  <2>. QED BY <2>3, <2>4
<1>. QED BY <1>1, <1>3 DEF GoodFit

(* A request finds a block when one of its rounded size is free, and never *)
(* one too small: rounding up before the search is enough, and the bitmaps *)
(* hide no block.                                                          *)
THEOREM Fit ==
  ASSUME PoolFits, RequestsFit
  PROVE  Spec => []GoodFit
<1>1. HeapInv => GoodFit
  BY FitFollows
<1>. QED BY <1>1, Invariance, PTL

-----------------------------------------------------------------------------
(* The lists, as the walk along the links meets them. *)

Along(h, X) == X \cup ({h.mem[b + 8] : b \in X} \cap Places)

(* Listed is the end of a walk.                                            *)
LEMMA ListedWalk ==
  ASSUME NEW head \in Places \cup {Null}
  PROVE  \E f \in [0 .. Steps16 -> SUBSET Places] :
           /\ Listed(head) = f[Steps16] /\ f[0] = {head} \ {Null}
           /\ \A k \in 0 .. Steps16 - 1 : f[k + 1] = Along(heap, f[k])
<1>. DEFINE K == Steps16
            step == [X \in SUBSET Places |-> Along(heap, X)]
            met[k \in 0 .. K] ==
              IF k = 0 THEN {head} \ {Null}
              ELSE LET old == met[k - 1]
                   IN  old \cup ({heap.mem[b + 8] : b \in old} \cap Places)
<1>1. Listed(head) = met[K]
  BY DEF Listed, Steps16
<1>2. K \in Nat /\ {head} \ {Null} \in SUBSET Places
  BY Steps16Is
<1>3. step \in [SUBSET Places -> SUBSET Places]
  BY DEF Along
<1>. HIDE DEF K
<1>4. PICK f \in [0 .. K -> SUBSET Places] :
        f = [k \in 0 .. K |-> IF k = 0 THEN {head} \ {Null} ELSE step[f[k - 1]]]
  <2>. DEFINE S == SUBSET Places
              a == {head} \ {Null}
  <2>1. a \in S /\ step \in [S -> S] /\ K \in Nat
    BY <1>2, <1>3
  <2>. HIDE DEF step, met, S, a
  <2>2. \E g \in [0 .. K -> S] : Walks(g, K, a, step)
    BY <2>1, WalkExists, Zenon
  <2>. QED BY <2>2 DEF S, a, Walks
<1>5. ASSUME NEW k \in 0 .. K, k # 0
      PROVE  f[k] = Along(heap, f[k - 1])
  <2>1. k - 1 \in 0 .. K
    BY <1>2, <1>5
  <2>2. f[k - 1] \in SUBSET Places
    BY <2>1
  <2>3. f[k] = step[f[k - 1]]
    BY <1>4, <1>5
  <2>. QED BY <2>2, <2>3
<1>6. f[0] = {head} \ {Null}
  BY <1>2, <1>4
<1>7. f = [k \in 0 .. K |->
             IF k = 0 THEN {head} \ {Null}
             ELSE LET old == f[k - 1]
                  IN  old \cup ({heap.mem[b + 8] : b \in old} \cap Places)]
  <2>. HIDE DEF step, met
  <2>. QED BY <1>5, <1>6 DEF Along
<1>8. met = [k \in 0 .. K |->
             IF k = 0 THEN {head} \ {Null}
             ELSE LET old == met[k - 1]
                  IN  old \cup ({heap.mem[b + 8] : b \in old} \cap Places)]
  BY <1>7
<1>. HIDE DEF met
<1>9. /\ met[0] = {head} \ {Null} /\ DOMAIN met = 0 .. K
      /\ \A k \in 0 .. K - 1 : met[k + 1] = Along(heap, met[k])
  <2>1. met[0] = {head} \ {Null} /\ DOMAIN met = 0 .. K
    BY <1>2, <1>8
  <2>2. ASSUME NEW k \in 0 .. K - 1
        PROVE  met[k + 1] = Along(heap, met[k])
    <3>1. k + 1 \in 0 .. K /\ (k + 1) - 1 = k /\ k + 1 # 0
      BY <1>2
    <3>. QED BY <3>1, <1>8 DEF Along
  <2>. QED BY <2>1, <2>2
<1>10. \A k \in 0 .. K : met[k] \in SUBSET Places
  <2>. DEFINE T == {k \in 0 .. K : met[k] \in SUBSET Places}
  <2>1. 0 \in T
    BY <1>2, <1>9
  <2>2. \A k \in 0 .. K - 1 : k \in T => k + 1 \in T
    BY <1>2, <1>9 DEF Along
  <2>3. 0 \in Int /\ K \in Int
    BY <1>2
  <2>4. \A k \in 0 .. K : k \in T
    <3>. HIDE DEF T
    <3>. QED BY <2>1, <2>2, <2>3, UpTo
  <2>. QED BY <2>4
<1>11. met = [k \in 0 .. K |-> met[k]]
  BY <1>8
<1>12. met \in [0 .. K -> SUBSET Places]
  BY <1>10, <1>11
<1>. QED BY <1>1, <1>9, <1>12 DEF K

(* There are no more blocks than steps. *)
LEMMA FewBlocks ==
  ASSUME NEW h, HeapTyped(h), NEW B, Tiled(h, B), NEW F, F \subseteq B \ {Sentinel}
  PROVE  IsFiniteSet(F) /\ Cardinality(F) \in Nat /\ Cardinality(F) <= Steps16
<1>. DEFINE K == Steps16
            f == [c \in F |-> (c - Start) \div 16]
<1>1. ASSUME NEW c \in F
      PROVE  c \in Nat /\ c >= Start /\ f[c] \in 0 .. K - 1
  <2>1. /\ c \in Nat /\ c >= Start /\ BlockNext(h, c) >= c + 16 /\ BlockNext(h, c) <= Sentinel
        /\ BlockNext(h, c) \in Nat
    BY BlockIs
  <2>2. Start \in Nat /\ Sentinel \in Nat /\ K \in Nat /\ Sentinel <= Start + 16 * K
    BY Addresses, Steps16Is
  <2>. HIDE DEF K
  <2>3. c - Start \in Nat /\ c - Start <= 16 * K - 16
    BY <2>1, <2>2
  <2>4. (c - Start) \div 16 \in 0 .. K - 1
    BY <2>2, <2>3
  <2>. QED BY <2>1, <2>4
<1>2. ASSUME NEW c \in F, NEW d \in F, f[c] = f[d]
      PROVE  c = d
  <2>1. c = d \/ c >= d + 16 \/ d >= c + 16
    BY Distance
  <2>2. c \in Nat /\ d \in Nat /\ Start \in Nat /\ c >= Start /\ d >= Start
    BY <1>1, Addresses
  <2>3. (c - Start) \div 16 = (d - Start) \div 16
    BY <1>2
  <2>. QED BY <2>1, <2>2, <2>3
<1>3. K \in Nat
  BY Steps16Is
<1>4. IsFiniteSet(0 .. K - 1) /\ Cardinality(0 .. K - 1) = K
  <2>1. 0 \in Int /\ K - 1 \in Int
    BY <1>3
  <2>2. IsFiniteSet(0 .. K - 1) /\ Cardinality(0 .. K - 1) = IF 0 > K - 1 THEN 0 ELSE K - 1 - 0 + 1
    BY <2>1, FS_Interval
  <2>. QED BY <2>2, <1>3
<1>5. f \in Injection(F, 0 .. K - 1)
  <2>1. f \in [F -> 0 .. K - 1]
    BY <1>1
  <2>. HIDE DEF f
  <2>. QED BY <2>1, <1>2 DEF Injection, IsInjective
<1>6. IsFiniteSet(F) /\ Cardinality(F) <= Cardinality(0 .. K - 1)
  <2>. HIDE DEF f
  <2>. QED BY <1>4, <1>5, FS_Injection
<1>7. Cardinality(F) \in Nat
  BY <1>6, FS_CardinalityType
<1>. QED BY <1>4, <1>6, <1>7

(* A list holds the free blocks of its size. *)
LEMMA ListedAre ==
  ASSUME PoolFits, NEW B, NEW F, Whole(heap, B, F, F), NEW i \in Pairs
  PROVE  Listed(Head(heap, i)) = {c \in F : Idx(heap, c) = i}
<1>. DEFINE S == {c \in F : Idx(heap, c) = i}
            head == Head(heap, i)
            K == Steps16
<1>1. /\ HeapTyped(heap) /\ Tiled(heap, B) /\ F \subseteq B \ {Sentinel} /\ Linked(heap, F)
      /\ F \subseteq Places
  <2>1. HeapTyped(heap) /\ Tiled(heap, B) /\ F \subseteq B \ {Sentinel} /\ Linked(heap, F)
    BY DEF Whole, Flagged
  <2>. QED BY <2>1 DEF Tiled
<1>2. Null \notin Places
  BY PlacesAre, Addresses DEF Null
<1>3. head \in Places \cup {Null}
  BY <1>1 DEF Head, HeapTyped, Pairs
<1>4. PICK f \in [0 .. K -> SUBSET Places] :
        /\ Listed(head) = f[K] /\ f[0] = {head} \ {Null}
        /\ \A k \in 0 .. K - 1 : f[k + 1] = Along(heap, f[k])
  BY <1>3, ListedWalk
<1>5. K \in Nat
  BY Steps16Is
<1>6. head # Null => head \in S /\ heap.mem[head + 12] = Null
  BY <1>1 DEF Linked, Headed
<1>7. ASSUME NEW c \in S, heap.mem[c + 8] \in Places
      PROVE  heap.mem[c + 8] \in S
  BY <1>1, <1>2, <1>7 DEF Linked, Chained
<1>. HIDE DEF K
<1>8. \A k \in 0 .. K : f[k] \subseteq S
  <2>. DEFINE T == {k \in 0 .. K : f[k] \subseteq S}
  <2>1. 0 \in T
    BY <1>4, <1>5, <1>6
  <2>2. ASSUME NEW k \in 0 .. K - 1, k \in T
        PROVE  k + 1 \in T
    <3>1. f[k + 1] = Along(heap, f[k]) /\ k + 1 \in 0 .. K /\ f[k] \subseteq S
      BY <2>2, <1>4, <1>5
    <3>. HIDE DEF S
    <3>. QED BY <3>1, <1>7 DEF Along
  <2>3. 0 \in Int /\ K \in Int
    BY <1>5
  <2>4. \A k \in 0 .. K : k \in T
    <3>. HIDE DEF T
    <3>. QED BY <2>1, <2>2, <2>3, UpTo
  <2>. QED BY <2>4
<1>9. IsFiniteSet(F) /\ Cardinality(F) \in Nat /\ Cardinality(F) <= K
  BY <1>1, FewBlocks DEF K
<1>10. ASSUME NEW k \in 0 .. K
       PROVE  IsFiniteSet(f[k]) /\ Cardinality(f[k]) \in Nat /\ Cardinality(f[k]) <= K
  <2>1. f[k] \in SUBSET F
    BY <1>8
  <2>2. IsFiniteSet(f[k]) /\ Cardinality(f[k]) <= Cardinality(F)
    BY <2>1, <1>9, FS_Subset
  <2>3. Cardinality(f[k]) \in Nat
    BY <2>2, FS_CardinalityType
  <2>. QED BY <2>2, <2>3, <1>5, <1>9
<1>. DEFINE Settled(k) == Along(heap, f[k]) = f[k]
            T == {k \in 0 .. K : Settled(k) \/ Cardinality(f[k]) >= k + 1}
<1>11. 0 \in T
  <2>1. CASE head = Null
    <3>1. f[0] = {}
      BY <1>4, <2>1
    <3>2. Settled(0)
      BY <3>1 DEF Along
    <3>. QED BY <3>2, <1>5
  <2>2. CASE head # Null
    <3>1. f[0] = {head}
      BY <1>4, <2>2
    <3>2. Cardinality(f[0]) = 1
      BY <3>1, FS_Singleton
    <3>. QED BY <3>2, <1>5
  <2>. QED BY <2>1, <2>2
<1>12. ASSUME NEW k \in 0 .. K - 1, k \in T
       PROVE  k + 1 \in T
  <2>1. f[k + 1] = Along(heap, f[k]) /\ k + 1 \in 0 .. K /\ k \in 0 .. K /\ k \in Nat
    BY <1>4, <1>5
  <2>2. CASE Settled(k)
    <3>1. f[k + 1] = f[k]
      BY <2>1, <2>2
    <3>2. Settled(k + 1)
      BY <3>1, <2>2
    <3>. QED BY <3>2, <2>1
  <2>3. CASE ~Settled(k)
    <3>1. f[k] \in SUBSET f[k + 1] /\ f[k] # f[k + 1]
      BY <2>1, <2>3 DEF Along
    <3>2. IsFiniteSet(f[k + 1]) /\ Cardinality(f[k + 1]) \in Nat /\ Cardinality(f[k]) \in Nat
      BY <2>1, <1>10
    <3>3. Cardinality(f[k]) <= Cardinality(f[k + 1]) /\ Cardinality(f[k + 1]) # Cardinality(f[k])
      BY <3>1, <3>2, FS_Subset
    <3>4. Cardinality(f[k]) >= k + 1
      BY <1>12, <2>3
    <3>5. Cardinality(f[k + 1]) >= (k + 1) + 1
      BY <3>2, <3>3, <3>4, <2>1
    <3>. QED BY <3>5, <2>1
  <2>. QED BY <2>2, <2>3
<1>13. Settled(K)
  <2>1. 0 \in Int /\ K \in Int /\ K \in 0 .. K
    BY <1>5
  <2>2. K \in T
    <3>. HIDE DEF T
    <3>. QED BY <2>1, <1>11, <1>12, UpTo
  <2>3. ~(Cardinality(f[K]) >= K + 1)
    BY <2>1, <1>5, <1>10
  <2>. QED BY <2>2, <2>3
<1>14. \A k \in 0 .. K : f[0] \subseteq f[k]
  <2>. DEFINE R == {k \in 0 .. K : f[0] \subseteq f[k]}
  <2>1. 0 \in R
    BY <1>5
  <2>2. \A k \in 0 .. K - 1 : k \in R => k + 1 \in R
    BY <1>4, <1>5 DEF Along
  <2>3. 0 \in Int /\ K \in Int
    BY <1>5
  <2>4. \A k \in 0 .. K : k \in R
    <3>. HIDE DEF R
    <3>. QED BY <2>1, <2>2, <2>3, UpTo
  <2>. QED BY <2>4
<1>. DEFINE X == f[K]
<1>15. /\ X \subseteq S /\ Along(heap, X) = X /\ (head # Null => head \in X)
  <2>1. K \in 0 .. K
    BY <1>5
  <2>. QED BY <2>1, <1>4, <1>8, <1>13, <1>14
<1>16. ASSUME NEW c \in X, heap.mem[c + 8] \in Places
       PROVE  heap.mem[c + 8] \in X
  <2>. HIDE DEF X
  <2>. QED BY <1>15, <1>16 DEF Along
<1>. HIDE DEF X
<1>17. PICK rank \in [F -> Nat] :
         \A c \in F : heap.mem[c + 12] # Null => rank[heap.mem[c + 12]] < rank[c]
  BY <1>1 DEF Linked, Ranked
<1>18. S \subseteq X
  <2>. SUFFICES ASSUME S \ X # {} PROVE FALSE
    OBVIOUS
  <2>. DEFINE Q == {rank[c] : c \in S \ X}
  <2>1. Q \subseteq Nat /\ Q # {}
    OBVIOUS
  <2>2. PICK t \in Q : \A x \in Q : t <= x
    BY <2>1, LeastMember
  <2>3. PICK c \in S \ X : t = rank[c]
    BY <2>2
  <2>4. \A d \in S \ X : rank[c] <= rank[d]
    BY <2>2, <2>3
  <2>. DEFINE p == heap.mem[c + 12]
  <2>5. p # Null
    <3>. SUFFICES ASSUME p = Null PROVE FALSE
      OBVIOUS
    <3>1. Head(heap, Idx(heap, c)) = c
      BY <1>1 DEF Linked, Chained
    <3>2. head = c /\ c # Null
      BY <3>1, <1>1, <1>2
    <3>. QED BY <3>2, <1>15, <2>3
  <2>6. p \in S /\ heap.mem[p + 8] = c
    BY <2>5, <1>1 DEF Linked, Chained
  <2>7. rank[p] < rank[c] /\ rank[p] \in Nat /\ rank[c] \in Nat
    BY <2>5, <2>6, <1>17
  <2>8. p \in X
    BY <2>4, <2>6, <2>7
  <2>9. c \in Places
    BY <1>1
  <2>10. c \in X
    BY <2>6, <2>8, <2>9, <1>16
  <2>. QED BY <2>10, <2>3
<1>. QED BY <1>4, <1>15, <1>18 DEF X

(* Lists walked are those of the invariant.                                *)
LEMMA ListsFollow ==
  ASSUME PoolFits, HeapInv
  PROVE  ListsExact
<1>1. PICK B, F : Whole(heap, B, F, F) /\ FreeBlocks = F
  BY HeldIs
<1>2. HeapTyped(heap) /\ Tiled(heap, B) /\ Linked(heap, F) /\ F \subseteq B \ {Sentinel}
  BY <1>1 DEF Whole, Flagged
<1>3. Null \notin F
  <2>1. Roomy(heap, F)
    BY <1>2, RoomyIs
  <2>. QED BY <2>1 DEF Roomy
<1>4. ASSUME NEW f \in Fls, NEW s \in Sls, NEW list, list = Listed(heap.head[f][s])
      PROVE  /\ list = {b \in F : MappingInsert(SizeOf(heap, b)) = [fl |-> f, sl |-> s]}
             /\ \A b \in list :
                  /\ b = heap.head[f][s] => heap.mem[b + 12] = Null
                  /\ heap.mem[b + 8] # Null => heap.mem[heap.mem[b + 8] + 12] = b
             /\ s \in heap.sl[f] <=> list # {}
  <2>. DEFINE i == [fl |-> f, sl |-> s]
  <2>1. i \in Pairs /\ Head(heap, i) = heap.head[f][s] /\ i.fl = f /\ i.sl = s
    BY DEF Pairs, Head
  <2>. HIDE DEF i
  <2>2. list = {b \in F : Idx(heap, b) = i}
    BY <2>1, <1>1, <1>4, ListedAre
  <2>3. ASSUME NEW b \in list
        PROVE  /\ b = heap.head[f][s] => heap.mem[b + 12] = Null
               /\ heap.mem[b + 8] # Null => heap.mem[heap.mem[b + 8] + 12] = b
    <3>1. b \in F /\ b # Null
      BY <2>2, <1>3
    <3>. QED BY <3>1, <2>1, <1>2 DEF Linked, Chained, Headed
  <2>4. s \in heap.sl[f] <=> Head(heap, i) # Null
    BY <2>1, <1>2 DEF Linked, Headed
  <2>5. Head(heap, i) # Null => Head(heap, i) \in list
    BY <2>1, <2>2, <1>2 DEF Linked, Headed
  <2>6. ASSUME NEW b \in list
        PROVE  Head(heap, i) # Null
    <3>1. b \in F /\ b # Null /\ Idx(heap, b) = i
      BY <2>2, <1>3
    <3>. QED BY <3>1, <1>2, <1>3, ListHasHead
  <2>7. s \in heap.sl[f] <=> list # {}
    BY <2>4, <2>5, <2>6
  <2>8. list = {b \in F : MappingInsert(SizeOf(heap, b)) = [fl |-> f, sl |-> s]}
    BY <2>2 DEF Idx, i
  <2>. QED BY <2>3, <2>7, <2>8
<1>5. heap.fl = {f \in Fls : heap.sl[f] # {}}
  <2>1. heap.fl \subseteq Fls
    BY <1>2 DEF HeapTyped
  <2>. QED BY <2>1, <1>2 DEF Linked, Mapped
<1>. QED BY <1>1, <1>4, <1>5 DEF ListsExact

(* Each free block is in the list of its size and in no other, lists lead  *)
(* back as they lead forward, and a bit of the bitmaps is set exactly when *)
(* its list holds a block.                                                 *)
THEOREM Lists ==
  ASSUME PoolFits, RequestsFit
  PROVE  Spec => []ListsExact
<1>1. HeapInv => ListsExact
  BY ListsFollow
<1>. QED BY <1>1, Invariance, PTL

-----------------------------------------------------------------------------
(* What the heap promises its callers. *)

Stretch(h, p, n) ==
  [size |-> SizeOf(h, FromPtr(p)), data |-> [i \in 0 .. (n \div 4) - 1 |-> h.mem[p + 4 * i]]]
OwnedOf(h, lv) == [p \in DOMAIN lv |-> Stretch(h, p, lv[p].n)]

(* What users own, before and after a step.                                *)
LEMMA OwnedIs ==
  /\ Owned = OwnedOf(heap, live)
  /\ Owned' = OwnedOf(heap', live')
BY DEF Owned, OwnedOf, Stretch

(* A pointer that a user holds.                                            *)
LEMMA ServedIs ==
  ASSUME NEW h, NEW lv, Holds(h, lv), NEW p \in DOMAIN lv, NEW b, b = FromPtr(p)
  PROVE  /\ Kept(h, Held(lv)) /\ b \in Held(lv) /\ p = ToPtr(b) /\ p \in Nat
         /\ lv[p].n \in Nat /\ lv[p].n <= SizeOf(h, b)
<1>1. Serves(h, p, lv[p]) /\ Kept(h, Held(lv))
  BY DEF Holds
<1>2. lv[p] \in [n : Nat, tag : Contents, al : Nat]
  BY <1>1 DEF Serves, Entry
<1>. QED BY <1>1, <1>2, Pointers DEF Serves

(* Nobody shares what he owns. *)
LEMMA OwnedApart ==
  ASSUME NEW h, NEW lv, Holds(h, lv)
  PROVE  Promise!Sound(OwnedOf(h, lv))
<1>. DEFINE o == OwnedOf(h, lv)
<1>1. DOMAIN o = DOMAIN lv /\ \A p \in DOMAIN lv : o[p].size = SizeOf(h, FromPtr(p))
  BY DEF OwnedOf, Stretch
<1>. HIDE DEF o
<1>2. ASSUME NEW p \in DOMAIN lv
      PROVE  Promise!Inside(p, o)
  <2>. DEFINE b == FromPtr(p)
  <2>1. Kept(h, Held(lv)) /\ b \in Held(lv) /\ p = ToPtr(b)
    BY ServedIs
  <2>. HIDE DEF b
  <2>2. /\ b \in Nat /\ b \in Places /\ SizeOf(h, b) \in Nat /\ BlockNext(h, b) = b + 4 + SizeOf(h, b)
        /\ BlockNext(h, b) <= Sentinel
    BY <2>1, KeptIs
  <2>3. Start <= b /\ Start \in Nat /\ Sentinel \in Nat
    BY <2>2, PlacesAre, Addresses
  <2>4. p = b + 8
    BY <2>1 DEF ToPtr
  <2>5. o[p].size = SizeOf(h, b)
    BY <1>1 DEF b
  <2>6. Start + 4 <= p - 4 /\ p + SizeOf(h, b) <= Sentinel + 4
    BY <2>2, <2>3, <2>4
  <2>. QED BY <2>5, <2>6 DEF Promise!Inside
<1>3. ASSUME NEW p \in DOMAIN lv, NEW q \in DOMAIN lv, p # q
      PROVE  Promise!Apart(p, q, o)
  <2>. DEFINE b == FromPtr(p)
              c == FromPtr(q)
  <2>1. Kept(h, Held(lv)) /\ b \in Held(lv) /\ p = ToPtr(b) /\ c \in Held(lv) /\ q = ToPtr(c)
    BY ServedIs
  <2>2. o[p].size = SizeOf(h, b) /\ o[q].size = SizeOf(h, c)
    BY <1>1
  <2>. HIDE DEF b, c
  <2>3. PICK B, F : Whole(h, B, F, F) /\ Held(lv) = B \ (F \cup {Sentinel})
    BY <2>1 DEF Kept
  <2>4. HeapTyped(h) /\ Tiled(h, B) /\ b \in B \ {Sentinel} /\ c \in B \ {Sentinel}
    BY <2>1, <2>3 DEF Whole
  <2>5. /\ b \in Nat /\ SizeOf(h, b) \in Nat /\ BlockNext(h, b) = b + 4 + SizeOf(h, b)
        /\ c \in Nat /\ SizeOf(h, c) \in Nat /\ BlockNext(h, c) = c + 4 + SizeOf(h, c)
    BY <2>4, BlockIs
  <2>6. (b < c => BlockNext(h, b) <= c) /\ (c < b => BlockNext(h, c) <= b)
    BY <2>4, Distance
  <2>7. p = b + 8 /\ q = c + 8 /\ b # c
    BY <2>1, <1>3 DEF ToPtr
  <2>8. p + SizeOf(h, b) <= q - 4 \/ q + SizeOf(h, c) <= p - 4
    BY <2>5, <2>6, <2>7
  <2>. QED BY <2>2, <2>8 DEF Promise!Apart
<1>. QED BY <1>1, <1>2, <1>3 DEF Promise!Sound, o

(* A block that is spared keeps what its user stored.                      *)
LEMMA OwnedStays ==
  ASSUME NEW h, NEW lv, Holds(h, lv), NEW p \in DOMAIN lv, NEW g, NEW V, Spares(h, g, V),
         FromPtr(p) \in V
  PROVE  Stretch(g, p, lv[p].n) = Stretch(h, p, lv[p].n)
<1>. DEFINE b == FromPtr(p)
            n == lv[p].n
<1>1. /\ Kept(h, Held(lv)) /\ b \in Held(lv) /\ p = ToPtr(b) /\ n \in Nat /\ n <= SizeOf(h, b)
  BY ServedIs
<1>2. SizeOf(g, b) = SizeOf(h, b)
  BY DEF Spares
<1>3. Carries(h, g, p, p, n)
  <2>. HIDE DEF b, n
  <2>1. b \in V
    BY DEF b
  <2>. QED BY <1>1, <2>1, CarriesSpared
<1>. HIDE DEF n
<1>4. ASSUME NEW i \in 0 .. (n \div 4) - 1
      PROVE  g.mem[p + 4 * i] = h.mem[p + 4 * i]
  <2>1. i \in Nat /\ 4 * i + 4 <= n
    BY <1>1
  <2>. QED BY <2>1, <1>3 DEF Carries
<1>. QED BY <1>2, <1>4 DEF Stretch, n

(* malloc() and memalign() do as promised.                                 *)
LEMMA AllocateKept ==
  ASSUME Holds(heap, live), NEW r, Allocates(heap, live, heap', live', r)
  PROVE  Promise!Allocate
<1>. DEFINE old == OwnedOf(heap, live)
            new == OwnedOf(heap', live')
<1>1. /\ r \notin DOMAIN live /\ Spares(heap, heap', Held(live)) /\ Holds(heap', live')
      /\ \E e : live' = With(live, r, e)
  BY DEF Allocates
<1>2. PICK e : live' = With(live, r, e)
  BY <1>1
<1>3. DOMAIN live' = DOMAIN live \cup {r} /\ \A q \in DOMAIN live : live'[q] = live[q]
  BY <1>1, <1>2 DEF With
<1>4. DOMAIN old = DOMAIN live /\ DOMAIN new = DOMAIN live'
  BY DEF OwnedOf
<1>5. ASSUME NEW q \in DOMAIN live
      PROVE  new[q] = old[q]
  <2>1. FromPtr(q) \in Held(live)
    BY DEF Held
  <2>2. Stretch(heap', q, live[q].n) = Stretch(heap, q, live[q].n)
    BY <2>1, <1>1, OwnedStays
  <2>. QED BY <2>2, <1>3 DEF OwnedOf
<1>6. Promise!Sound(new)
  BY <1>1, OwnedApart
<1>7. Owned = old /\ Owned' = new
  BY OwnedIs
<1>. HIDE DEF old, new
<1>8. /\ r \in DOMAIN new \ DOMAIN old /\ DOMAIN new = DOMAIN old \cup {r}
      /\ \A q \in DOMAIN old : new[q] = old[q]
  BY <1>1, <1>3, <1>4, <1>5
<1>. QED BY <1>6, <1>7, <1>8 DEF Promise!Allocate

(* So does free().                                                         *)
LEMMA ReleaseKept ==
  ASSUME Holds(heap, live), NEW p, Releases(heap, live, heap', live', p)
  PROVE  Promise!Release
<1>. DEFINE old == OwnedOf(heap, live)
            new == OwnedOf(heap', live')
<1>1. /\ p \in DOMAIN live /\ Spares(heap, heap', Held(live) \ {FromPtr(p)})
      /\ live' = Without(live, p)
  BY DEF Releases
<1>2. DOMAIN live' = DOMAIN live \ {p} /\ \A q \in DOMAIN live \ {p} : live'[q] = live[q]
  BY <1>1 DEF Without
<1>3. DOMAIN old = DOMAIN live
  BY DEF OwnedOf
<1>4. ASSUME NEW q \in DOMAIN live \ {p}
      PROVE  Stretch(heap', q, live'[q].n) = old[q]
  <2>1. FromPtr(q) \in Held(live) \ {FromPtr(p)}
    BY <1>1, Pointers
  <2>2. Stretch(heap', q, live[q].n) = Stretch(heap, q, live[q].n)
    BY <2>1, <1>1, OwnedStays
  <2>. QED BY <2>2, <1>2 DEF OwnedOf
<1>5. new = [q \in DOMAIN old \ {p} |-> old[q]]
  <2>1. new = [q \in DOMAIN live' |-> Stretch(heap', q, live'[q].n)]
    BY DEF OwnedOf
  <2>. HIDE DEF new, old
  <2>. QED BY <2>1, <1>2, <1>3, <1>4
<1>6. Owned = old /\ Owned' = new
  BY OwnedIs
<1>. HIDE DEF old, new
<1>7. p \in DOMAIN Owned /\ Owned' = Promise!Without(p)
  BY <1>1, <1>3, <1>5, <1>6 DEF Promise!Without
<1>. QED BY <1>7 DEF Promise!Release

(* So does realloc().                                                      *)
LEMMA ResizeKept ==
  ASSUME Holds(heap, live), NEW p, NEW r, Resized(heap, live, heap', live', p, r)
  PROVE  Promise!Resize
<1>. DEFINE old == OwnedOf(heap, live)
            new == OwnedOf(heap', live')
<1>1. /\ p \in DOMAIN live /\ r \in DOMAIN live'
      /\ DOMAIN live' = (DOMAIN live \ {p}) \cup {r}
      /\ \A q \in DOMAIN live \ {p} : live'[q] = live[q] /\ q # r
      /\ \A m \in Nat : m <= live[p].n /\ m <= live'[r].n => Carries(heap, heap', p, r, m)
      /\ Spares(heap, heap', Held(live) \ {FromPtr(p)}) /\ Holds(heap', live')
  BY DEF Resized
<1>2. /\ DOMAIN old = DOMAIN live /\ DOMAIN new = DOMAIN live'
      /\ old[p] = Stretch(heap, p, live[p].n) /\ new[r] = Stretch(heap', r, live'[r].n)
  BY <1>1 DEF OwnedOf
<1>3. ASSUME NEW q \in DOMAIN live \ {p}
      PROVE  new[q] = old[q]
  <2>1. FromPtr(q) \in Held(live) \ {FromPtr(p)}
    BY <1>1, Pointers
  <2>2. Stretch(heap', q, live[q].n) = Stretch(heap, q, live[q].n)
    BY <2>1, <1>1, OwnedStays
  <2>. QED BY <2>2, <1>1 DEF OwnedOf
<1>4. live[p].n \in Nat /\ live'[r].n \in Nat
  <2>1. live[p].n \in Nat
    BY <1>1, ServedIs
  <2>2. live'[r].n \in Nat
    <3>1. Serves(heap', r, live'[r])
      BY <1>1 DEF Holds
    <3>2. live'[r] \in [n : Nat, tag : Contents, al : Nat]
      BY <3>1 DEF Serves, Entry
    <3>. QED BY <3>2
  <2>. QED BY <2>1, <2>2
<1>5. Promise!KeepsData(old[p].data, new[r].data)
  <2>. DEFINE n == live[p].n
              m == live'[r].n
              before == [i \in 0 .. (n \div 4) - 1 |-> heap.mem[p + 4 * i]]
              after == [i \in 0 .. (m \div 4) - 1 |-> heap'.mem[r + 4 * i]]
  <2>1. old[p].data = before /\ new[r].data = after
    BY <1>2 DEF Stretch
  <2>2. n \in Nat /\ m \in Nat
    BY <1>4
  <2>. HIDE DEF n, m
  <2>3. ASSUME NEW i \in (0 .. (n \div 4) - 1) \cap (0 .. (m \div 4) - 1)
        PROVE  after[i] = before[i]
    <3>. DEFINE z == 4 * i + 4
    <3>1. i \in Nat /\ z \in Nat /\ z <= n /\ z <= m /\ 4 * i + 4 <= z
      BY <2>2
    <3>. HIDE DEF z
    <3>2. Carries(heap, heap', p, r, z)
      BY <3>1, <1>1 DEF n, m
    <3>3. heap'.mem[r + 4 * i] = heap.mem[p + 4 * i]
      BY <3>1, <3>2 DEF Carries
    <3>. QED BY <3>3
  <2>. QED BY <2>1, <2>3 DEF Promise!KeepsData
<1>6. Promise!Sound(new)
  BY <1>1, OwnedApart
<1>7. Owned = old /\ Owned' = new
  BY OwnedIs
<1>. HIDE DEF old, new
<1>8. /\ p \in DOMAIN old /\ r \in DOMAIN new /\ DOMAIN new = (DOMAIN old \ {p}) \cup {r}
      /\ \A q \in DOMAIN old \ {p} : new[q] = old[q]
  BY <1>1, <1>2, <1>3
<1>. QED BY <1>5, <1>6, <1>7, <1>8 DEF Promise!Resize

(* Seen from its callers the heap is nothing but the stretches that they   *)
(* own: each call gives one, takes one back or carries one to another      *)
(* size, and leaves what all others have stored as it is.                  *)
THEOREM Refinement ==
  ASSUME PoolFits, RequestsFit
  PROVE  Spec => KeepsPromise
<1>1. Init => Promise!Init
  <2>. SUFFICES ASSUME Init PROVE Promise!Init
    OBVIOUS
  <2>1. DOMAIN live = {}
    BY DEF Init
  <2>2. Owned = [p \in {} |-> 0]
    BY <2>1 DEF Owned
  <2>. QED BY <2>2 DEF Promise!Init
<1>2. ASSUME HeapInv, [Next]_vars
      PROVE  [Promise!Next]_Owned
  <2>1. Changes
    BY <1>2, Steps
  <2>2. Holds(heap, live)
    BY <1>2 DEF HeapInv
  <2>3. CASE \E r : Allocates(heap, live, heap', live', r)
    BY <2>2, <2>3, AllocateKept DEF Promise!Next
  <2>4. CASE \E p : Releases(heap, live, heap', live', p)
    BY <2>2, <2>4, ReleaseKept DEF Promise!Next
  <2>5. CASE \E p, r : Resized(heap, live, heap', live', p, r)
    BY <2>2, <2>5, ResizeKept DEF Promise!Next
  <2>6. CASE UNCHANGED <<heap, live>>
    <3>1. heap' = heap /\ live' = live
      BY <2>6
    <3>2. Owned' = Owned
      BY <3>1, OwnedIs
    <3>. QED BY <3>2
  <2>. QED BY <2>1, <2>3, <2>4, <2>5, <2>6 DEF Changes
<1>. QED BY <1>1, <1>2, Invariance, PTL DEF Spec, KeepsPromise, Promise!Spec
=============================================================================
