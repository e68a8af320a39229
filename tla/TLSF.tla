--------------------------------- MODULE TLSF ---------------------------------
(***************************************************************************)
(* The heap: tlsf.c and its callers in tlsf_malloc.c, on the words of the  *)
(* pool.  A block header overlaps its neighbours: prev_phys_block is the   *)
(* last word of the block before, next_free and prev_free are the first    *)
(* words of the user's data.  The words of the pool are numbers, whoever   *)
(* wrote them, so that a user's data read as a header acts as it would.    *)
(* pool_t itself (bitmaps and list heads) lies outside the pool; links of  *)
(* block_null are written and never read, and are left out.                *)
(*                                                                         *)
(* Each call is one step: nothing interrupts it.  Operators named ...Bug   *)
(* are single mistakes in the definition that follows; nothing uses them.  *)
(***************************************************************************)
EXTENDS Bits

CONSTANTS SL_INDEX_COUNT_LOG2,   \* 5 in the program
          FL_INDEX_MAX,          \* 30 in the program
          Start,        \* address of the first block, whose first word is outside
          PoolBytes,    \* pool_bytes of tlsf_create(): 388 in the program
          Garbage,      \* what the pool's words hold at first
          Requests, Zeroed, Resizes, AlignedRequests, Alignments,   \* arguments
          Tags          \* what users store

ASSUME IndexAssumption == /\ SL_INDEX_COUNT_LOG2 \in Nat \ {0}
                          /\ FL_INDEX_MAX \in Nat /\ FL_INDEX_MAX > SL_INDEX_COUNT_LOG2 + 2
ASSUME PoolAssumption ==
  /\ Start \in Nat \ {0} /\ Start % 4 = 0
  /\ PoolBytes \in 12 .. Pow2[FL_INDEX_MAX] /\ PoolBytes % 4 = 0
ASSUME ArgumentAssumption ==
  /\ Garbage \in Nat /\ Tags \subseteq Nat
  /\ Requests \subseteq Nat /\ Zeroed \subseteq Nat
  /\ Resizes \subseteq Nat /\ AlignedRequests \subseteq Nat
  /\ \A al \in Alignments : \E k \in 2 .. 12 : al = Pow2[k]

VARIABLES heap,   \* the words of the pool, the bitmaps and the list heads
          live,   \* what users hold: from pointers to what was asked for
          lost    \* a list index outside the tables, or a null pointer, was used

vars == <<heap, live, lost>>

ALIGN_SIZE == 4
SL_INDEX_COUNT == Pow2[SL_INDEX_COUNT_LOG2]
FL_INDEX_SHIFT == SL_INDEX_COUNT_LOG2 + 2
FL_INDEX_COUNT == FL_INDEX_MAX - FL_INDEX_SHIFT + 1
SMALL_BLOCK_SIZE == Pow2[FL_INDEX_SHIFT]
BlockSizeMin == 12
BlockSizeMax == Pow2[FL_INDEX_MAX]
HeaderSize == 16                         \* sizeof(block_header_t)

Null == 0                                \* &pool->block_null, or NULL
Sentinel == Start + 4 + PoolBytes
Words == {Start + 4 * k : k \in 1 .. PoolBytes \div 4 + 2}
Fls == 0 .. FL_INDEX_COUNT - 1
Sls == 0 .. SL_INDEX_COUNT - 1

-----------------------------------------------------------------------------
(* Headers: the size with bit 0 for free, bit 1 for previous free.         *)

(* A store outside the pool leaves a word there that TypeOK sees; what a   *)
(* read finds outside is not known.                                        *)
Word(h, a) == IF a \in DOMAIN h.mem THEN h.mem[a] ELSE Garbage
Put(h, a, v) ==
  IF a \in Words THEN [h EXCEPT !.mem[a] = v]
  ELSE [h EXCEPT !.mem = [x \in DOMAIN @ \cup {a} |-> IF x = a THEN v ELSE @[x]]]
Header(h, b) == Word(h, b + 4)
SizeOf(h, b) == (Header(h, b) \div 4) * 4
IsFree(h, b) == Header(h, b) % 2 = 1
IsPrevFree(h, b) == (Header(h, b) \div 2) % 2 = 1
BlockNext(h, b) == b + 4 + SizeOf(h, b) 

WithSize(h, b, s) == Put(h, b + 4, s + (Header(h, b) % 4))
WithFree(h, b, bit) == Put(h, b + 4, (Header(h, b) \div 2) * 2 + bit)
WithPrevFree(h, b, bit) ==
  Put(h, b + 4, SizeOf(h, b) + 2 * bit + (Header(h, b) % 2))

LinkNext(h, b) == Put(h, BlockNext(h, b), b)
MarkFreeBug(h, b) ==          \* the neighbour keeps an old back pointer
  WithFree(WithPrevFree(h, BlockNext(h, b), 1), b, 1)
MarkFree(h, b) == WithFree(WithPrevFree(LinkNext(h, b), BlockNext(h, b), 1), b, 1)
MarkUsed(h, b) == WithFree(WithPrevFree(h, BlockNext(h, b), 0), b, 0)

-----------------------------------------------------------------------------
(* Sizes and the lists they belong to. *)

AlignUp(x, al) == ((x + al - 1) \div al) * al
AdjustRequestSize(n, al) ==
  IF n > 0 /\ n < BlockSizeMax
  THEN IF AlignUp(n, al) < BlockSizeMin THEN BlockSizeMin ELSE AlignUp(n, al)
  ELSE 0

FindLastSet(x) == CHOOSE k \in 0 .. FL_INDEX_MAX + 2 : Pow2[k] <= x /\ x < Pow2[k + 1]

MappingInsert(s) ==
  IF s < SMALL_BLOCK_SIZE
  THEN [fl |-> 0, sl |-> s \div (SMALL_BLOCK_SIZE \div SL_INDEX_COUNT)]
  ELSE LET f == FindLastSet(s)
       IN  [fl |-> f - (FL_INDEX_SHIFT - 1),
            sl |-> s \div Pow2[f - SL_INDEX_COUNT_LOG2] - SL_INDEX_COUNT]

RoundedBug(s) == s            \* the list of the size itself is searched
Rounded(s) == IF s >= SL_INDEX_COUNT
              THEN s + Pow2[FindLastSet(s) - SL_INDEX_COUNT_LOG2] - 1 ELSE s
MappingSearch(s) == MappingInsert(Rounded(s))

-----------------------------------------------------------------------------
(* Free lists. *)

LeastOf(S) == CHOOSE x \in S : \A y \in S : x <= y          \* tlsf_ffs

(* search_suitable_block(): the index it finds, with sl = -1 for none. *)
Suitable(h, i) ==
  LET sls == {s \in h.sl[i.fl] : s >= i.sl}
      fls == {f \in h.fl : f > i.fl}
  IN  IF sls # {} THEN [i EXCEPT !.sl = LeastOf(sls)]
      ELSE IF fls = {} THEN [i EXCEPT !.sl = -1]
      ELSE [fl |-> LeastOf(fls), sl |-> LeastOf(h.sl[LeastOf(fls)])]

Unlinked(h, b) ==
  LET prev == Word(h, b + 12)
      next == Word(h, b + 8)
      h1 == IF next = Null THEN h ELSE Put(h, next + 12, prev)
  IN  IF prev = Null THEN h1 ELSE Put(h1, prev + 8, next)

RemoveFreeBlockBug(h, b, i) ==           \* the first-level bit is not cleared
  LET next == Word(h, b + 8)
      u == Unlinked(h, b)
  IN  IF h.head[i.fl][i.sl] # b THEN u
      ELSE [u EXCEPT !.head[i.fl][i.sl] = next,
                     !.sl[i.fl] = IF next = Null THEN @ \ {i.sl} ELSE @]
RemoveFreeBlock(h, b, i) ==
  LET next == Word(h, b + 8)
      u == Unlinked(h, b)
  IN  IF h.head[i.fl][i.sl] # b THEN u
      ELSE [u EXCEPT !.head[i.fl][i.sl] = next,
                     !.sl[i.fl] = IF next = Null THEN @ \ {i.sl} ELSE @,
                     !.fl = IF next = Null /\ h.sl[i.fl] = {i.sl} THEN @ \ {i.fl} ELSE @]

InsertFreeBlock(h, b, i) ==
  LET current == h.head[i.fl][i.sl]
      h1 == Put(Put(h, b + 8, current), b + 12, Null)
      h2 == IF current = Null THEN h1 ELSE Put(h1, current + 12, b)
  IN  [h2 EXCEPT !.head[i.fl][i.sl] = b, !.fl = @ \cup {i.fl}, !.sl[i.fl] = @ \cup {i.sl}]

BlockRemove(h, b) == RemoveFreeBlock(h, b, MappingInsert(SizeOf(h, b)))
BlockInsert(h, b) == InsertFreeBlock(h, b, MappingInsert(SizeOf(h, b)))

-----------------------------------------------------------------------------
(* Splitting and merging. *)

CanSplitBug(h, b, s) == SizeOf(h, b) >= 4 + s     \* no room for the links
CanSplit(h, b, s) == SizeOf(h, b) >= HeaderSize + s
Remaining(b, s) == b + 4 + s
Split(h, b, s) ==
  LET rest == SizeOf(h, b) - (s + 4)
      cut == WithSize(WithSize(h, Remaining(b, s), rest), b, s)
  IN  MarkFree(cut, Remaining(b, s))

AbsorbBug(h, prev, b) ==      \* the header absorbed is not counted
  LinkNext(Put(h, prev + 4, Header(h, prev) + SizeOf(h, b)), prev)
Absorb(h, prev, b) ==
  LET grown == Put(h, prev + 4, Header(h, prev) + SizeOf(h, b) + 4)
  IN  LinkNext(grown, prev)

(* The block that results, and the heap with it. *)
MergePrev(h, b) ==
  IF ~IsPrevFree(h, b) THEN [block |-> b, heap |-> h]
  ELSE [block |-> Word(h, b), heap |-> Absorb(BlockRemove(h, Word(h, b)), Word(h, b), b)]

MergeNext(h, b) ==
  IF ~IsFree(h, BlockNext(h, b)) THEN h
  ELSE Absorb(BlockRemove(h, BlockNext(h, b)), b, BlockNext(h, b))

TrimFree(h, b, s) ==
  IF ~CanSplit(h, b, s) THEN h
  ELSE BlockInsert(WithPrevFree(LinkNext(Split(h, b, s), b), Remaining(b, s), 1),
                   Remaining(b, s))

TrimUsed(h, b, s) ==
  IF ~CanSplit(h, b, s) THEN h
  ELSE LET r == Remaining(b, s)
       IN  BlockInsert(MergeNext(WithPrevFree(Split(h, b, s), r, 0), r), r)

(* The second block is wanted. *)
TrimFreeLeading(h, b, s) ==
  IF ~CanSplit(h, b, s) THEN [block |-> b, heap |-> h]
  ELSE LET r == Remaining(b, s - 4)
           cut == LinkNext(WithPrevFree(Split(h, b, s - 4), r, 1), b)
       IN  [block |-> r, heap |-> BlockInsert(cut, b)]

-----------------------------------------------------------------------------
(* Finding a block and giving it out. *)

OutOfRange(s) == s > 0 /\ MappingSearch(s).fl \notin Fls

(* block_locate_free(): Null if there is none; the block leaves its list.  *)
LocateFree(h, s) ==
  LET i == Suitable(h, MappingSearch(s))
  IN  IF s = 0 \/ i.sl = -1 THEN [block |-> Null, heap |-> h]
      ELSE [block |-> h.head[i.fl][i.sl],
            heap |-> RemoveFreeBlock(h, h.head[i.fl][i.sl], i)]

PrepareUsed(h, b, s) == MarkUsed(TrimFree(h, b, s), b)

ToPtr(b) == b + 8
FromPtr(p) == p - 8

TlsfFree(h, p) ==
  LET m == MergePrev(MarkFree(h, FromPtr(p)), FromPtr(p))
  IN  BlockInsert(MergeNext(m.heap, m.block), m.block)

-----------------------------------------------------------------------------
(* tlsf_create(), and what its callers do with the words they own.         *)

Contents == Tags \cup {0}

EmptyPool == [mem |-> [a \in Words |-> Garbage],
              fl |-> {}, sl |-> [f \in Fls |-> {}],
              head |-> [f \in Fls |-> [s \in Sls |-> Null]]]

Create ==
  LET sized == WithPrevFree(WithFree(WithSize(EmptyPool, Start, PoolBytes), Start, 1), Start, 0)
      linked == LinkNext(BlockInsert(sized, Start), Start)
  IN  WithPrevFree(WithFree(WithSize(linked, Sentinel, 0), Sentinel, 0), Sentinel, 1)

Init == heap = Create /\ live = [p \in {} |-> 0] /\ lost = FALSE

(* The user stores tag t in the whole words of bytes m .. n - 1. *)
Stored(h, p, m, n, t) ==
  [h EXCEPT !.mem = [a \in Words |-> IF a >= p + m /\ a + 4 <= p + n THEN t ELSE @[a]]]

(* memcpy(r, p, n), whole words. *)
Copied(h, r, p, n) ==
  [h EXCEPT !.mem = [a \in Words |-> IF a >= r /\ a + 4 <= r + n THEN @[p + (a - r)] ELSE @[a]]]

Handed(p, n, t, al) ==
  live' = [q \in DOMAIN live \cup {p} |->
             IF q = p THEN [n |-> n, tag |-> t, al |-> al] ELSE live[q]]

-----------------------------------------------------------------------------
(* malloc() asks for a byte when asked for none. *)

AtLeastOne(n) == IF n = 0 THEN 1 ELSE n

Malloc(n, t) ==
  LET size == AdjustRequestSize(AtLeastOne(n), ALIGN_SIZE)
      l == LocateFree(heap, size)
  IN  /\ ~lost /\ ~OutOfRange(size)
      /\ l.block # Null
      /\ heap' = Stored(PrepareUsed(l.heap, l.block, size), ToPtr(l.block), 0, n, t)
      /\ Handed(ToPtr(l.block), n, t, ALIGN_SIZE)
      /\ UNCHANGED lost

(* No block is large enough for s bytes, or the tables are read behind     *)
(* their end.                                                              *)
Finds(s) == ~lost /\ ~OutOfRange(s)
FindsNone(s) == Finds(s) /\ LocateFree(heap, s).block = Null
GoesAstray == ~lost /\ lost' = TRUE /\ UNCHANGED <<heap, live>>

MallocSize(n) == AdjustRequestSize(AtLeastOne(n), ALIGN_SIZE)
MallocFails(n) == FindsNone(MallocSize(n)) /\ UNCHANGED vars
MallocGoesAstray(n) == OutOfRange(MallocSize(n)) /\ GoesAstray

(* calloc() of a product of n stores n zeros, through a null pointer if it *)
(* got one.                                                                *)
Calloc(n) == \/ Malloc(n, 0)
             \/ n = 0 /\ MallocFails(n)
             \/ MallocGoesAstray(n)
             \/ n > 0 /\ FindsNone(MallocSize(n)) /\ GoesAstray

Free(p) ==
  /\ ~lost
  /\ heap' = TlsfFree(heap, p)
  /\ live' = [q \in DOMAIN live \ {p} |-> live[q]]
  /\ UNCHANGED lost

-----------------------------------------------------------------------------
(* tlsf_realloc() of a pointer to n > 0 bytes (0 bytes is Free).  The user  *)
(* then stores behind what he had.                                         *)

NeedsMove(p, size) ==
  LET b == FromPtr(p)
      next == BlockNext(heap, b)
      combined == SizeOf(heap, b) + SizeOf(heap, next) + 4
  IN  size > SizeOf(heap, b) /\ (~IsFree(heap, next) \/ size > combined)

Smaller(m, n) == IF m <= n THEN m ELSE n

ReallocInPlace(p, n) ==
  LET size == AdjustRequestSize(n, ALIGN_SIZE)
      b == FromPtr(p)
      grown == IF size > SizeOf(heap, b) THEN MarkUsed(MergeNext(heap, b), b) ELSE heap
  IN  /\ ~lost /\ n > 0 /\ ~NeedsMove(p, size)
      /\ heap' = Stored(TrimUsed(grown, b, size), p, live[p].n, n, live[p].tag)
      /\ Handed(p, n, live[p].tag, live[p].al) /\ UNCHANGED lost

ReallocMovesBug(p, n) ==       \* freed before it is copied
  LET size == AdjustRequestSize(n, ALIGN_SIZE)
      l == LocateFree(heap, size)
      r == ToPtr(l.block)
      freed == TlsfFree(PrepareUsed(l.heap, l.block, size), p)
      given == Copied(freed, r, p, Smaller(SizeOf(heap, FromPtr(p)), n))
  IN  /\ ~lost /\ n > 0 /\ NeedsMove(p, size) /\ ~OutOfRange(size)
      /\ l.block # Null
      /\ heap' = Stored(given, r, live[p].n, n, live[p].tag)
      /\ live' = [q \in (DOMAIN live \ {p}) \cup {r} |->
                    IF q = r THEN [n |-> n, tag |-> live[p].tag, al |-> ALIGN_SIZE]
                    ELSE live[q]]
      /\ UNCHANGED lost
ReallocMoves(p, n) ==
  LET size == AdjustRequestSize(n, ALIGN_SIZE)
      l == LocateFree(heap, size)
      r == ToPtr(l.block)
      given == Copied(PrepareUsed(l.heap, l.block, size), r, p,
                      Smaller(SizeOf(heap, FromPtr(p)), n))
  IN  /\ ~lost /\ n > 0 /\ NeedsMove(p, size) /\ ~OutOfRange(size)
      /\ l.block # Null
      /\ heap' = Stored(TlsfFree(given, p), r, live[p].n, n, live[p].tag)
      /\ live' = [q \in (DOMAIN live \ {p}) \cup {r} |->
                    IF q = r THEN [n |-> n, tag |-> live[p].tag, al |-> ALIGN_SIZE]
                    ELSE live[q]]
      /\ UNCHANGED lost

ReallocFails(p, n) ==
  LET size == AdjustRequestSize(n, ALIGN_SIZE)
  IN  n > 0 /\ NeedsMove(p, size) /\ FindsNone(size) /\ UNCHANGED vars

ReallocGoesAstray(p, n) ==
  LET size == AdjustRequestSize(n, ALIGN_SIZE)
  IN  n > 0 /\ NeedsMove(p, size) /\ OutOfRange(size) /\ GoesAstray

-----------------------------------------------------------------------------
(* tlsf_memalign(): a larger block is taken and its front given back.      *)

Gap(p, al) ==
  LET gap == AlignUp(p, al) - p
      offset == IF HeaderSize - gap > al THEN HeaderSize - gap ELSE al
  IN  IF gap > 0 /\ gap < HeaderSize
      THEN AlignUp(AlignUp(p, al) + offset, al) - p ELSE gap

SizeWithGapBug(size, al) == AdjustRequestSize(size + al, al)
SizeWithGap(size, al) == AdjustRequestSize(size + al + HeaderSize, al)
AlignedSize(n, al) ==
  LET size == AdjustRequestSize(n, ALIGN_SIZE)
  IN  IF al <= ALIGN_SIZE THEN size ELSE SizeWithGap(size, al)

Memalign(al, n, t) ==
  LET size == AdjustRequestSize(n, ALIGN_SIZE)
      l == LocateFree(heap, AlignedSize(n, al))
      gap == Gap(ToPtr(l.block), al)
      led == IF gap > 0 THEN TrimFreeLeading(l.heap, l.block, gap) ELSE l
  IN  /\ ~lost /\ ~OutOfRange(AlignedSize(n, al))
      /\ l.block # Null
      /\ heap' = Stored(PrepareUsed(led.heap, led.block, size), ToPtr(led.block), 0, n, t)
      /\ Handed(ToPtr(led.block), n, t, al)
      /\ UNCHANGED lost

MemalignFails(al, n) == FindsNone(AlignedSize(n, al)) /\ UNCHANGED vars
MemalignGoesAstray(al, n) == OutOfRange(AlignedSize(n, al)) /\ GoesAstray

-----------------------------------------------------------------------------
Calls ==
  \/ \E n \in Requests : MallocFails(n) \/ MallocGoesAstray(n) \/ \E t \in Tags : Malloc(n, t)
  \/ \E n \in Zeroed : Calloc(n)
  \/ \E p \in DOMAIN live :
       \/ Free(p)
       \/ \E n \in Resizes : \/ ReallocInPlace(p, n) \/ ReallocMoves(p, n)
                            \/ ReallocFails(p, n) \/ ReallocGoesAstray(p, n)
  \/ \E al \in Alignments, n \in AlignedRequests :
       \/ MemalignFails(al, n) \/ MemalignGoesAstray(al, n)
       \/ \E t \in Tags : Memalign(al, n, t)

(* Behind the tables, and at address 0, anything may be; nothing is said   *)
(* of it.                                                                  *)
Astray == lost /\ UNCHANGED vars

Next == Calls \/ Astray

Spec == Init /\ [][Next]_vars
-----------------------------------------------------------------------------
(* Properties.  Those of the structure are what tlsf_check_heap() insists  *)
(* on, and the assertions of the functions.                                *)

Places == {a - 4 : a \in Words}

(* The blocks met from the first on; the links met from a head on. *)
Blocks ==
  LET met[k \in 0 .. PoolBytes \div HeaderSize + 1] ==
        IF k = 0 THEN {Start}
        ELSE LET old == met[k - 1]
             IN  old \cup ({BlockNext(heap, b) : b \in {x \in old : SizeOf(heap, x) > 0}} \cap Places)
  IN  met[PoolBytes \div HeaderSize + 1]

Listed(head) ==
  LET met[k \in 0 .. PoolBytes \div HeaderSize + 1] ==
        IF k = 0 THEN {head} \ {Null}
        ELSE LET old == met[k - 1]
             IN  old \cup ({heap.mem[b + 8] : b \in old} \cap Places)
  IN  met[PoolBytes \div HeaderSize + 1]

FreeBlocks == {b \in Blocks : IsFree(heap, b)}

TypeOK ==
  /\ heap.mem \in [Words -> Nat]
  /\ heap.fl \subseteq Fls /\ heap.sl \in [Fls -> SUBSET Sls]
  /\ heap.head \in [Fls -> [Sls -> Places \cup {Null}]]
  /\ \A p \in DOMAIN live : live[p] \in [n : Nat, tag : Contents, al : Nat]
  /\ lost \in BOOLEAN

(* The blocks follow each other from the first to the sentinel, each with  *)
(* room for its own links.                                                 *)
BlocksTile ==
  /\ Sentinel \in Blocks /\ SizeOf(heap, Sentinel) = 0 /\ ~IsFree(heap, Sentinel)
  /\ \A b \in Blocks \ {Sentinel} :
       SizeOf(heap, b) >= BlockSizeMin /\ BlockNext(heap, b) \in Blocks

(* A block knows whether the one before it is free (integrity_walker() at  *)
(* tlsf.c:634, "prev status incorrect") and where that one begins, and no  *)
(* two neighbours are free.                                                *)
NeighboursAgree ==
  /\ ~IsPrevFree(heap, Start)
  /\ \A b \in Blocks \ {Sentinel} :
       /\ IsFree(heap, b) <=> IsPrevFree(heap, BlockNext(heap, b))
       /\ IsFree(heap, b) => /\ ~IsFree(heap, BlockNext(heap, b))
                             /\ heap.mem[BlockNext(heap, b)] = b

(* Each free block is in the list of its size and in no other, lists go    *)
(* backwards as they go forwards, and the bitmaps show the lists that hold *)
(* something.                                                              *)
ListsExact ==
  /\ \A f \in Fls, s \in Sls :
       LET list == Listed(heap.head[f][s])
       IN  /\ list = {b \in FreeBlocks : MappingInsert(SizeOf(heap, b)) = [fl |-> f, sl |-> s]}
           /\ \A b \in list :
                /\ b = heap.head[f][s] => heap.mem[b + 12] = Null
                /\ heap.mem[b + 8] # Null => heap.mem[heap.mem[b + 8] + 12] = b
           /\ s \in heap.sl[f] <=> list # {}
  /\ heap.fl = {f \in Fls : heap.sl[f] # {}}

(* Used blocks are those that users hold, large enough and aligned.        *)
UsedAreHeld ==
  /\ {ToPtr(b) : b \in Blocks \ (FreeBlocks \cup {Sentinel})} = DOMAIN live
  /\ \A p \in DOMAIN live : /\ SizeOf(heap, FromPtr(p)) >= live[p].n
                            /\ p % live[p].al = 0

(* A request for which a block of its rounded size is free finds a block,  *)
(* and the block found is large enough (assert in block_locate_free).      *)
GoodFit ==
  \A n \in Requests :
    LET size == AdjustRequestSize(AtLeastOne(n), ALIGN_SIZE)
        b == LocateFree(heap, size).block
    IN  size > 0 /\ ~OutOfRange(size) =>
          /\ (\E x \in FreeBlocks : SizeOf(heap, x) >= Rounded(size)) => b # Null
          /\ b # Null => SizeOf(heap, b) >= size

(* The heap keeps what it promises its callers. *)
Owned == [p \in DOMAIN live |->
            [size |-> SizeOf(heap, FromPtr(p)),
             data |-> [i \in 0 .. (live[p].n \div 4) - 1 |-> heap.mem[p + 4 * i]]]]
Promise == INSTANCE AbstractHeap WITH
  First <- Start + 4, Limit <- Sentinel + 4, owned <- Owned
KeepsPromise == Promise!Spec

-----------------------------------------------------------------------------
(* What comments and assertions say and the code does not do. *)

(* tlsf.c:40, "We support allocations of sizes up to (1 << FL_INDEX_MAX)". *)
SizesSupported == ~lost

(* tlsf.c:909, "a request that cannot be satisfied will leave the original *)
(* buffer untouched".                                                      *)
RefusedLeavesBuffer ==
  [][\A p \in DOMAIN live : p \in DOMAIN live' /\ live'[p].n > PoolBytes
       => SizeOf(heap', FromPtr(p)) = SizeOf(heap, FromPtr(p))]_vars

=============================================================================
