------------------------- MODULE ArrayBlockAllocator -------------------------
(***************************************************************************)
(* array_block_allocator (src/ft/serialize/array_block_allocator.cc): the  *)
(* blocks are kept in an array sorted by offset; alloc_block inserts a     *)
(* pair with memmove, free_block finds it by binary search and closes the  *)
(* hole.  Free space is never stored: it is the gaps between the pairs.    *)
(*                                                                         *)
(* blocks[1..Len(blocks)] is _blocks_array[0.._n_blocks-1]; the code's     *)
(* block index bn is blocks[bn + 1] here.                                  *)
(***************************************************************************)
EXTENDS Naturals, Sequences, SequencesExt, BlockAllocatorStrategy

CONSTANTS
    Reserve,    \* _reserve_at_beginning (need not be aligned)
    Alignment,  \* _alignment
    Sizes,      \* sizes alloc_block is called with
    Heats,      \* heat hints alloc_block is called with
    LoadSets,   \* sets of pairs create_from_blockpairs is called with
    Paranoid,   \* TOKU_DEBUG_PARANOID: whether VALIDATE() runs validate()
    FileLimit   \* model bound: alloc_block is not called once a block would end past it

ASSUME Alignment >= 512 /\ Alignment % 512 = 0
ASSUME Sizes \subseteq Nat \ {0} /\ Heats \subseteq Nat /\ Paranoid \in BOOLEAN

VARIABLES
    live,             \* between create/create_from_blockpairs and destroy
    blocks,           \* _blocks_array[0.._n_blocks-1]
    blocksArraySize,  \* _blocks_array_size, the capacity of the array
    nBytesInUse,      \* _n_bytes_in_use
    strategy          \* the allocation strategy in effect

vars == <<live, blocks, blocksArraySize, nBytesInUse, strategy>>

-----------------------------------------------------------------------------
(* Helpers *)

\* align(): round up to a multiple of the alignment
AlignUp(v) == AlignTo(v, Alignment)

EndOfReserve == AlignUp(Reserve)

Pair(o, s) == [offset |-> o, size |-> s]

End(b) == b.offset + b.size

SumSizes(bs) == FoldLeft(LAMBDA acc, b : acc + b.size, 0, bs)

\* grow_blocks_array_by: at least double the capacity when it is too small
GrowBlocksArrayBy(cap, nBlocks, nToAdd) ==
    IF nBlocks + nToAdd > cap
    THEN IF cap * 2 > nBlocks + nToAdd THEN cap * 2 ELSE nBlocks + nToAdd
    ELSE cap

\* validate(): strictly ascending offsets, each block past the previous one
ValidateOrder(bs) ==
    \A i \in 2 .. Len(bs) :
        /\ bs[i].offset > bs[i - 1].offset
        /\ bs[i].offset >= bs[i - 1].offset + bs[i - 1].size

\* validate(): the byte count recomputed from scratch
ValidateBytes(bs, inUse) == inUse = Reserve + SumSizes(bs)

\* find_block: binary search for the index of the pair at `offset`;
\* -1 stands for the failing assert(lo < hi) (no such block)
RECURSIVE BinarySearch(_, _, _, _)
BinarySearch(bs, offset, lo, hi) ==
    IF lo >= hi THEN -1
    ELSE LET mid == (lo + hi) \div 2
             thisoff == bs[mid + 1].offset
         IN  IF thisoff < offset THEN BinarySearch(bs, offset, mid + 1, hi)
             ELSE IF thisoff > offset THEN BinarySearch(bs, offset, lo, mid)
             ELSE mid

\* fault variant: the search window misses the last pair (hi = n - 1)
FindBlockHiOffByOne(offset) ==
    IF Len(blocks) = 1
    THEN IF blocks[1].offset = offset THEN 0 ELSE -1
    ELSE BinarySearch(blocks, offset, 0, Len(blocks) - 1)

FindBlock(offset) ==
    IF Len(blocks) = 1
    THEN IF blocks[1].offset = offset THEN 0 ELSE -1
    ELSE BinarySearch(blocks, offset, 0, Len(blocks))

\* block_size
BlockSize(offset) == blocks[FindBlock(offset) + 1].size

\* allocated_limit: the end of the last block (the reserve when empty)
AllocatedLimit ==
    IF Len(blocks) = 0 THEN Reserve ELSE End(blocks[Len(blocks)])

\* get_nth_block_in_layout_order: block 0 is the reserve itself
GetNthBlockInLayoutOrder(b) ==
    IF b = 0 THEN [r |-> 0, offset |-> 0, size |-> Reserve]
    ELSE IF b > Len(blocks) THEN [r |-> -1, offset |-> 0, size |-> 0]
    ELSE [r |-> 0, offset |-> blocks[b].offset, size |-> blocks[b].size]

\* get_unused_statistics: the space after the reserve, between the blocks
\* (from the aligned end of one to the next) and after the last block up
\* to the file size; the positive ones are the unused blocks
\* fault variant: the space after block i measured from its unaligned end
SpaceBetweenUnaligned(i) == blocks[i + 1].offset - End(blocks[i])

\* the free space between block i and block i + 1
SpaceBetween(i) == blocks[i + 1].offset - AlignUp(End(blocks[i]))

UnusedSpaces(fileSize) ==
    LET n == Len(blocks)
        TailSpace(from) == IF from < fileSize THEN fileSize - from ELSE 0
    IN  IF n > 0
        THEN << blocks[1].offset - EndOfReserve >>
             \o [i \in 1 .. n - 1 |-> SpaceBetween(i)]
             \o << TailSpace(AlignUp(End(blocks[n]))) >>
        ELSE << TailSpace(EndOfReserve) >>

GetUnusedStatistics(fileSize) ==
    LET free == SelectSeq(UnusedSpaces(fileSize), LAMBDA x : x > 0)
    IN  [unused_bytes         |-> FoldLeft(+, 0, free),
         unused_blocks        |-> Len(free),
         largest_unused_block |-> FoldLeft(LAMBDA m, x : IF x > m THEN x ELSE m, 0, free)]

\* get_statistics: file_size_bytes = 0, so the tail space never counts
GetStatistics ==
    [data_bytes |-> nBytesInUse, data_blocks |-> Len(blocks)]
    @@ GetUnusedStatistics(0)

-----------------------------------------------------------------------------
(* Operations *)

Init ==
    /\ live = FALSE
    /\ blocks = << >>
    /\ blocksArraySize = 0
    /\ nBytesInUse = 0
    /\ strategy = "FIRST_FIT"

\* create = _create_internal: empty array of capacity 1, first fit
Create ==
    /\ ~live
    /\ live' = TRUE
    /\ blocks' = << >>
    /\ blocksArraySize' = 1
    /\ nBytesInUse' = Reserve
    /\ strategy' = "FIRST_FIT"

\* fault variant: the alignment invariant() on loaded pairs is dropped
PairAcceptedNoAlign(b) == b.size > 0 /\ b.offset >= Reserve

\* the three invariant()s create_from_blockpairs checks on every pair
PairAccepted(b) ==
    /\ b.size > 0
    /\ b.offset >= Reserve
    /\ b.offset % Alignment = 0

\* fault variant: the array is not grown before the pairs are copied in
LoadCapacityNoGrow(n) == 1

\* _n_blocks = n_blocks; grow_blocks_array_by(_n_blocks) on the new array
LoadCapacity(n) == GrowBlocksArrayBy(1, n, n)

\* create_from_blockpairs: _create_internal, copy, std::sort by offset
\* (the order of equal offsets is unspecified), the invariant()s on every
\* pair, then VALIDATE() in paranoid builds
CreateFromBlockpairs(S) ==
    LET n == Cardinality(S) IN
    /\ ~live
    /\ \E sorted \in [1 .. n -> S] :
         /\ Range(sorted) = S
         /\ IsSorted(sorted, LAMBDA a, b : a.offset <= b.offset)
         /\ \A i \in 1 .. n : PairAccepted(sorted[i])
         /\ Paranoid => ValidateOrder(sorted)
         /\ blocks' = sorted
    /\ live' = TRUE
    /\ blocksArraySize' = LoadCapacity(n)
    /\ nBytesInUse' = Reserve + SumSizes(blocks')
    /\ strategy' = "FIRST_FIT"

\* what every branch of alloc_block does: grow the array by one, count the
\* bytes, shift the pairs from position i on and store the new pair there
Place(i, offset, size) ==
    /\ offset + size <= FileLimit
    /\ blocks' = InsertAt(blocks, i, Pair(offset, size))
    /\ blocksArraySize' = GrowBlocksArrayBy(blocksArraySize, Len(blocks), 1)
    /\ nBytesInUse' = nBytesInUse + size
    /\ UNCHANGED <<live, strategy>>

\* fault variant: the exact fit after the reserve is missed (< for <=)
ReserveFitsStrict(size) == EndOfReserve + size < blocks[1].offset

\* the space right after the reserve holds the block
ReserveFits(size) == EndOfReserve + size <= blocks[1].offset

\* fault variant: the new block starts at the unaligned end of bp
AnswerOffsetUnaligned(bp) == End(bp)

\* answer_offset: the aligned end of the block the new one follows
AnswerOffset(bp) == AlignUp(End(bp))

\* fault variant: the new pair is stored at the chosen block's index
InsertAtChosen(bn) == bn

\* memmove(bp + 2, bp + 1, ...); bp[1] = new pair: the position after the
\* chosen pair (1-based, the chosen pair is blocks[bn])
InsertAfter(bn) == bn + 1

AllocBlock(size, heat) ==
    LET n == Len(blocks)
        choices == ChooseBlockToAllocAfter(strategy, blocks, size, Alignment, heat)
    IN
    /\ live
    /\ size > 0
    /\ \/ /\ n = 0                                  \* first and only block
          /\ Place(1, EndOfReserve, size)
       \/ /\ n > 0                                  \* fits right after the reserve
          /\ ReserveFits(size)
          /\ Place(1, EndOfReserve, size)
       \/ /\ n > 0                                  \* after the strategy's block
          /\ ~ReserveFits(size)
          /\ \E bp \in choices \ {0} :
               Place(InsertAfter(bp), AnswerOffset(blocks[bp]), size)
       \/ /\ n > 0                                  \* fits nowhere: at the end
          /\ ~ReserveFits(size)
          /\ 0 \in choices
          /\ Place(n + 1, AnswerOffset(blocks[n]), size)

\* fault variant: the size is read after the memmove has closed the hole
FreedSizeAfterMove(bn) ==
    IF bn + 2 <= Len(blocks) THEN blocks[bn + 2].size ELSE blocks[bn + 1].size

\* _n_bytes_in_use -= _blocks_array[bn].size, read before the memmove
FreedSize(bn) == blocks[bn + 1].size

\* free_block: the size argument is unused; the pair is found by offset
FreeBlock(offset) ==
    LET bn == FindBlock(offset) IN
    /\ live
    /\ bn >= 0
    /\ nBytesInUse' = nBytesInUse - FreedSize(bn)
    /\ blocks' = RemoveAt(blocks, bn + 1)
    /\ UNCHANGED <<live, blocksArraySize, strategy>>

\* set_strategy
SetStrategy(s) ==
    /\ live
    /\ strategy' = s
    /\ UNCHANGED <<live, blocks, blocksArraySize, nBytesInUse>>

\* destroy: the array is freed; the counters are left as they are
Destroy ==
    /\ live
    /\ live' = FALSE
    /\ UNCHANGED <<blocks, blocksArraySize, nBytesInUse, strategy>>

Next ==
    \/ Create
    \/ \E S \in LoadSets : CreateFromBlockpairs(S)
    \/ \E size \in Sizes, heat \in Heats : AllocBlock(size, heat)
    \/ \E i \in 1 .. Len(blocks) : FreeBlock(blocks[i].offset)
    \/ \E s \in Strategies : SetStrategy(s)
    \/ Destroy

Spec == Init /\ [][Next]_vars

-----------------------------------------------------------------------------
(* Properties *)

TypeOK ==
    /\ live \in BOOLEAN
    /\ blocks \in Seq([offset : {o \in 0 .. FileLimit : o % Alignment = 0},
                       size   : Nat \ {0}])
    /\ blocksArraySize \in Nat
    /\ nBytesInUse \in Nat
    /\ strategy \in Strategies

\* The pairs stay sorted by offset and never overlap, which is what
\* validate() asserts and what the binary search of find_block and the
\* gap arithmetic of alloc_block and get_unused_statistics rely on.
BlocksSortedDisjoint == live => ValidateOrder(blocks)

\* _n_bytes_in_use, maintained incrementally by alloc_block, free_block and
\* create_from_blockpairs, equals the reserve plus the sizes of the pairs
\* (the other half of validate(), and the assert of alloc_block's first-block
\* path).
BytesInUseMatchesBlocks == live => ValidateBytes(blocks, nBytesInUse)

\* The pairs always fit in the array's capacity: alloc_block memmoves the
\* tail one slot to the right and create_from_blockpairs memcpys n pairs,
\* so the capacity must have been grown first.
ArrayHoldsBlocks == live => Len(blocks) <= blocksArraySize

\* find_block's binary search returns, for the offset of every allocated
\* pair, that pair's index (free_block and block_size trust it).
FindBlockLocates ==
    live => \A i \in 1 .. Len(blocks) : FindBlock(blocks[i].offset) = i - 1

\* The pair an alloc_block step adds.
AllocStep == live /\ live' /\ Len(blocks') = Len(blocks) + 1
NewBlock == CHOOSE b \in Range(blocks') : b \notin Range(blocks)

\* the lowest aligned offset past the reserve where `size` bytes overlap
\* no allocated pair (reference definition, not taken from the code)
LowestFit(bs, size) ==
    LET fits == {o \in EndOfReserve .. FileLimit :
                   /\ o % Alignment = 0
                   /\ \A i \in 1 .. Len(bs) :
                        o + size <= bs[i].offset \/ End(bs[i]) <= o}
    IN  CHOOSE o \in fits : \A p \in fits : o <= p

\* Under first fit, alloc_block (its two fast paths, the strategy's gap
\* search and the fall-back to the end together) places a block at the
\* lowest aligned offset where it fits.
FirstFitLowest ==
    [][AllocStep /\ strategy = "FIRST_FIT"
         => NewBlock.offset = LowestFit(blocks, NewBlock.size)]_vars

\* A hole that get_statistics reports as the largest unused block really
\* takes a block of that size: under first and best fit such a block is
\* placed below allocated_limit instead of growing the file.
HoleReuse ==
    [][AllocStep /\ strategy \in {"FIRST_FIT", "BEST_FIT"}
        /\ NewBlock.size <= GetStatistics.largest_unused_block
         => End(NewBlock) <= AllocatedLimit]_vars

\* The sorted array implements the block_allocator contract: the pairs
\* listed by get_nth_block_in_layout_order are the abstract allocated set.
BA == INSTANCE BlockAllocator
        WITH allocated <-
               IF live
               THEN {[offset |-> GetNthBlockInLayoutOrder(b).offset,
                      size   |-> GetNthBlockInLayoutOrder(b).size] :
                       b \in 1 .. Len(blocks)}
               ELSE {}

Refinement == BA!Spec

=============================================================================
