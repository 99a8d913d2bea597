----------------------- MODULE BlockAllocatorStrategy -----------------------
(***************************************************************************)
(* The placement strategies array_block_allocator::alloc_block consults    *)
(* through choose_block_to_alloc_after.  block_allocator_strategy.cc is    *)
(* not part of this source tree, so these operators follow the contracts   *)
(* of the specification (section 4.5): a strategy is handed the sorted     *)
(* block array and returns the block after which the new block goes, or   *)
(* nullptr ("no gap fits", modelled as 0) so that it goes at the end.      *)
(* Blocks are numbered 1..Len(blocks) here, 0..n-1 in the code.            *)
(***************************************************************************)
EXTENDS Naturals, Sequences, FiniteSets

AlignTo(v, a) == ((v + a - 1) \div a) * a

\* the aligned free space after block i, up to block i+1
GapAfter(blocks, i, alignment) ==
    blocks[i + 1].offset - AlignTo(blocks[i].offset + blocks[i].size, alignment)

\* the gaps between blocks where a block of `size` fits after alignment
FittingGaps(blocks, size, alignment) ==
    {i \in 1 .. Len(blocks) - 1 : size <= GapAfter(blocks, i, alignment)}

\* first fit: the first gap, in offset order, that is large enough
FirstFit(blocks, size, alignment) ==
    LET G == FittingGaps(blocks, size, alignment)
    IN  IF G = {} THEN 0 ELSE CHOOSE i \in G : \A j \in G : i <= j

\* best fit: the smallest gap that is large enough (the first of equals)
BestFit(blocks, size, alignment) ==
    LET G == FittingGaps(blocks, size, alignment)
        Better(i, j) ==
            \/ GapAfter(blocks, i, alignment) < GapAfter(blocks, j, alignment)
            \/ /\ GapAfter(blocks, i, alignment) = GapAfter(blocks, j, alignment)
               /\ i <= j
    IN  IF G = {} THEN 0 ELSE CHOOSE i \in G : \A j \in G : Better(i, j)

\* heat zone and padded fit: the specification leaves their placement to
\* the implementation; what every implementation may return is any gap
\* that is large enough, or nullptr.  Cold (heat 0) requests are first fit.
ContractFit(blocks, size, alignment) ==
    FittingGaps(blocks, size, alignment) \cup {0}

\* the results choose_block_to_alloc_after may return for a strategy
ChooseBlockToAllocAfter(strategy, blocks, size, alignment, heat) ==
    CASE strategy = "FIRST_FIT"  -> {FirstFit(blocks, size, alignment)}
      [] strategy = "BEST_FIT"   -> {BestFit(blocks, size, alignment)}
      [] strategy = "HEAT_ZONE"  ->
            IF heat = 0 THEN {FirstFit(blocks, size, alignment)}
                        ELSE ContractFit(blocks, size, alignment)
      [] strategy = "PADDED_FIT" -> ContractFit(blocks, size, alignment)

Strategies == {"FIRST_FIT", "BEST_FIT", "HEAT_ZONE", "PADDED_FIT"}

=============================================================================
