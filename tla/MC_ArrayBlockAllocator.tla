----------------------- MODULE MC_ArrayBlockAllocator -----------------------
EXTENDS ArrayBlockAllocator

\* pair sets read back from a block table: empty, two valid pairs given out
\* of order, two overlapping pairs, and a misaligned pair
MCLoadSets ==
    { {},
      {[offset |-> 2048, size |-> 100], [offset |-> 1024, size |-> 512]},
      {[offset |-> 1024, size |-> 1100], [offset |-> 1536, size |-> 100]},
      {[offset |-> 1000, size |-> 100]} }

=============================================================================
