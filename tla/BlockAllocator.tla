--------------------------- MODULE BlockAllocator ---------------------------
(***************************************************************************)
(* The contract of the abstract class block_allocator                      *)
(* (src/ft/serialize/block_allocator.h): a set of (offset, size) blocks    *)
(* that never overlap, each starting on a multiple of the alignment and    *)
(* after the reserved prefix of the file.  Every implementation (the       *)
(* sorted-array one, the tree one) is meant to refine this specification.  *)
(***************************************************************************)
EXTENDS Naturals, FiniteSets

CONSTANTS
    Reserve,    \* reserve_at_beginning: bytes of file header, need not be aligned
    Alignment,  \* block alignment, a positive multiple of 512 (direct I/O)
    Sizes,      \* block sizes the callers request
    LoadSets,   \* block sets a create_from_blockpairs call may be given
    FileLimit   \* model bound: no block ends beyond this byte

ASSUME Alignment >= 512 /\ Alignment % 512 = 0
ASSUME Sizes \subseteq Nat \ {0}

VARIABLES
    live,       \* created and not yet destroyed
    allocated   \* the set of allocated [offset, size] blocks

vars == <<live, allocated>>

AlignUp(v) == ((v + Alignment - 1) \div Alignment) * Alignment

EndOfReserve == AlignUp(Reserve)

Pair(o, s) == [offset |-> o, size |-> s]

Overlap(a, b) == a.offset < b.offset + b.size /\ b.offset < a.offset + a.size

\* "All blocks start on a multiple of ALIGNMENT", never inside the reserve
WellPlaced(b) ==
    /\ b.size > 0
    /\ b.offset >= Reserve
    /\ b.offset % Alignment = 0

Disjoint(S) == \A a, b \in S : a # b => ~Overlap(a, b)

Offsets == {o \in EndOfReserve .. FileLimit : o % Alignment = 0}

Init ==
    /\ live = FALSE
    /\ allocated = {}

\* create: an empty allocator
Create ==
    /\ ~live
    /\ live' = TRUE
    /\ allocated' = {}

\* create_from_blockpairs: an allocator that holds exactly the given pairs
CreateFromBlockpairs ==
    /\ ~live
    /\ \E S \in LoadSets :
         /\ \A b \in S : WellPlaced(b)
         /\ Disjoint(S)
         /\ allocated' = S
    /\ live' = TRUE

\* alloc_block: some aligned place that overlaps no allocated block
AllocBlock ==
    /\ live
    /\ \E s \in Sizes, o \in Offsets :
         /\ \A b \in allocated : ~Overlap(Pair(o, s), b)
         /\ allocated' = allocated \cup {Pair(o, s)}
    /\ UNCHANGED live

\* free_block: requires a block at that offset, which is then free space
FreeBlock ==
    /\ live
    /\ \E b \in allocated : allocated' = allocated \ {b}
    /\ UNCHANGED live

Destroy ==
    /\ live
    /\ live' = FALSE
    /\ allocated' = {}

Next == Create \/ CreateFromBlockpairs \/ AllocBlock \/ FreeBlock \/ Destroy

Spec == Init /\ [][Next]_vars

=============================================================================
