--------------------------- MODULE AllocationTrace ---------------------------
(***************************************************************************)
(* The allocation trace of array_block_allocator                           *)
(* (src/ft/serialize/array_block_allocator.cc, "Tracing"): every create,   *)
(* create_from_blockpairs, alloc_block, free_block and destroy of every    *)
(* allocator appends a line to the process-wide ba_trace_file, for replay  *)
(* offline.  Each allocator has its own _trace_lock; the file is shared.   *)
(*                                                                         *)
(* An allocator is used by one caller at a time (the block table           *)
(* serializes its calls), different allocators by different threads.  One *)
(* fprintf appends its text to the stream atomically (stdio locks the      *)
(* FILE per call), so the file is modelled as a sequence of the pieces     *)
(* single fprintf calls wrote.  The allocator's own state and the numbers  *)
(* printed are left out: the trace's line structure is what matters.      *)
(***************************************************************************)
EXTENDS Naturals, Sequences

CONSTANTS
    Allocators,  \* array_block_allocator objects traced at once
    NPairs,      \* blockpairs a create_from_blockpairs call loads
    MaxPieces    \* model bound on the length of the trace file

VARIABLES
    file,     \* ba_trace_file: the pieces written, in order
    live,     \* live[a]: a is created and not destroyed
    locked,   \* locked[a]: a holds its _trace_lock
    printed   \* printed[a]: pairs of the current create_from_blockpairs line written

vars == <<file, live, locked, printed>>

\* what one fprintf call writes: a whole line, or a part of the
\* create_from_blockpairs line (its head, one pair, its newline)
Piece(a, part) == [alloc |-> a, part |-> part]

\* a trace call starts only while the bound leaves room for its whole line
RoomForLine == Len(file) + NPairs + 2 <= MaxPieces

Write(p) == file' = Append(file, p)

Init ==
    /\ file = << >>
    /\ live = [a \in Allocators |-> FALSE]
    /\ locked = [a \in Allocators |-> FALSE]
    /\ printed = [a \in Allocators |-> 0]

\* create then _trace_create: one fprintf under the lock
TraceCreate(a) ==
    /\ ~live[a]
    /\ ~locked[a]
    /\ RoomForLine
    /\ Write(Piece(a, "line"))
    /\ live' = [live EXCEPT ![a] = TRUE]
    /\ UNCHANGED <<locked, printed>>

\* _trace_create_from_blockpairs: the lock, then the head of the line
TraceCreateFromBlockpairsHead(a) ==
    /\ ~live[a]
    /\ ~locked[a]
    /\ RoomForLine
    /\ Write(Piece(a, "head"))
    /\ locked' = [locked EXCEPT ![a] = TRUE]
    /\ printed' = [printed EXCEPT ![a] = 0]
    /\ UNCHANGED live

\* for (i = 0; i < _n_blocks; i++)
MorePairs(a) == printed[a] < NPairs

\* fprintf(ba_trace_file, "\n")
WriteNewline(a) == Write(Piece(a, "end"))

\* ... one fprintf per blockpair ...
TraceCreateFromBlockpairsPair(a) ==
    /\ locked[a]
    /\ MorePairs(a)
    /\ Write(Piece(a, "pair"))
    /\ printed' = [printed EXCEPT ![a] = @ + 1]
    /\ UNCHANGED <<live, locked>>

\* ... then the newline, the unlock and the flush
TraceCreateFromBlockpairsEnd(a) ==
    /\ locked[a]
    /\ ~MorePairs(a)
    /\ WriteNewline(a)
    /\ locked' = [locked EXCEPT ![a] = FALSE]
    /\ live' = [live EXCEPT ![a] = TRUE]
    /\ UNCHANGED printed

\* _trace_alloc and _trace_free: one fprintf under the lock
TraceAllocOrFree(a) ==
    /\ live[a]
    /\ ~locked[a]
    /\ RoomForLine
    /\ Write(Piece(a, "line"))
    /\ UNCHANGED <<live, locked, printed>>

\* destroy then _trace_destroy
TraceDestroy(a) ==
    /\ live[a]
    /\ ~locked[a]
    /\ RoomForLine
    /\ Write(Piece(a, "line"))
    /\ live' = [live EXCEPT ![a] = FALSE]
    /\ UNCHANGED <<locked, printed>>

Next ==
    \E a \in Allocators :
        \/ TraceCreate(a)
        \/ TraceCreateFromBlockpairsHead(a)
        \/ TraceCreateFromBlockpairsPair(a)
        \/ TraceCreateFromBlockpairsEnd(a)
        \/ TraceAllocOrFree(a)
        \/ TraceDestroy(a)

Spec == Init /\ [][Next]_vars

-----------------------------------------------------------------------------

\* Every line of the trace file is written by one allocator in one trace
\* call: the pieces of a create_from_blockpairs line follow each other
\* with nothing of another allocator between them, as the replay of the
\* trace needs.
WholeLines ==
    \A i \in 1 .. Len(file) - 1 :
        file[i].part \in {"head", "pair"} =>
            /\ file[i + 1].alloc = file[i].alloc
            /\ file[i + 1].part \in {"pair", "end"}

=============================================================================
