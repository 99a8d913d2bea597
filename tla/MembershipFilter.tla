-------------------------- MODULE MembershipFilter --------------------------
(***************************************************************************)
(* The per-node membership filter of ftnode (src/ft/node.h): a counting    *)
(* quotient filter (QF) created, filled, emptied, merged and destroyed     *)
(* through the inline methods of class ftnode.                             *)
(*                                                                         *)
(* What the filter is handed is the heart of the model: insert, remove     *)
(* and lookup each copy the key, length-prefixed, into a buffer fresh from *)
(* toku_xmalloc and pass the buffer's ADDRESS, (uint64_t)key_p, to the QF; *)
(* the buffer is freed right after.  The address malloc returns is not     *)
(* fixed by the key, so it is chosen from Addresses at every call, and the *)
(* QF keeps a count per fingerprint Hash[address].  The filter is          *)
(* abstracted to those counts and to its capacity: nslots stands for the   *)
(* number of distinct fingerprints it has room for.                        *)
(*                                                                         *)
(* What the QF does when it has no room is the gqf library's, outside this *)
(* tree: qf_insert doubles the filter when auto-resize is set and returns  *)
(* QF_NO_SPACE otherwise; _qf_insert_internal never resizes.  The ftnode   *)
(* methods ignore both results, so an insert that finds no room is lost.   *)
(* create_bloom_filter sets auto-resize; the runtime data that holds the   *)
(* flag is not serialized, and deserialize_bloom_filter_from_rbuf calloc's *)
(* it afresh.                                                              *)
(*                                                                         *)
(* present is history, not program state: how many times each key was     *)
(* inserted into a node's filter and not removed since, the set the        *)
(* specification says contains() may never deny; dropped records that an  *)
(* insert into the filter found no room since it was created or reset.     *)
(***************************************************************************)
EXTENDS Naturals, FiniteSets

CONSTANTS
    Nodes,         \* ftnodes that own a filter
    Keys,          \* keys (DBTs) inserted, removed and looked up
    Addresses,     \* addresses toku_xmalloc may return for the key buffer
    Fingerprints,  \* what the QF keeps of a 64-bit key
    Hash,          \* the QF's map from a 64-bit key to its fingerprint
    MaxCount,      \* model bound on the count of one fingerprint or key
    DefaultSlots,  \* capacity of a new filter (1 << _qbits in the code)
    MaxSlots       \* model bound on the capacity resizing reaches

ASSUME Hash \in [Addresses -> Fingerprints]
ASSUME MaxCount \in Nat \ {0}
ASSUME DefaultSlots \in Nat \ {0} /\ MaxSlots >= DefaultSlots

VARIABLES
    allocated,  \* qf->metadata != NULL
    qf,         \* qf[n][f]: the count the QF of node n holds for fingerprint f
    present,    \* history: present[n][k], insertions of k not yet removed
    nslots,     \* qf->metadata->nslots
    autoResize, \* qf->runtimedata->auto_resize
    dropped,    \* history: an insert into n's filter was lost for lack of room
    image,      \* image[n]: what serialize_bloom_filter_to_wbuf last wrote of n
    storage     \* storage[n]: the slots the buffer behind qf->blocks has room for

vars == <<allocated, qf, present, nslots, autoResize, dropped, image, storage>>

Empty == [f \in Fingerprints |-> 0]
NoKeys == [k \in Keys |-> 0]

\* qf->metadata->nelts: the number of items the filter holds
Nelts(c) == \E f \in Fingerprints : c[f] > 0

\* qf_count_key_value(..., (uint64_t)key_p, 0) > 0
Counted(n, a) == qf[n][Hash[a]] > 0

\* the fingerprints that take a slot
Occupied(c) == {f \in Fingerprints : c[f] > 0}

\* the QF has room for fingerprint f without resizing
Fits(n, f) == f \in Occupied(qf[n]) \/ Cardinality(Occupied(qf[n])) < nslots[n]

NoImage == [counts |-> Empty, keys |-> NoKeys, nslots |-> 0, dropped |-> FALSE]

Init ==
    /\ allocated = [n \in Nodes |-> FALSE]
    /\ qf = [n \in Nodes |-> Empty]
    /\ present = [n \in Nodes |-> NoKeys]
    /\ nslots = [n \in Nodes |-> 0]
    /\ autoResize = [n \in Nodes |-> FALSE]
    /\ dropped = [n \in Nodes |-> FALSE]
    /\ image = [n \in Nodes |-> NoImage]
    /\ storage = [n \in Nodes |-> 0]

\* create_bloom_filter: qf_malloc of an empty filter, auto-resize on
CreateBloomFilter(n) ==
    /\ ~allocated[n]
    /\ allocated' = [allocated EXCEPT ![n] = TRUE]
    /\ qf' = [qf EXCEPT ![n] = Empty]
    /\ present' = [present EXCEPT ![n] = NoKeys]
    /\ nslots' = [nslots EXCEPT ![n] = DefaultSlots]
    /\ autoResize' = [autoResize EXCEPT ![n] = TRUE]
    /\ dropped' = [dropped EXCEPT ![n] = FALSE]
    /\ storage' = [storage EXCEPT ![n] = DefaultSlots]
    /\ UNCHANGED image

\* destroy_bloom_filter: qf_free, unless metadata is already NULL
DestroyBloomFilter(n) ==
    /\ allocated[n]
    /\ allocated' = [allocated EXCEPT ![n] = FALSE]
    /\ UNCHANGED <<qf, present, nslots, autoResize, dropped, image, storage>>

\* insert_into_bloom_filter: qf_insert(qf, (uint64_t)key_p, 0, 1), which
\* counts the fingerprint where there is room, doubles the filter first
\* when it is full and auto-resize is set, and otherwise fails unheeded
InsertIntoBloomFilter(n, k) ==
    /\ allocated[n]
    /\ present[n][k] < MaxCount
    /\ \E a \in Addresses :
         LET f == Hash[a] IN
         /\ qf[n][f] < MaxCount
         /\ \/ /\ Fits(n, f)
               /\ qf' = [qf EXCEPT ![n][f] = @ + 1]
               /\ UNCHANGED <<nslots, dropped, storage>>
            \/ /\ ~Fits(n, f) /\ autoResize[n]
               /\ 2 * nslots[n] <= MaxSlots
               /\ nslots' = [nslots EXCEPT ![n] = 2 * @]
               /\ storage' = [storage EXCEPT ![n] = 2 * nslots[n]]
               /\ qf' = [qf EXCEPT ![n][f] = @ + 1]
               /\ UNCHANGED dropped
            \/ /\ ~Fits(n, f) /\ ~autoResize[n]
               /\ dropped' = [dropped EXCEPT ![n] = TRUE]
               /\ UNCHANGED <<qf, nslots, storage>>
    /\ present' = [present EXCEPT ![n][k] = @ + 1]
    /\ UNCHANGED <<allocated, autoResize, image>>

\* remove_from_bloom_filter: qf_remove(qf, (uint64_t)key_p, 0, 1), which
\* leaves a fingerprint with count 0 as it is
RemoveFromBloomFilter(n, k) ==
    /\ allocated[n]
    /\ \E a \in Addresses :
         qf' = [qf EXCEPT ![n][Hash[a]] = IF @ > 0 THEN @ - 1 ELSE 0]
    /\ present' = [present EXCEPT ![n][k] = IF @ > 0 THEN @ - 1 ELSE 0]
    /\ UNCHANGED <<allocated, nslots, autoResize, dropped, image, storage>>

\* reset_bloom_filter: qf_reset empties the filter, keeping its capacity
ResetBloomFilter(n) ==
    /\ allocated[n]
    /\ qf' = [qf EXCEPT ![n] = Empty]
    /\ present' = [present EXCEPT ![n] = NoKeys]
    /\ dropped' = [dropped EXCEPT ![n] = FALSE]
    /\ UNCHANGED <<allocated, nslots, autoResize, image, storage>>

\* merge_bloom_filter_with: nothing when the other filter is empty, else
\* every (fingerprint, count) of it is inserted with _qf_insert_internal,
\* which does not resize: the new fingerprints that find no room are lost
MergeBloomFilterWith(n, m) ==
    /\ n # m
    /\ allocated[n] /\ allocated[m]
    /\ Nelts(qf[m])
    /\ \A f \in Fingerprints : qf[n][f] + qf[m][f] <= MaxCount
    /\ \A k \in Keys : present[n][k] + present[m][k] <= MaxCount
    /\ LET New  == Occupied(qf[m]) \ Occupied(qf[n])
           Room == nslots[n] - Cardinality(Occupied(qf[n]))
       IN  \E Landed \in SUBSET New :
             /\ Cardinality(Landed) = IF Cardinality(New) <= Room
                                      THEN Cardinality(New) ELSE Room
             /\ qf' = [qf EXCEPT ![n] = [f \in Fingerprints |->
                          IF f \in New \ Landed THEN @[f] ELSE @[f] + qf[m][f]]]
             /\ dropped' = [dropped EXCEPT ![n] = @ \/ Landed # New]
    /\ present' = [present EXCEPT ![n] = [k \in Keys |-> @[k] + present[m][k]]]
    /\ UNCHANGED <<allocated, nslots, autoResize, image, storage>>

\* serialize_bloom_filter_to_wbuf: the metadata header and the blocks,
\* not the runtime data
SerializeBloomFilterToWbuf(n) ==
    /\ allocated[n]
    /\ image' = [image EXCEPT ![n] = [counts |-> qf[n], keys |-> present[n],
                                      nslots |-> nslots[n], dropped |-> dropped[n]]]
    /\ UNCHANGED <<allocated, qf, present, nslots, autoResize, dropped, storage>>

\* deserialize_bloom_filter_from_rbuf, on a node read from disk: the
\* metadata is realloc'd to the image's total_size_in_bytes and metadata and
\* blocks are copied back; the runtime data is calloc'd, so auto_resize is 0
DeserializeBloomFilterFromRbuf(n) ==
    /\ ~allocated[n]
    /\ image[n].nslots > 0
    /\ allocated' = [allocated EXCEPT ![n] = TRUE]
    /\ qf' = [qf EXCEPT ![n] = image[n].counts]
    /\ present' = [present EXCEPT ![n] = image[n].keys]
    /\ nslots' = [nslots EXCEPT ![n] = image[n].nslots]
    /\ autoResize' = [autoResize EXCEPT ![n] = FALSE]
    /\ dropped' = [dropped EXCEPT ![n] = image[n].dropped]
    /\ storage' = [storage EXCEPT ![n] = image[n].nslots]
    /\ UNCHANGED image

\* clone_bloom_filter(another): qf_copy(qf, another), gqf's (dest, src), so
\* n's filter becomes a copy of m's, runtime data included.  qf_copy
\* memcpy's m's metadata and m's total_size_in_bytes of blocks into the
\* buffers n already has: n's storage is not reallocated
CloneBloomFilter(n, m) ==
    /\ n # m
    /\ allocated[n] /\ allocated[m]
    /\ qf' = [qf EXCEPT ![n] = qf[m]]
    /\ present' = [present EXCEPT ![n] = present[m]]
    /\ nslots' = [nslots EXCEPT ![n] = nslots[m]]
    /\ autoResize' = [autoResize EXCEPT ![n] = autoResize[m]]
    /\ dropped' = [dropped EXCEPT ![n] = dropped[m]]
    /\ UNCHANGED <<allocated, image, storage>>

Next ==
    \E n \in Nodes :
        \/ CreateBloomFilter(n)
        \/ DestroyBloomFilter(n)
        \/ \E k \in Keys : InsertIntoBloomFilter(n, k)
        \/ \E k \in Keys : RemoveFromBloomFilter(n, k)
        \/ ResetBloomFilter(n)
        \/ \E m \in Nodes : MergeBloomFilterWith(n, m)
        \/ SerializeBloomFilterToWbuf(n)
        \/ DeserializeBloomFilterFromRbuf(n)
        \/ \E m \in Nodes : CloneBloomFilter(n, m)

Spec == Init /\ [][Next]_vars

-----------------------------------------------------------------------------
(* Properties *)

TypeOK ==
    /\ allocated \in [Nodes -> BOOLEAN]
    /\ qf \in [Nodes -> [Fingerprints -> 0 .. MaxCount]]
    /\ present \in [Nodes -> [Keys -> 0 .. MaxCount]]
    /\ nslots \in [Nodes -> 0 .. MaxSlots]
    /\ autoResize \in [Nodes -> BOOLEAN]
    /\ dropped \in [Nodes -> BOOLEAN]
    /\ storage \in [Nodes -> 0 .. MaxSlots]

\* No false negatives (spec section 8, "filter soundness"): a key inserted
\* into a node's filter and not removed since is reported present by
\* is_key_in_bloom_filter, whatever address its buffer is given.
NoFalseNegatives ==
    \A n \in Nodes, k \in Keys :
        allocated[n] /\ present[n][k] > 0 => \A a \in Addresses : Counted(n, a)

\* Capacity growth is never surfaced (spec section 6, "handled internally
\* by doubling/resizing"): no insert_into_bloom_filter or
\* merge_bloom_filter_with into a live filter is lost for lack of slots,
\* whether the filter was created, cloned or read back from disk.
NoDroppedInserts ==
    \A n \in Nodes : allocated[n] => ~dropped[n]

\* The blocks a live filter's metadata describes fit in its buffer: every
\* nslots the filter is given, by create_bloom_filter, a resize inside
\* qf_insert, deserialize_bloom_filter_from_rbuf or clone_bloom_filter,
\* comes with storage of that size, so reads and writes of the blocks stay
\* inside the allocation.
StorageHoldsSlots ==
    \A n \in Nodes : allocated[n] => nslots[n] <= storage[n]

=============================================================================
