# TLA+ models of PerconaFT's block allocator and tree-node structures

This directory holds TLA+ models of the code under `src/`, plus the TLC
configurations that check them. The code covers two things:

* the block allocator that places node images in the data file
  (`src/ft/serialize/`);
* the in-memory fractal-tree node (`src/ft/node.h`).

`spec.md` describes the intended behaviour. Every model definition is
translated from the source, and `PROJECT.json` maps each definition to the
lines it models.

## 1. Inventory of the system

| Part | Source | State | Operations that change it |
|---|---|---|---|
| BlockAllocator contract | `block_allocator.h` | A set of (offset, size) blocks after a reserved prefix | `create`, `create_from_blockpairs`, `alloc_block`, `free_block`, `destroy` |
| ArrayBlockAllocator | `array_block_allocator.cc` | `_blocks_array` sorted by offset; `_n_blocks`, `_blocks_array_size`, `_n_bytes_in_use`, `_strategy` | the contract's operations, plus `set_strategy` and `grow_blocks_array_by`; queries: `block_size`, `allocated_limit`, `get_nth_block_in_layout_order`, `get_unused_statistics`, `get_statistics`, `validate` |
| Placement strategies | `block_allocator_strategy.cc` (not in this tree) | none | `first_fit`, `best_fit`, `heat_zone`, `padded_fit` pick the block to allocate after |
| Allocation tracing | `array_block_allocator.cc` 58, 72-86, 374-432 | the process-wide `ba_trace_file`; a `_trace_lock` per allocator | `_trace_*` print under the allocator's own `_trace_lock` |
| TreeBlockAllocator | `tree_block_allocator.h` (declaration only; not modelled) | an `rbtree_mhs` of free holes | the contract's operations, first fit only |
| PivotKeySet | `node.h` `ftnode_pivot_keys` (declaration only) | pivots in fixed or DBT format | `insert_at`, `append`, `replace_at`, `delete_at`, `split_at`, serialize |
| MembershipFilter | `node.h` 286-412 | the node's quotient filter (`_header._filter`) | `create_bloom_filter`, `destroy_bloom_filter`, `insert_into_bloom_filter`, `remove_from_bloom_filter`, `is_key_in_bloom_filter`, `reset_bloom_filter`, `merge_bloom_filter_with`, `clone_bloom_filter`, serialize/deserialize |
| Partition and clock | `node.h` 431-520, 743-846 (not modelled) | `pt_state`, child tag, `clock_count` | `set_BNULL`, `set_BNC`, `set_BLB`, `set_BSB`, `BP_TOUCH_CLOCK`, `BP_SWEEP_CLOCK`, `BP_INIT_*_CLOCK` |
| BufferedChildInfo, BasementSegment | `node.h` (declarations only) | message buffer, fresh/stale trees, basement data | `toku_bnc_*` and `toku_ft_bn_*`, implemented elsewhere |
| Tests | `src/ft/tests/` | — | `test-checkpoint-during-flush.c` (checkpoint racing a flush); `affine_bench_prep_data.cc` (benchmark data) |

**Interactions.** The serializer writes a node as its pivots, its partitions
and its filter. It asks the block allocator for a byte range to write into,
and frees the range of the node's previous version after a checkpoint. The
placement strategy sees the allocator's sorted array and nothing else.

**Concurrency.** The allocator itself takes no lock for allocation. The block
table above it serializes all calls, so the model runs one call at a time.
Different allocators (one per open dictionary) run on different threads,
and they share one thing: the trace file `ba_trace_file`. Each allocator
guards its trace writes with its own `_trace_lock`. Node partitions are the
other place where threads share state (the eviction clock is touched by
readers holding only a read lock); the code that does so is outside this
tree (section 6).

**Hard behaviours, and the properties they call for:**

* Allocation hazards:
  * boundary comparisons in `alloc_block` (the hole right after the reserve,
    aligning the end of the chosen block);
  * array growth before each memmove;
  * the byte count on `free_block`;
  * the binary search in `find_block`;
  * hole statistics.

  The properties: the array stays sorted and disjoint, the byte count stays
  exact, capacity covers the blocks, the search finds every block, first fit
  picks the lowest hole, and the implementation refines the contract.
* The bulk load trusts its input except in paranoid builds (see the findings).
* The membership filter should never deny a key that was inserted (spec §8),
  and should never lose an insert for lack of room (spec §6). Capacity
  depends on how the filter was obtained: created, merged into, or read back
  from disk.
* Trace lines of different allocators share one file.

## 2. Modules

| Module | Models | Kind |
|---|---|---|
| `BlockAllocator` | `block_allocator.h`: the contract as a set of blocks | abstract spec |
| `BlockAllocatorStrategy` | `choose_block_to_alloc_after` and the four strategies, as operators returning the set of allowed choices | pure operators |
| `ArrayBlockAllocator` | `array_block_allocator.cc`: one action per public method; the queries as operators | detailed spec; refines `BlockAllocator` through `BA == INSTANCE BlockAllocator WITH allocated <- ...` |
| `MC_ArrayBlockAllocator` | model constants: the load sets | MC module |
| `MembershipFilter` | the filter methods of `ftnode` in `node.h` | component spec |
| `MC_MembershipFilter` | the address-to-fingerprint map | MC module |
| `AllocationTrace` | the `_trace_*` functions at `fprintf` granularity, several allocators, one trace file | component spec |
| `MC_AllocationTrace` | instantiates `AllocationTrace` | MC module |

### ArrayBlockAllocator

**State.** `blocks` is `_blocks_array[0.._n_blocks-1]` (numbered 1..n).
`blocksArraySize` is `_blocks_array_size`, `nBytesInUse` is
`_n_bytes_in_use`, and `strategy` is `_strategy`. `live` separates an
allocator that has been created from one that has been destroyed.

**Actions:**

* `Create` is `create`.
* `CreateFromBlockpairs(S)` is `create_from_blockpairs`:
  * the pairs are sorted;
  * three always-on `invariant()` checks run on each pair;
  * `VALIDATE()` runs only when the constant `Paranoid` (TOKU_DEBUG_PARANOID)
    is TRUE.
* `AllocBlock(size, heat)` is `alloc_block`. Its four disjuncts are the
  method's four placement paths:
  1. empty array;
  2. the hole after the reserve;
  3. the strategy's chosen block;
  4. the end of the file.

  Each path includes the array growth and the byte count.
* `FreeBlock(offset)` is `free_block`, with `find_block`'s binary search.
* `SetStrategy(s)` is `set_strategy`.
* `Destroy` is `destroy`.

A failed `assert`/`invariant` aborts the process. It is modelled as the
action's guard: no behaviour continues past an abort.

**Strategies.** `block_allocator_strategy.cc` is not in this tree, so the
strategies follow spec §4.5:

* first fit and best fit are exact;
* heat zone with heat 0 is first fit;
* heat zone with heat > 0, and padded fit, may return any fitting gap or
  nullptr.

This over-approximation covers every implementation the spec allows.

### MembershipFilter

The code copies each key into a freshly malloc'd, length-prefixed buffer. It
then hands the QF `(uint64_t)key_p`, the buffer's address, and frees the
buffer.

The model makes the same choice:

* the address is chosen from `Addresses` on every call;
* the QF is reduced to a count per fingerprint `Hash[address]`;
* the history variable `present` counts, per key, the insertions not yet
  removed. It is the set spec §8 says a lookup may never deny.

**Capacity.** `nslots` is the number of distinct fingerprints the filter has
room for; `autoResize` is `runtimedata->auto_resize`. What the QF does when
it is full comes from the gqf library, which is outside this tree:

* `qf_insert` doubles the filter when auto-resize is set, and otherwise
  returns `QF_NO_SPACE`;
* `_qf_insert_internal`, which `merge_bloom_filter_with` uses, never
  resizes.

The `ftnode` methods ignore both results. The history variable `dropped`
records that an insert found no room.

**Other actions:**

* `SerializeBloomFilterToWbuf` writes the metadata and blocks to `image`.
  The runtime data is not written.
* `DeserializeBloomFilterFromRbuf` copies them back into a fresh node. It
  calloc's the runtime data, so `autoResize` is FALSE.
* `CloneBloomFilter(n, m)` is `qf_copy(qf, another)`. With gqf's
  `(dest, src)` order, node n's filter becomes a copy of m's. Spec §4.4
  names the operation `clone_into(target)`; the code copies the other way,
  into `this`. gqf's `qf_copy` copies into the buffers the destination
  already has and does not reallocate them. The model's `storage` is the
  slot count of the buffer behind `qf->blocks`. It is set by create, by a
  resize and by deserialize (its `toku_realloc`), and clone leaves it alone.

The QF's slot layout, its hash function and the exact fill threshold at which
it resizes are not modelled.

### AllocationTrace

`file` is `ba_trace_file`, modelled as the sequence of pieces that single
`fprintf` calls wrote. glibc locks the stream per call, so each `fprintf` is
atomic. Per allocator the model keeps:

* `live`;
* `locked`: it holds its `_trace_lock`;
* `printed`: the pairs of its current `create_from_blockpairs` line written
  so far.

`_trace_create`, `_trace_alloc`, `_trace_free` and `_trace_destroy` each write
one whole line with one `fprintf`, so each is one action.
`_trace_create_from_blockpairs` writes a head, one `fprintf` per pair, and a
newline, all under the lock. It is therefore three actions: Head, Pair and
End. The numbers printed, the `fflush` after the unlock and the
`ba_trace_file == nullptr` case (nothing is written) are left out. The
allocator state behind the trace is also left out: the trace's line structure
is what the replay tool depends on.

## 3. Runs

| Run | Cfg | Expect | What it shows |
|---|---|---|---|
| `alloc_paranoid` | `MC_ArrayBlockAllocator.cfg` | pass | See below. |
| `alloc_release_overlap` | `MC_ArrayBlockAllocator_release.cfg` | violation of `BlocksSortedDisjoint` | With `Paranoid = FALSE`, `create_from_blockpairs` loads two overlapping pairs. |
| `filter_pointer_hash` | `MC_MembershipFilter.cfg` | violation of `NoFalseNegatives` | Insert a key, then look it up through a buffer at another address: the filter says absent. |
| `filter_merge_no_room` | `MC_MembershipFilter_merge.cfg` | violation of `NoDroppedInserts` | Two fresh filters each hold one fingerprint. Merging one into the other loses a fingerprint: `_qf_insert_internal` does not resize. |
| `filter_reload_no_resize` | `MC_MembershipFilter_reload.cfg` | violation of `NoDroppedInserts` | Create, insert, serialize, destroy, deserialize, then insert a second fingerprint: the reloaded filter cannot grow. |
| `filter_clone_overflow` | `MC_MembershipFilter_clone.cfg` | violation of `StorageHoldsSlots` | Node n1's filter doubles on its second insert; n2's is fresh. Cloning n1 into n2 gives n2 metadata for 2 slots over a buffer of 1. |
| `trace_torn_line` | `MC_AllocationTrace.cfg` | violation of `WholeLines` | Allocator x starts a `create_from_blockpairs` line; allocator y's `_trace_create` lands inside it. |

**What `alloc_paranoid` shows.** Every sequence of create, bulk load, alloc
(all four strategies, heat 0 and 1), free, set_strategy and destroy keeps
these properties:

* `TypeOK`: every offset is aligned and inside the file bound;
* `BlocksSortedDisjoint`: the blocks stay sorted by offset and disjoint;
* `BytesInUseMatchesBlocks`: the byte count is exact;
* `ArrayHoldsBlocks`: the capacity covers the blocks;
* `FindBlockLocates`: the search finds every block.

Three more are properties of steps:

* `FirstFitLowest`: first fit takes the lowest hole;
* `HoleReuse`: a request no larger than the reported largest hole does not
  grow the file under first or best fit;
* `Refinement`: the array allocator implements `BlockAllocator`.

Every property of the passing runs has a mutant in `PROJECT.json`. Each mutant
is a plausible slip in the code, and TLC reports it as a violation.

### Bounds

The allocator bounds, and why each is chosen:

* `Reserve = 1000` is not aligned, so `align(reserve)` matters.
* `Alignment = 512` is the smallest legal value.
* `Sizes = {100, 512, 1100}`:
  * 100 leaves unaligned ends;
  * 512 fills a 512-byte hole exactly, which exercises the `<=` boundary;
  * 1100 spans more than two alignment units.
* `Heats = {0, 1}`.
* `FileLimit = 4096` caps file growth. Without it the end-of-file path
  repeats for ever.
* The load sets are:
  * empty;
  * a well-formed unsorted pair;
  * an overlapping pair;
  * a misaligned pair.

With these bounds, holes appear, get reused and get exactly filled. Arrays of
up to six blocks occur, and the capacity doubles twice. The run reaches about
11,000 distinct states in about 10 seconds.

**Filter bounds.** One node, one key, two addresses with different
fingerprints, counts up to 2. That is the smallest setting in which two calls
can see different buffers.

**Trace bounds.** The torn-line run uses two allocators, one pair per bulk
load and a file of 4 pieces, which is the shortest tearing. A trace call
starts only while the bound leaves room for its whole line, so the bound
never cuts a line short. At the bound the system stops, which is why the
run says `CHECK_DEADLOCK FALSE`.

**Fairness.** None is assumed, and no liveness property is checked. The
allocators and the filter are passive and move only when their callers
call them, and the one loop under a lock (the pair loop of
`_trace_create_from_blockpairs`) is a bounded `for` that ends whatever the
other threads do.

## 4. Findings

* **Overlapping blocks load silently in release builds**
  (`array_block_allocator.cc:113-123`, run `alloc_release_overlap`). Only
  paranoid builds check for overlap. A release build accepts an overlapping
  block table, although spec §4.5 and §7 say overlaps are fatal.
* **The filter hashes the pointer, not the key** (`node.h:359, 370, 380`, run
  `filter_pointer_hash`). Membership depends on where malloc puts a
  temporary buffer, not on the key. Inserted keys can be reported absent, and
  `remove` can decrement another key's entry. This contradicts spec §4.4
  (length-prefixed key bytes are hashed) and §8 (no false negatives).

* **The trace lock is per allocator, the trace file is global**
  (`array_block_allocator.cc:58, 72-73, 387-401`, run `trace_torn_line`).
  `_trace_create_from_blockpairs` writes one line in 2+n `fprintf` calls
  under this allocator's `_trace_lock`. Another allocator's trace call takes
  a different lock and can write between the pieces. This tears the line
  the offline replay parses.
* **Merging can lose keys** (`node.h:396`, run `filter_merge_no_room`).
  `merge_bloom_filter_with` inserts through `_qf_insert_internal`, which
  skips auto-resize, and ignores its result. Spec §4.4 says merge makes every
  key of the other filter present, and spec §6 says capacity growth is never
  surfaced.
* **A filter read from disk no longer grows** (`node.h:315-341`, run
  `filter_reload_no_resize`). The runtime data is calloc'd afresh and
  `qf_set_auto_resize` is not called. Once the reloaded filter is full,
  `insert_into_bloom_filter` drops keys silently. Spec §4.4 says filters are
  created auto-resizing.

* **Cloning a grown filter overruns the destination** (`node.h:348-351`,
  run `filter_clone_overflow`). `clone_bloom_filter` calls `qf_copy(qf,
  another)`. gqf's `qf_copy` copies the source's metadata, and
  `total_size_in_bytes` of the source's blocks, into the destination's
  existing buffers. Once an auto-resizing insert has doubled `another`,
  cloning it into a filter of default size writes past that filter's
  blocks. The model of `qf_copy` follows the gqf library, which is not in
  this tree.

Also noted, not checkable by TLC:

* The comment on `BP_TOUCH_CLOCK` promises a compare-and-swap; the macro is a
  plain store of 1 (`node.h:829`). Racing touches all store the same value;
  whether a sweep can race them depends on callers outside this tree.
* `block_allocator` declares `free_block(uint64_t offset)` and
  `block_size(uint64_t offset)` pure virtual (`block_allocator.h:128, 134`).
  `array_block_allocator` defines `free_block(offset, size)`, and
  `tree_block_allocator` declares `free_block(offset, size)` and no
  `block_size`. Neither overrides the pure virtual methods, so as written
  neither class can be instantiated through the interface. The models use
  each implementation's own signature.

## 5. Plan

In order of importance:

1. **Allocator core.** Done.
2. **MembershipFilter.** Done: pointer hashing, capacity, merge,
   serialization and clone.
3. **Allocation tracing.** Done.
4. **Partition state, eviction clock and the tree allocator.** Not
   modelled: their behaviour is in code outside this tree (section 6).
5. **Checkpoint during flush.** The interleaving exercised by
   `test-checkpoint-during-flush.c`. It needs the flusher and checkpoint
   code, which is outside this tree (see below).

## 6. Not modelled

* **PivotKeySet** (`node.h` 54-160). Only the class declaration is in this
  tree: one-line effect comments and the private members. `pivotkeys.cc`,
  which holds the choice between fixed and DBT format, the conversions and
  the serialization, is absent. A model would restate spec §4.1, not
  translate code.
* **BufferedChildInfo and BasementSegment** (`node.h` 417-460). These are
  struct declarations. Their operations (`toku_bnc_*`, `toku_ft_bn_*`,
  message buffers, OMTs) are implemented outside this tree.
* **TreeBlockAllocator** (`tree_block_allocator.h`). Only the class
  declaration is here; `tree_block_allocator.cc` and `rbtree_mhs` are
  absent. A model of its hole bookkeeping would be a design of our own, and
  its properties (tiling, counts, refinement, agreement with the array
  allocator) would hold whatever the code does. For the same reason the
  array allocator's answers (for example `allocated_limit`, the unaligned
  end of the last block, as `block_allocator.h:141-142` and spec §4.5 say)
  are not compared with the tree's.
* **Partition states and the eviction clock** (`node.h` 431-520, 743-846).
  `node.h` has the tag setters `set_B*`, the accessors that check the tag,
  and the clock macros, each a single store or load. Every change of
  `BP_STATE`, the pairing of a state with its `set_B*` call, the touches
  under a read lock and the partial-eviction pass are in ft-ops and the
  cachetable. A model would check its own composition of those steps, not
  the code.
* **Node dirtiness and the partition disk data** (`node.h` 181, 268,
  465-486). `node.h` declares `_dirty` and its accessor. The comment on
  `ftnode_disk_data` says `BP_START`/`BP_SIZE` mean nothing while the node
  is dirty. The code that sets and clears the flag, writes nodes out and
  decides whether a dirty partition may be evicted is in ft-ops and the
  cachetable, which are outside this tree. A model would have to invent
  that policy.
* **Node header accessors** (`node.h` 163-285). These are plain field
  references with no behaviour.
* **`test-checkpoint-during-flush.c` and `affine_bench_prep_data.cc`.**
  These are a test and a benchmark generator that drive code not in this
  tree.
* **64-bit wrap-around in the statistics on overlapping layouts.** Model
  integers stay small.
* **The QF's internal layout, hash function and fill threshold.** They are
  kept abstract as fingerprint counts and a capacity in fingerprints.
* **Concurrent calls on one allocator.** Spec §5 gives the callers (the
  block table, under its own lock) exclusive use of an allocator, and the
  allocators keep no lock of their own except the trace lock. The allocator
  models therefore take one call at a time, and only the trace file, which
  all allocators share, is modelled with interleaving (`AllocationTrace`).
* **`fflush` and the `nullptr` trace file.** They do not affect the order or
  content of trace lines.
