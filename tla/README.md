# ARLE: TLA+ models of the serving core

ARLE is a Rust inference runtime (`infer/`) with CUDA and Metal backends, a
training stack (`crates/train`, `crates/autograd`) and an agent front end
(`crates/agent`, `crates/tools`, `crates/cli`). What it adds to the
model's arithmetic is bookkeeping: which physical page holds whose keys and
values, which cached prefix may be attached to which request, which copy of a
block in which tier is the good one, which request a batch in flight belongs to,
and which thread may touch it when. A wrong answer there is silent: the model goes
on decoding from another request's context. This project models that bookkeeping.

Paths below are relative to the repository root.

## 1. Inventory

### Modelled

| Part | State | Operations | Interacts through |
|---|---|---|---|
| **CUDA scheduler** `infer/src/scheduler/cuda/*` | slots, waiting, prefill and decode queues, batches in flight, page budget, stop-string gates | `run_inner`, `step`, `assign_slots`, prefill and decode launch and readback, mixed launch, preemption, finish, abort, `cleanup` | channels to clients, emit worker and coordinator; GPU batches read back later |
| **Emit worker** `core/emit_worker.rs` | stream state per request | Append, Finish, Abort | own thread; its verdict on stop strings gates a slot |
| **KV-tier coordinator** `infer/src/kv_tier/coordinator.rs`, `coordinator/*` | two bounded channels, atomic counters, live and cancelled ticket sets, staged host regions | `submit_fetch`, `submit_store`, `submit_prefetch_plan`, `cancel`, `run_once` with its three handlers, `Drop` of the scheduler | own OS thread; shares counters and ticket sets with the scheduler thread outside the channels |
| **Fetch waiters and tier movement** `runtime/{fetch,admission}.rs`, `readmission.rs`, `core.rs` | fetch and store tables, location, store state and region of each cached block | admission with a staged plan, prefetch, completion, demotion, host eviction, spill, drain, publish | commands and events of the coordinator, regions of the host pool |
| **Paged KV pool** `crates/cuda-kernels/src/paged_kv.rs` | free stack, page tables, lengths, attach and retain counts, slot epochs | `alloc_tokens`, copy-on-write of the tail page, `attach_pages`, `retain/release_pages`, `truncate_slot`, `free_slot`, `alloc_detached_pages` | called by the scheduler thread only; its pages are named by the prefix cache |
| **Decode metadata** `crates/cuda-kernels/src/tilelang.rs` | the copy of the page tables that attention reads, identity of the batch it was built for | `update` with three shortcuts, `update_mixed_batch`, `update_sparse_single` | reads the pool one step after another |
| **Prefix cache** `infer/src/prefix_cache.rs` | compressed radix tree in a node vector, free node slots, `block_index`, pin counts, tier of each block | `lookup_or_stage`, `insert_with_fingerprints`, `release`, `retag_block`, tier-filtered eviction, `gc_orphan_tombstones` | admission pins, `cleanup` releases and publishes, demotion retags, eviction frees pages |
| **Host-pinned pool** `kv_tier/host_pool.rs`, arena of `crates/kv-native-sys` | live regions, free list, bump pointer | `reserve`, `release`, `reset` | a mutex |
| **Disk and shared-fs stores** `kv_tier/transport/*` | block files, staging files, the root directory | `put_block`, `delete_block` | the file system, other nodes |
| **Write-ahead log** `crates/kv-native-sys` | the log file | `wal_append`, `wal_replay` | the file system |
| **Engine pool** `server_engine/pool.rs` | entries, loaded estimate, leases, last use | checkout with eviction plan, `unload_idle`, `unload_expired`, `Drop` of a lease | leases are dropped by other threads |
| **Distributed group and relay** `request_handle.rs`, `scheduler/types.rs`, `multiproc_relay.rs` | waiting counts, queues of the ranks, published tokens | submit with permits, broadcast, token synchronisation | threads or processes that meet in collectives |
| **Metal runtime** `backend/metal/{scheduler,runtime,request_state}.rs` | scheduler and runtime tables, request states, packed decode batch, C++ session | the runtime loop, activation, prefill chunk, packed decode, reaping | client streams, one compiled model session |

What is hard in each, and what makes it correct:

- *Coordinator.* The command is visible to the other thread before it is
  counted; `cancel` takes two locks one after the other; both channels are
  bounded, so each side can block on the other; a fetch can fail after staging
  some blocks. Correct: no host region lost or held twice, a store finds its
  bytes, every accepted ticket settles exactly once, `Drop` always joins.
- *Pool.* A page has several holders (slots and the cache) that leave in any
  order; a slot may stop inside a borrowed page. Correct: a page is free exactly
  when nobody holds it, and nobody's rows are overwritten.
- *Decode metadata.* A cache with an identity check: slots are freed, refilled,
  truncated and copied-on-write between two steps; uploads fail half-way.
  Correct: every shortcut gives what a rebuild would give.
- *Prefix cache.* Splits inside a block, block ids replaced under a pin, ids
  reused by the pool, node slots reused after collection. Correct: a lookup
  returns the blocks of its own prompt, the index is exact, attached blocks are
  not given away, pins are given back.

- *Scheduler and emit worker.* A batch is on the GPU while its requests finish,
  are preempted or lose their client; a slot waits for another thread's verdict.
  Correct: no request is lost between queues, results go to the request they were
  computed for, a client sees its text once and one end, and every client that
  stays is answered.
- *Tiers.* Several requests wait for one fetch; a block moves while a store reads
  it. Correct: the tables agree and every waiter is served.
- *Host arena, disk, log.* A free list that never merges neighbours; a crash, a
  kill or a purge between any two system calls. Correct: regions tile the arena, a
  reader never sees part of a block, what was acknowledged survives.
- *Engine pool, distributed group.* A plan reads counters that other threads change;
  ranks see requests at different moments. Correct: nothing in use is unloaded, the
  counts are exact, ranks agree on order and tokens.
- *Metal runtime.* The KV of all decoding requests is one padded array that is
  grown, compacted and rebuilt. Correct: tables agree, rows hold their own request's
  tokens, every request is answered.

### Not modelled

- *Could be modelled*: session slots (`core/session_slots.rs`), host block manager
  (`block_manager.rs`), CPU batch scheduler (`scheduler/batch.rs`), NUMA router of
  the request handle, Metal prefix runtime, draft model and KV pool, shared memory
  and mmap objects of `kv-native-sys`, agent turn loop (`crates/agent`), training
  control server (`crates/train`).
- *Left out for good*: kernels, models, sampling, quantisation, autograd (numerics);
  tokenizer, weight files, GGUF, hub downloads (formats and I/O); HTTP layer
  (translation; its shared state is the request handle); metrics and tracing
  (observation); NCCL and tensor-parallel sharding (external); foreign bindings and
  the `*-spec` crates (declarations).

The second group is most of the repository: model implementations, GPU backends,
autograd, training and weight formats are about three quarters of its Rust lines, and
what they compute has no states to explore. Much of the rest is configuration,
logging, metrics, FFI plumbing and in-file tests. The mapped lines are therefore about
five per cent of the whole: the state machines of the serving core, and little else.

## 2. Plan

Models, in the order they were written: `Coordinator` (+ `TicketLifecycle`),
`PagedKV`, `DecodeMetadata` (extends `PagedKV`), `RadixCache`, `Scheduler` (+
`ClientStream`), `KvTier`, `HostArena`, `DiskStore`, `Wal`, `EnginePool`,
`DistributedGroup`, `MetalRuntime`. Proofs: `CoordinatorProofs`, `ServingProofs`
(engine pool, distributed group), `KvNativeProofs` (arena, disk store, log),
`PagedKVProofs`, `DecodeMetadataProofs` (on top of `PagedKVProofs`), `KvTierProofs`,
`MetalRuntimeProofs`; `Induction` holds the lemmas that stand in for induction schemes
and those on lists that the proofs share. `Selections` holds the one operator on lists
that `KvTier` and `MetalRuntime` share.

Left, in order of importance:

1. Proofs: the safety properties of `Scheduler`.
2. Session slots on top of `KvTier`, the Metal prefix runtime on top of
   `MetalRuntime`.

## 3. Modules and the code they stand for

`PROJECT.json` maps every definition to its lines; this section says how to read
them. An operator named `D_Word` is a faulty variant of the definition `D` below
it; it documents what a property is able to catch, and no specification uses it.

### Coordinator

Two processes. `cpc` is where the client (the scheduler thread, sole owner of the
`CoordinatorHandle`) is; `pc` where the coordinator thread is. Each call that
touches shared state twice is two actions: `TrySend` (the command is in the
channel) and `on_submit` (counters and live set); `cancel` and `cancel_insert`
(two locks); `try_send_shutdown`, `DropHandle`, `DropEvents`, `Join` (the order
in `Drop for Scheduler`). The coordinator's handlers are one action per point at
which the other thread can see a difference: `run_once`, `on_start`,
`EmitQueued`, `CheckCancelled`, `StoreBlock` / `FetchBlock` (one turn of the
loop), `report_failure`, `EmitCompleted`, `on_finish`. Emission blocks on a full
channel for fetches and stores (`emit_required`) and drops the event for plans
(`emit_observability`). The I/O on one block is one step that succeeds or fails.

`on_submit` and `on_finish` each change two atomics and a set under its lock; each
is one action. No reader outside `active()`, which only the client calls between
its own calls, looks at two of them together.

`DrainEvent` models what the handler does to host regions (`EndStore`, `EndFetch`);
waiters are left to `KvTier`. `ReserveRegion` and `ReleaseRegion` stand for the demotion
that fills a region and the promotion that empties it. A region is named in three
places: the location of a client's block (`owned`), the waiters of a store
(`storeWaiting`) and the plan of a fetch (`planned`). `Release` is `release_host_region`,
which asks none of them; `stale` is a history of the regions released while one of them
still named them. Such a name stays, so the region, once reserved again, may be named by
two records, and `Forget` lets the other one keep it. The source of a promotion must be
live, because `promote_fetched_prefix` copies from it before it releases anything.

`TicketLifecycle` is the abstract specification: a ticket is announced once, then
settled once, cancelled only on request. `obs`, what the client has drained,
refines `status`.

### PagedKV

One action per uninterrupted call sequence of the scheduler. `append` is
`alloc_tokens` with the copy of a shared partial tail before it and the kernel's
writes after it; `append_out_of_pages` and `append_copy_fails` are its error
returns with what they leave behind; `attach_pages` borrows cached blocks, one
token short on a full-prompt hit (`short`); `publish_and_free` is
`publish_to_prefix_cache` followed by `free_slot`, as `cleanup` runs them;
`release_block` is `drop_cached_blocks`; `install_block` and `install_copy_fails`
bring a block back. The free list is a LIFO stack in the code; the model pops any
free page, which allows more. Slots are finitely many, which the counts need. `kv`, `log` and `sealed` carry one value per token
row: `kv` is the device memory, the others are histories.

### DecodeMetadata

Extends `PagedKV`: any call sequence on the pool (`PoolStep`) may happen between two
decode steps. `FastPages` is `fast_page16_metadata`; the code takes that path for pages
of 16 tokens, the model for any page above one token, which is what the two cases differ
in. `MCKvIndex` lets a behaviour start with either kind of page. With pages of one token
no prefix is borrowed: a full hit attached one token short would leave an unused page
behind the newest token, and whether such pools ever borrow depends on the served model.
`Splice` is the in-place move, segment by segment from the back. After a failing upload
the scheduler finishes the batch, so `dead` slots must be freed before anything else.

### RadixCache

`nodes` is the vector, `freeNodes` the stack of reusable slots, `index` the
`block_index`. Insertion is written as the code's loop, with recursive operators
over a record of five fields: `InsertFrom` descends and replaces, `Split` cuts
an edge, `NewSubtree` adds the rest. `admit`, `finish` and `abort` are the
scheduler's use of it; `demote` retags a T0 block to a host id; `evict` takes any
set of victims the scoring loop could pick, since scores and soft pins only choose
among candidates; `readmit` is the admission of a prefix some of whose blocks are in
the host tier: the pins of the lookup are dropped, `Rooms` is whatever
`evict_prefix_cache_for_allocation` may leave when it makes room for the promotion
(`Demotions`, then drops), and then `promote_fetched_prefix` names the blocks by the
plan made before that (`Promoted`; `PromotedInPart` when the pages run out half way).
A block in T0 is named by its first page, one of 1..`NumPages`, so an id is reused as
soon as its page is; a block in the host tier has one of `NumLogical` ids of its own. The
model reuses the smallest unused id. `cached[b]` is a history: the tokens whose KV the
id `b` names. Two more histories record the defects of section 6: `slotReused` (a node
slot was handed out while a node used it) and `planOvertaken` (making room took a block
the promotion then named).

### Scheduler and ClientStream

`s` is the scheduler's state, `pc` the place in `run_inner` and `step`: `intake`,
`events`, `wait`, `assign`, `prefill` and `deferred` and `pending` (readbacks),
`launch`, `dispatch`, `cleanup`. Everything between two points at which another
thread or the GPU matters is one action; each readback may find its batch ready,
not ready or failed. The emit worker takes one command at a time from `emitRx` and
answers through `emitEvents`. A page holds one token, so that pages run out token by
token. A setup fixes what depends on the model: mixed launch, asynchronous prefill,
short prompts first. Characters and tokens are one unit; a stop string is one token.
Switched off: prefix cache, speculation, several ranks, priorities, cool-down after
an out-of-memory error.

`ClientStream` is what a client may rely on: text grows, then one end, unless it
leaves. `StreamPromise` shows that `Scheduler` implements it for clients without stop
strings (for the others see section 6).

### KvTier

`s` is the scheduler's share: cached blocks with location, store state and region,
requests with their staged plan, the fetch and store tables. All prompts are prefixes
of one, so a fingerprint is a position. The coordinator is two queues, `cmds` and
`events`, and the two handlers as `Coordinator` has them, one command at a time. A
block's bytes are tracked in regions and files, so that a wrong region shows. The code
loops over the waiters of a ticket, the blocks of a plan and the victims of an eviction;
where one turn cannot influence the next, the model does them at once for a set. The
spill loop, whose turns share a target and the room in the channel, and the staging of
a fetch are folds over a sequence. `tree` tells apart the subtrees that evictions have
cut off: their blocks are found by no lookup and are still spilled and demoted leaves
first. The spill takes deep blocks first, where the code ranks the leaves of different
subtrees by recency.

### HostArena, DiskStore, Wal

The substrate of the lower tiers. The turn of the rewind loop, each system call of
`write_file_atomic` and each write of `wal_append` is an action. The file system is
external: directories and files keep what was synced, and a crash may keep more. Keys
and values of the log have any length, and the decoder is the code's loop as a
recursive function of the place it has reached, so it may take lengths out of the
middle of a record when something before it is cut.

### EnginePool, DistributedGroup

`EnginePool`: `call` is the pool's thread inside `checkout`; its plan reads the
entries one by one while `DropTouches`, `DropUncounts` and `DropReleases` take a
lease apart in the order of its `Drop`. `last_used` is an engine's place in the
order of last use, not a clock; `Total` is the estimate of a set of models; expiry of a ttl is a free choice.

`DistributedGroup`: the client side of `submit` (permits rank by rank, then the send,
under the submission lock), the relay's streams, and a rank's turn reduced to drain,
admit, forward and token synchronisation. `Forward` needs all ranks: it is the
collective. `mode` is `threads` (shared `DistributedTokenState`) or `relay` (one
process per rank, tokens broadcast). A wait times out only when rank 0 is blocked.
`Launch` also preempts: each rank has its own page pool, so any victims that
`retract_decode_to_fit` could take on this rank (`Retractable`: fewest generated tokens
first, never all) go back to the head of its queue with no generated tokens and the same
token coordinator. `restarted` is a history: the requests rank 0 has preempted. The reset
of the slot is taken to succeed.

### MetalRuntime

The runtime thread's `at`: `loop`, `activate`, `decode`, `deliver` (row by row, as
clients may leave between rows), `prefill`. The model is a compiled Qwen3.5, whose
requests never join a mixed batch. The i-th token of a client is `<<client, i>>`, so
a row of the packed batch shows whose tokens it holds and in which order; `fed` is
the history of what a request's model state was fed. `Build`, `Retain`, `Admit`,
`Synced` and `Forward` are the operations on the batch with their left padding and
the stash of the pipelined decode. `Picked` takes the entries of a list at given
places, as `retain_rows` does with its row indices.

## 4. Runs

| Run | Bounds | What it shows |
|---|---|---|
| `coordinator_safety` | 2 tickets, lists of up to 2 blocks, 2 regions, queues of 2; regions released at any time | types, `RegionOwnership`, `StoreSourceLive`, `QueueAccounting`, `SubmitHeadroom` |
| `coordinator_live` | 2 tickets, 1 block, queues of 1, fairness | `ImplementsLifecycle`, `EveryTicketSettles`, `DropJoins` |
| `coordinator_store` | 1 ticket, 1 block, 1 region | violates `StoreOwnsRelease` |
| `kv_storage` | `PagedKV`: 3 pages of 2 tokens, 2 slots, lengths up to 3, retain counts up to 2, failing copies. `HostArena`: 7 bytes, sizes {2} or {1,2,3}. `DiskStore`: 2 nodes, 3 puts, 2 losses, 1 failed write. `Wal`: 3 appends, 2 crashes | `AttachExactButLostCopies`, `FreeExactlyUnreferenced`, `KVIntact`; `ArenaTiled`, `SpaceComesBack`; `CanonicalNeverPartial`, `AckedBlockSurvives`; `ReplayFaithful` |
| `kv_index` | `DecodeMetadata`: 2 slots; 3 pages of 2 tokens with failing uploads, or 4 pages of one token without. `RadixCache`: 2 requests, prompts `1111` and `12`, blocks of 2, 2 pages and 2 host ids, 2 evicting calls, until a recorded defect strikes | `MetadataCurrent` for every shortcut of `update`; `LookupSound`, `BlockIndexExact`, `HeldBlocksLive` |
| `radix_slots` | 1 request, 3 pages, no host tier, 2 evicting calls | violates `BlockIndexInSync` |
| `scheduler` | 2 clients with prompts and completions of 3 tokens, 8 pages, chunks of 1, flush interval 2, one stop string, one hang-up, 1 fault, two setups | `NoSlotForgotten`, `GateAnswered`, `ReadbackOwner`, `PagesBalanced`, `TextMatchesUsage`, refinement `StreamPromise`; no deadlock |
| `scheduler_live` | the same without hang-ups and faults, fairness | `Answered` |
| `kv_tier` | 3 requests for 2, 2 and 1 blocks of one prompt, 3 regions, queue of 2, 4 demotions, 2 hang-ups, 1 fault, fairness | `FetchTablesAgree`, `WaiterServed`, `StoreTablesAgree`, `FetchAnswered` |
| `serving` | `EnginePool`: 4 models for a budget of 4, 3 leases, 4 loads. `DistributedGroup`: 2 clients, 3 ranks, 2 slots, both modes, 1 fault, 1 hang-up; waiting limit 2, up to 2 tokens of 2 kinds, 2 preemptions, or waiting limit 1, 1 token, no preemption | `LeasedStaysLoaded`, `EstimateExact`, `LeastRecentFirst`; `CountExact`, `SameOrder`, `FollowersAgree` |
| `metal` | 3 clients with prompts of 3, 1 and 2, up to 4 or 5 tokens, one urgent, one with other parameters and a stop string, budget 3, waiting limit 2, 2 hang-ups, 1 fault, fairness | `TablesAgree`, `RowsAligned`, `Served` |
| `metal_pipeline` | as `metal`, without hang-ups and faults | violates `OneNewTokenPerCall` |

Parts that share no state are checked in one run (`MCKvStorage`, `MCKvIndex`,
`MCServing`): a behaviour exercises one of them and leaves the others as they started, so
each is explored as it would be alone.

Why the bounds are enough for what is asked:

- Coordinator: two tickets are one running and one queued, submitted or cancelled
  against it; two blocks let a fetch fail after it staged one; queues of one place
  make both sides block. `CounterMod` 16 stands for 2^64: it exceeds what the
  bounded counters reach from above, while a decrement below zero wraps visibly.
- Pool: three pages are one shared, one copied and one to run out of; length 3 of
  pages of 2 is a full page and a partial one. A `MaxRef` of 2 lets a block be
  retained twice. Symmetry over pages, slots and tokens is sound: nothing compares
  them.
- Decode metadata: two slots, so that a splice moves a segment over another. The
  view drops the rows, which no guard of these actions reads.
- Radix cache: the prompts share half a block, so publishing the second splits an
  edge inside a block. Two pages are fewer than the two requests need, so promotions
  make room by demoting and dropping. The second evicting *call* (each of any set of
  victims) is the one that pushes a slot that is free already. The passing run explores
  it, and promotions whose call for room takes blocks of their own plan, up to the
  state in which one slot has become two nodes or a wrong id has been inserted
  (constraint `Undamaged`); `radix_slots` shows what follows the first of the two.
- Scheduler: eight pages hold both prompts and not both completions, so one request
  is preempted while its batch may be in flight; chunks of one make prefill and
  decode overlap; a flush interval of two leaves text held back at the end.
- Tiers: three requests are two waiters on one ticket and one that moves the blocks
  under them; three regions for two blocks run out; the water marks make every
  demotion spill.
- Native: seven bytes with three sizes carve, swap and rewind in all orders; two
  losses are a crash after a purge or a kill before a crash.
- Serving: any two of three models fit, the third needs both gone, and a fourth is
  pinned. With a waiting limit of two the clients' submissions overlap; a limit of one lets
  the second client's reservation fail after some ranks accepted it. With three ranks a broadcast fails before or after a worker got the
  request. A token before the last one, of two kinds, can be taken for that of another
  request or step; two preemptions hit rank 0 and a follower, two followers, or one rank
  twice. Symmetry over leases and words is sound: nothing compares them but for equality.
- Metal: prompts of different length give padding, the urgent client changes the row
  order and forces a rebuild, a finish in the middle compacts with a cut, and a late
  arrival is admitted into the cached batch. Each of these is reached. The
  batch has a place for each of the three; a client that waits for a place in a full
  batch is outside these bounds.

`CHECK_DEADLOCK FALSE` appears where the bounds (lengths, epochs, ids, puts) let a
bounded instance come to rest, or where a thread with nothing to do waits for a
client (Metal). The coordinator and scheduler runs check deadlock: the joined state
and the stopped scheduler stutter explicitly.

### Fairness

Weak fairness of the coordinator thread's actions: it is an OS thread whose steps
either are enabled for good or wait for the client. Weak fairness of the client's
unfinished calls (`on_submit`, `cancel_insert`, the steps of `Drop`): a call that
began returns. Strong fairness of `DrainEvent`: the scheduler loop drains the event
channel on every turn and selects on it while idle
(`scheduler_loop.rs`, `wait_for_coordinator_or_request`), so it cannot submit for
ever and never drain. Nothing makes the client submit, cancel or shut down.

Scheduler: the loop and the worker are OS threads, so each keeps stepping when it can
(weak fairness); a client that means to submit does; and a batch that is polled again
and again completes, since the GPU executes what was launched (strong fairness of the
ready outcome of a poll). `KvTier`: the scheduler handles events and the coordinator
handles commands (weak fairness, as above). `MetalRuntime`: the runtime thread keeps
running while it has something to do; `Fairness` writes that condition (`Busy`) out. A
turn that finds nothing to launch alternates between two names of the same place, so
that it is a step.

## 5. Proofs

Each theorem holds for every value of the constants that satisfies the assumptions of
its module; these only give the constants their types (a positive page size that
divides the block size, a finite set of slots, at least two ranks, a counter width
above the number of tickets, and so on). TLC checked each inductive invariant on a
small instance before it was proved, or the property where the invariant quantifies over
all sequences; that of the pool also with blocks of two pages. The proofs have one lemma or step per action, and
under it one per conjunct the action can disturb.

### Coordinator (`CoordinatorProofs`)

- `TypeCorrect`: `TypeOK`. Not inductive alone: that a handler finds a block to work
  on depends on what the client submitted. `TypeInv` adds `Control`, what the program
  counters know of the commands in the two threads' hands.
- `RegionsOwned` (`RegionOwnership`) and `StoreSourcesLive` (`StoreSourceLive`) rest on

      Inv == TypeInv /\ TicketOrder /\ StagedOnlyByFetch /\ RegionOwnership /\ StoreSourceLive

  `StoreSourceLive` needs to know that the outcome the client drains is not that of a
  store still queued or running: `TicketOrder` states that a ticket is in one place at
  a time and that its outcome event exists only after its command is done.
  `RegionOwnership` needs `StagedOnlyByFetch`: an event that carries no regions must
  leave none behind. Both except the regions that were released while a record still
  named them (`stale`), and no others: the proof goes region by region, and for one that
  is not stale a release means that no record names it afterwards. `RegionsAssumption`
  keeps regions apart from the two other places a block can be fetched from.
- `CountersExact` (`QueueAccounting`) and `HeadroomIsReal` (`SubmitHeadroom`). The
  counters wrap and are moved after the command is visible, so a counter may be below
  zero for a moment. `CountInv` keeps one balance per kind of command (`Books`): the
  counters, the command that is sent and not yet counted, and the commands of that
  kind in the channel and in the coordinator's hands, together with the bound on
  tickets that keeps sums below the counter's width.
- `LifecycleImplemented` (`ImplementsLifecycle`): the refinement of `TicketLifecycle`,
  initial states and every step. `LifeInv` says what the events on their way may
  still tell the client of a ticket: `ChannelAnswers` and `ThreadAnswers` (which
  events may exist, and in which order), `ChannelPending` (a queued command has no
  event yet), `CancelAsked` and `Minted`.

### Paged pool (`PagedKVProofs`)

`FreeStackExact` (`FreeExactlyUnreferenced`) and `AttachCountsExact`
(`AttachExactButLostCopies`), from

    PoolInv == PoolTypes /\ TablesSound /\ BlocksWhole /\ Aligned
               /\ AttachExactButLostCopies /\ FreeExactlyUnreferenced

The attach count is compared with the number of *tables* that list a page, while the
code counts *entries*: the two agree because a table lists no page twice
(`TablesSound`). `attach_pages` keeps that only if the blocks it concatenates are
disjoint, and those come from tables of other requests that may share prefixes.
`Aligned` is the reason: there is an assignment of an offset and a first page to every
page that all tables and all indexed blocks follow, whoever lists the page. Fresh
pages can always be given their place (`AlignedFresh`), borrowed ones have it
(`BorrowedPages`), published blocks inherit it (`BlockOfTable`). `BlocksWhole` says an
indexed block has all its pages retained, so that borrowing never meets a page lost
by a failed copy, and releasing never meets one that is free.

`KVNeverOverwritten` (`KVIntact`) rests on `PoolInv` and

    KVInv == RowsFit(kv) /\ log \in [Slots -> Seq(Tokens)]
             /\ (\A s \in Slots : SlotReads(s)) /\ CacheIntact

`SlotReads` says that row r of the j-th page of a slot's table holds token
`TokenAt(j, r)` of what the slot appended or borrowed, and that the table is tight: its
last page holds the last token. Without the second half an append could fall into a page
before the last one. `CacheIntact` says that an indexed page is full and still has the
rows it was published with. An append writes behind the slot's length: into fresh pages,
which nobody lists (`PoolInv`), or into its tail, which is partial, hence not an indexed
page, unless it was borrowed one token short; then the copy-on-write replaces it first.

The theorem assumes `PageSize > 1 \/ ~CrossSlotAttach`. With pages of one token a prompt
that is cached to its end, attached one token short, leaves a page too many in the table
and its tail looks full, so no copy is made; TLC shows `KVIntact` violated there. Pools
with such pages keep the quantised formats whose prefill writes a contiguous cache first
(`prefill.rs:549`), a path `append` does not model.

### Decode metadata (`DecodeMetadataProofs`)

`MetadataIsCurrent` (`MetadataCurrent`), from the two invariants of the pool and

    MetaInv == device = indices /\ Len(indices) = total
               /\ (prevSlots /= <<>> => the offsets are those of the remembered batch)
               /\ (PageSize = 1 => StillPrefix) /\ MetadataCurrent

(and the types). `update` trusts its copy of the last batch without reading the tables
again, so the proof has to say why each shortcut may:

- With larger pages each slot's copy is compared with its table page by page
  (`cached_is_prefix`), so it is a beginning of the table, and the offsets say that the
  table is as long or one page longer.
- With pages of one token nothing is compared but the epochs. `StillPrefix` says what an
  unchanged epoch stands for: the copy of a slot is a beginning of its present table.
  Every call on the pool preserves it (`TablesOnlyGrow`): it appends to the table or
  raises the epoch. The page it then adds is that of the newest token, which is the last
  page because tables are tight (`KVInv`).
- The splice overwrites the list it reads. Its segments only move to the right and are
  taken from the back, so none is written over before it has moved (`SpliceMoves`);
  with the new last pages filled in, the result is the concatenation of the tables
  (`SpliceIsFlatten`). That the offsets determine this concatenation (`FlattenUnique`)
  lets the fold that rebuilds the list and the splice be compared place by place.

Hypotheses: `PageSize > 1 \/ ~CrossSlotAttach` as for `KVNeverOverwritten`, and
`~UploadMayFail`. With failing uploads and pages of one token the theorem is false of
the model: it lets a slot of the remembered batch grow by several tokens outside any
decode batch while another batch fails in between and replaces the offsets. In the code a
decoding slot grows by one token per step it takes part in, which the pool model does not
impose. Failing uploads are covered by the run only, with pages of two tokens.

### Fetch and store tables (`KvTierProofs`)

`FetchTables` (`FetchTablesAgree`), `WaitersServed` (`WaiterServed`) and `StoreTables`
(`StoreTablesAgree`), from one invariant that relates the scheduler's tables to the
commands and events on their way:

    TierInv == Tables(s, {}, {}) /\ Air(s, cmds, events)

`Tables` is `FetchInv` and `StoreInv` (a key and its ticket lead to each other, a tracked
ticket is wanted), `WaitInv` (a waiter is listed once, under the key of its plan) and the
shape of the record. `Air` is what the tables need to know of the coordinator: no two
commands or events carry the same ticket (`Flight`), and each tracked ticket is carried by
a command or answered by an event *of its kind* (`Flies`). Without the kind, a fetch
ticket could be answered by the end of a store and its waiters be dropped.

Inside one action the tables do not agree: an answered ticket is forgotten before its
waiters go on, a slot is taken off the lists before it gets its next phase. The parameters
of `Tables` say which tickets are wanted by nobody yet and which requests are listed
nowhere, so each operator has a lemma of its own (`ForgetFetchKeeps`, `ClearKeeps`,
`TrackKeeps`, `JoinKeeps`), and most others are shown to touch blocks only (`Moved`) or to
end the wait of given requests (`Settled`). A new ticket is the least unused number; that
there is one among the first n + 1 is the pigeonhole principle (`Unused`). The spill loop
is an induction over its candidates (`SpillKeeps`).

### Metal runtime (`MetalRuntimeProofs`)

`TablesStayInStep` (`TablesAgree`) and `RowsStayAligned` (`RowsAligned`), from

    MetalInv == QueueShape /\ Known /\ PlanKept /\ Phases /\ States(req)
                /\ (cache = None \/ Batch(cache)) /\ TablesAgree /\ RowsAligned

The two properties need each other's surroundings: a row of the batch is right only if
the request it belongs to decodes and is not prefilled in the meantime.

- `PlanKept` is what a plan made at the top of the loop may still rely on when the thread
  gets to the part in question: the rows to decode are active and listed once, *every
  active row of the packed batch is among them*, the request to prefill has no row in the
  batch and enough of its prompt left. The second clause is why a failed decode may drop
  the batch without syncing it back, and why a rebuild finds the tokens of all the rows
  it needs: a request whose arrays are stale is always one of those decoded.
- `Phases` says that an active request in the batch is past its prefill, and that the rows
  of a decode under way are in the batch until the last token is delivered; only then
  are the finished ones compacted away.
- `Known` says that a request is in the channel or has been seen, and never pending while
  it is active or has a row, although requests that left may keep a row for a while.
- `Batch` is the shape of the packed batch: one row per request, all as long as the
  batch, none with more padding than that.

`RetainIs` shows that dropping columns that are padding in every row that stays leaves
each row after its padding as it was (`SameRow`, `StripTwice`); `AdmitIs`, `BuildIs` and
`SyncedIs` do the same for growing, building and syncing back, and `AdjustedIs` puts the
three ways together. That the plan lists each decoding request once needs that the
arrival order with the priorities is a strict total order of a finite set, and that such
a set can be sorted (`SortedExists`).

### Host arena, disk store, log (`KvNativeProofs`)

- `ArenaStaysTiled` (`ArenaTiled`) and `ReleasedSpaceReusable` (`SpaceComesBack`):
  `ArenaInv` adds `TailTaken` (outside the rewind loop no free entry ends at the bump
  pointer) and `OneLength` (a pool asked for one size holds only that size), without
  which a drained arena could keep a hole.
- `ReadersSeeWholeFiles` (`CanonicalNeverPartial`) and `AcknowledgedBlockSurvives`
  (`AckedBlockSurvives`): `DiskInv` speaks of every directory a crash may leave
  (`Kept`), not only of the present one: `NamesApart` and `OneStager` say that the
  staging file is not reachable under the canonical name and belongs to one put,
  `AllCanonicalWhole` and `PromiseKept` are the two properties for all of `Kept`.
- `ReplayIsFaithful` (`ReplayFaithful`): between two calls the file is a chain of the
  records that were acknowledged or found whole (`Holds`), or ends in a part of one
  (`EndsCut`); during a call it is a beginning of the file that the call is laying down
  (`Stage`). What a crash leaves of that is again one of the two, wherever it cuts. The
  decoder reads the lengths it finds: over a chain it arrives at the beginning of every
  record and at the end, which is an induction along the chain from its last record.

The installed provers cannot instantiate the library's induction schemes, which take an
operator. The inductions here go through sets instead: a set of natural numbers that is
not empty has a least element (`HasLeast`, from the well-foundedness of `<`), and the set
of places where the claim fails has none. Module `Induction` has this in the forms the
proofs use: upward over an interval (`Upward`), the greatest element of a bounded set
(`Greatest`), and that a loop of n steps has a value at every step (`LoopExists`). It
also holds what appending, taking the head and selecting do to a list (`SeqFacts`,
`TailFacts`, `KeepingProps`).

### Engine pool, distributed group (`ServingProofs`)

- `EngineInUseStaysLoaded`, `EstimateWithinBudget`, `EvictsLeastRecent`
  (`LeasedStaysLoaded`, `EstimateExact` and the action property `LeastRecentFirst`):
  `PoolInv` adds `CallInv`, what the plan under construction may rely on although
  leases are dropped while it reads. The estimate of a set is the cardinality of a
  disjoint union (`Total`), so that theorems on finite sets replace induction on sums.
- `WaitingCountExact` (`CountExact`): the lock invariant and the count are inductive
  together. `SubmissionOrder` (`SameOrder`): `SentAlike` compares what rank 0 and
  another rank were sent, queue and wire together; `CurrentIsLast` says that the call
  under way is at the end of every list it has reached. `FollowersCopyRankZero` (`FollowersAgree`), for
  the requests rank 0 has not preempted: `SlotIsLast`, the shared slot holds the last
  token rank 0 recorded of such a request, or the stop after it. A follower that
  preempts asks for step 0 again, which the slot still holds or has gone beyond.

### Only model-checked

- Liveness: `EveryTicketSettles`, `DropJoins`, `Answered`, `FetchAnswered` and the
  Metal runtime's; fairness is out of the prover's reach.
- `StreamPromise`, the refinement of `ClientStream` by `Scheduler`.
- `RadixCache`: its insertion is recursive, which the prover's backends cannot use.
- `DecodeMetadata.MetadataCurrent` with failing uploads (see above).
- The safety properties of `Scheduler`: whole-state records updated by folds and
  selections over queues and batches, with an invariant for every place of the loop.
  They could be proved as those of `KvTier` and `MetalRuntime` are; it was not done.

## 6. Findings

*A pipelined decode returns its first token twice* (run `metal_pipeline`,
`backend/metal/request_state.rs:2684`). The call that starts the pipeline returns the
tokens it sampled and stashes them; the next one feeds the stash and returns it. Every
row's first packed token is delivered and counted twice, and the stream lags the KV by
one token from then on; when the pipeline is reset by an admission or a rebuild, the
token already fed is fed once more. The comment at line 2791 says each call returns
one new token.

*A node slot is collected twice* (run `radix_slots`, `prefix_cache.rs:1796`). Each call
of `gc_orphan_tombstones` looks at all slots but the root, finds those again that
`free_nodes` lists already, and pushes them again. Two later insertions get the same slot;
the second overwrites the first node, and `block_index`, which line 264 says is always
kept in sync, maps two blocks to it.

*A promotion releases the region of a store* (run `coordinator_store`,
`runtime/admission.rs:1185`). Promoted blocks give up their host regions at once, also
while a store of the block is queued or running; the plan was built without a look at
the store tables (`core.rs:408`). The store reads what is there by then, and its
end, which `coordinator.rs:100` says owns the release, releases the region once more:
by then it may belong to another block.

Other disagreements met while modelling. The models behave as described; no property
asserts the opposite, or the property names the exception.

Scheduler and streams

- With a stop string, two verdicts may be outstanding for one request, since the next
  batch is launched before the gate is set (`core.rs:1042`); the first releases a
  deferred finish and the client can be told twice that its stream ended.
  `StreamPromise` leaves stop-string clients out for this reason. Such a request may
  also produce one token more than `max_tokens`.
- Preemption drops what was generated and restarts the stream (`decode.rs:149`), where
  `docs/plans/M4.5-kv-preemption-on-regular-decode-path.md:99` keeps it.
- Waiting requests that cannot be admitted are put back in reverse order
  (`scheduler_loop.rs:286`, `:302`, `:324`).
- An error delta overtakes text still queued at the worker, and rows that finished
  already get one too.

Coordinator and tiers

- A finished ticket stays live (`coordinator/builder.rs:81`): the command is sent before
  `on_submit`, and the late insert into the live set is never removed; cancelling the
  finished ticket is then accepted, against `coordinator/tests.rs:432`.
- A promotion releases host regions that a fetch still in flight for another request
  names (`admission.rs:1185`); its completion then carries a region that is free or
  holds another block, and a request may attach another block's KV.
- A store that fails frees the region while the location stays HostPinned (`EndStore`;
  the block then names a region it no longer has, which `RegionOwnership` excepts); a
  direct promotion can leave `store_state` at Storing.
- Host eviction asks for the metadata of blocks that left the index, so it leaks their
  regions and goes on to evict every host block (`core.rs:520`). Overlapping prefetches
  and a republish over a host block leak regions too.
- A promotion that fails on its second block drops the pages of the first without a
  release (`admission.rs:1088`).
- Readmission may evict its own prefix. The waiters' pins are dropped (`fetch.rs:96`)
  before the promotion makes room (`admission.rs:1066`). A block of the plan that is
  still on the device, with only host blocks below it, is a leaf of its tier and may be
  demoted or dropped; its page is given to a promoted block and its old id inserted for
  the tokens it no longer holds, against `prefix_cache.rs:23`. A session's soft pin hides
  this until its keepalive lapses. `readmit` does all this; the properties of
  `RadixCache` except what follows (`planOvertaken`). Without the constraint
  `BlocksCacheTheirTokens` fails in seven states.

Pool and prefix cache

- Publishing an attached prefix retains it twice (`core.rs:1382`); one release per block
  follows, and the pages keep a count that nothing gives back.
- A failing tail copy loses a page (`paged_kv.rs:1088`): it was popped and given an
  attach count, and is in no table.
- Pins outlive their request (`prefix_cache.rs:944`, `:976`): publishing replaces the id
  of a pinned node, a split copies its pins, and both are released by the old id.

Stores and log

- Two puts of one block share the staging file `<path>.tmp`; the canonical file can then
  be partial, or an acknowledged put be lost, and the shared tier's check for existence
  keeps it so. The disk properties except exactly this (`overlap`).
- `wal_append` does not notice a cut tail: what it writes behind it is not replayed
  (`buried`). The log's directory entry is not synced. No caller of the log exists
  outside its crate.

Engine pool and ranks

- A lease lowers `active_requests` before it lets go of the engine (`pool.rs:216`), so a
  replacement can be loaded while the evicted engine is in memory; the test
  `pool_drops_victims_before_loading_replacement` (`pool.rs:606`) asserts otherwise for
  one thread.
- Each rank preempts by its own pool and queue (`decode.rs:167`). The victim goes back
  with the coordinator it had and no tokens. If rank 0 preempts, it publishes step 0
  again while the follower's row enters the same collectives with tokens that rank 0 has
  forgotten; the follower then waits five minutes, or finds its step skipped, and fails
  the request. `scheduler/types.rs:26` promises identical token histories. `Launch` does
  this; `FollowersAgree` excepts the requests rank 0 has preempted (`restarted`), and
  fails without the exception.
- With two requests in flight the ranks' forwards can pair different rows
  (`request_handle.rs:552`), where `scheduler/types.rs:27` speaks of identical histories.
  A client's hang-up reaches rank 0 only; a relay write that fails midway, or a full
  worker queue, leaves the ranks with different requests; the broadcast token carries
  neither request nor step.

Metal

- A panic in activation leaves the waiting count one too high. A compaction that fails
  drops the packed batch without writing the survivors' rows back.

## 7. Abstractions to keep in mind

Data is reduced to what the properties tell apart: a fetched block is its source
tier, a KV row one value, a prompt a short sequence of numbers or one number, a token
its position. Scores, clocks and policies are a free choice among the candidates they
rank. Byte budgets and metrics are left out, and a `write_all` lands in one step, whole
or torn. Fingerprints are left out of `RadixCache`: the tree is keyed by tokens and the
fingerprints only follow; in `KvTier` they are positions in one prompt. The models do
not compose the pool with the radix tree: `PagedKV` lets any block be attached or
dropped at any time, and `RadixCache` treats a block as one id. `Scheduler` runs without
the prefix cache, and `KvTier` without slots and pages: each takes what the other does
to it as a free choice or leaves it out, as its header says.
