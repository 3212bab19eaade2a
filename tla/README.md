# Verification of the LMCache overlays for Kimi K3

This directory holds TLA+ models of the LMCache overlay code under `src/overlays/`: how
KV cache blocks travel between vLLM workers and the LMCache multiprocess server, which
locks protect them on the way, and what happens when requests time out, copies raise,
workers die, allocations fail and instances are reaped. TLC checks the models on small
instances; TLAPS proves every safety property of the passing runs, and every refinement, for all values
of the constants.

`P` stands for `src/overlays/lmcache/v1/multiprocess/`, `V` for
`src/overlays/lmcache/integration/vllm/`.

## 1. The system

| Part | State it keeps | Operations | Talks to |
|---|---|---|---|
| Scheduler connector, `V/lmcache_mp_connector.py` | one tracker per request: hit counts, stored and scheduled tokens, block ids, state | lookup callback, allocation callback, metadata of a step, request finished, load results | vLLM's scheduler (callbacks), the server (lookup, free locks), the workers (metadata) |
| Worker transfer contexts, `P/transfer_context/worker_transfer.py`, `shm.py`, `pickle.py`, `base.py` | registration, group geometry | submit store, submit retrieve, commit, close | server handlers (ZMQ requests with timeouts), the device |
| Asynchronous store context, `P/transfer_context/async_engine_driven.py` | pending stores, events in flight, executor, commit lock, staging pool | submit store, flush before a forward pass, close | the worker context, pool threads, the copy stream |
| Engine-driven server, `P/modules/engine_driven_transfer.py` | instances and strategies, pending shared-memory writes and reads | register, ping, unregister, reap; prepare / commit store, prepare / commit retrieve | transfer strategies, storage manager |
| Transfer strategies, `P/modules/server_transfer.py` | none of their own: they fill the module's pending maps | reserve, publish, read, unlock; pickle: copy in, copy out | storage manager |
| LMCache-driven server, `P/modules/lmcache_driven_transfer.py` | an entry per instance with its device stream, layout registrations, callbacks to run | register, unregister, store, retrieve, ping, reap, close | storage manager, CUDA streams and events |
| Storage manager (not in this repository) | L1 objects with write and read locks | reserve_write, finish_write, prefetch and read, unlock, delete, eviction | - |
| Plan and geometry, `P/transfer_plan.py`, parts of `base.py` and `worker_transfer.py` | the registered geometry, the list of staged block ids, pinned buffers | cut a transfer into batches, skip a prefix and the chunks in front of a window, launch the kernels | the device |
| Group edits, `V/kv_cache_group_edits.py` | none | validate and rewrite KV cache group specs | vLLM |
| Installer and probes, `src/scripts/` | files of an image | install, verify | file system |

### How the parts interact, and where that is hard

*Store, shared memory.* The worker sends PREPARE_STORE; the handler reserves objects
group by group, records them under (instance, key) and replies with slots; the worker
copies on the device, synchronises, and sends COMMIT_STORE; its handler pops the entry
and publishes the objects. Each request has a timeout, and the server goes on with a
request its worker has given up on. UNREGISTER on the main loop and the reaper on its
own thread take an instance's pending entries away at any point, also between a
handler's `_resolve_for_transfer`, which lets go of `_lock`, and the same handler's
recording of what it reserved.

*Retrieve, shared memory.* The scheduler's lookup has read-locked the objects; the handler
of PREPARE_RETRIEVE records them as pending reads and the worker copies out of them;
COMMIT_RETRIEVE gives the locks back. It is sent after a hit, a miss and a timeout alike.

*Pickle.* The chunks travel in the messages, so that a handler reserves, copies and publishes
(or reads, copies and unlocks) by itself. Handlers of one instance run one at a time on
its AFFINITY thread, those of different instances interleave at every call to the storage. The
launcher gives the server an empty shared-memory name, so this is the transport of
the deployed profile.

*LMCache-driven.* The server copies by itself, between its objects and the paged blocks of a
worker, on the device stream of the worker's registration. STORE and RETRIEVE only enqueue:
a store first the wait for the engine's event, then copies, the event the worker waits on,
and a callback that gives the locks back. The stream runs on its own, the callbacks on a
dispatcher thread. So three clocks run (handler, stream, dispatcher), and the main loop and
the reaper pop the entry of requests that are queued or running.

*Blocks.* Every transfer is cut into batches over the list of staged blocks, with two counts
of what not to write (vLLM's prefix in tokens, the chunks in front of a sliding window).
Blocks are counted in the scheduler's tokens and in this rank's slots (fewer under DCP), a
chunk may keep only its last blocks, and launches run while the next group is prepared.

*Asynchronous stores.* vLLM's forward thread only submits. A pool thread prepares, gathers
on the copy stream, records an event, synchronises and commits. vLLM may take the
blocks of a preempted request back, so the next step's `handle_preemptions` has to
flush: wait for every store that has not launched its gather, then for every gather in
flight. A close may come from another thread at any moment.

*Scheduler.* One thread, but many interleaved stories: the lookup answers in a later
step, the allocation after a lookup can fail and is tried again with a new lookup
callback, a load finishes or fails between two steps, requests are preempted, resumed
and aborted. Two prefix hits (vLLM's own and LMCache's) overlap, and four counters
have to agree on chunk and block boundaries.

### What makes each part correct

| Part | Correct means |
|---|---|
| Shared-memory server | a write reservation is in one place at a time; nobody reads, publishes or evicts a slot that is being copied; no read lock is given back twice, and none gets lost but in the ways section 6 names; every operation and every release ends |
| Pickle server | a write lock belongs to one running commit; what was not copied does not stay; what a lookup locked stays locked until it is copied; every operation ends |
| Asynchronous context | no block is overwritten under a gather; a close drains; every future resolves; flush and close return |
| Scheduler connector | only computed tokens are stored, in whole chunks; every lookup lock is given back once; a request is held back only for a load that is sent, unless a load of it has failed; the stored prefix has no gap |
| LMCache-driven server | what is published has been copied; read locks outlive the copies; every lock has one owner; when the worker takes an operation to be done no copy is to come; layouts follow entries; every operation ends |
| Plan, geometry | a store fills every object it reserved; a retrieve restores every block that is due and touches no other |
| Registry, group edits | an instance that speaks is not reaped; edits keep what the groups describe |
| Installer | an interrupted installation is found or undone |

The hazards, each at its line and with the properties aimed at it, are in `PROJECT.json`.

## 2. Modules

| Module | Models | Composes |
|---|---|---|
| `StorageManager` | locks and contents of L1 objects, as the callers in `src/` rely on them | - |
| `ObjectCache` | abstract: what a hit promises to the worker that retrieves, by the interface of `TransferStrategy` | - |
| `EngineDrivenServer` | engine-driven module and worker over shared memory | extends `StorageManager`, implements `ObjectCache` |
| `PickleTransfer` | the same with the chunks in the messages | extends `StorageManager` |
| `MPConnector` | the scheduler side of the connector | - |
| `TransferPlan` | `transfer_plan.py` as operators | - |
| `PagedTransfer` | registration of the geometry, a store and retrieves of the same blocks, on the three paths of the worker and that of the server | extends `TransferPlan` |
| `LMCacheDrivenServer` | the LMCache-driven module, its streams, its dispatcher, its worker | extends `StorageManager`, implements `ObjectCache` |
| `DeferredStore` | abstract: what vLLM relies on when stores run in the background | - |
| `AsyncStore` | the asynchronous context, the flush of the connector, vLLM's preemption | implements `DeferredStore` |
| `EngineDrivenServerProofs`, `PickleTransferProofs`, `MPConnectorProofs`, `AsyncStoreProofs`, `PagedTransferProofs`, `LMCacheDrivenServerProofs` | theorems and proofs | extend their component |
| `EngineDrivenSteadyProofs` | theorems about the shared-memory server while no registration ends | extends `EngineDrivenServerProofs` |
| `LMCacheDrivenLockProofs` | theorems that count the locks and layouts of the LMCache-driven server | extends `LMCacheDrivenServerProofs` |
| `MC...` | instances for TLC | extend their component |

### StorageManager

The code is external. An object is `absent`, `writing` (write-locked) or `readable`, with a
count of read locks and a ghost that says whether its content is complete. What the
callers' code and comments say is all that is assumed: `reserve_write(.., "new")` grants
absent objects and may grant fewer; `finish_write` makes objects readable;
`read_prefetched_results` gives the locks back itself on an exception and on a short result
(`lmcache_driven_transfer.py:1188-1190`); a release of a lock that is gone changes nothing;
`delete_l1_keys` may refuse a read-locked object or delete it under its reader; eviction
takes any object nobody has locked.

### ObjectCache

What the two transports promise together, with neither locks nor requests in it: an object is filled
while nobody can hit it (`Fill`), becomes a hit when it is full (`Publish`), is read from its
publication on (`BeginRead`, `EndRead`), and leaves when nobody reads it (`Evict`). The actions
are those of the abstract class `TransferStrategy` (`server_transfer.py:82-174`) and the eviction. Both
servers map `cached` to what is `readable` and `full` to the ghost `written`. The refinements differ in who
reads. Over shared memory it is a worker at `scatter`, which reads its slots; objects that
`prepare_store` published without a slot (the ghost `unfilled`) are left out. In the LMCache-driven server it is the device: a retrieve
that may still answer True reads what its copies in the streams read (`CopiesFrom`), and stops
to count as a reader when one of its groups is missing or raises.

### EngineDrivenServer

| Code | Model |
|---|---|
| `_engine_driven_contexts`, `_strategies`, `last_seen` | `contexts`, `strategies`, `silent` |
| `_pending_shm_writes`, `_pending_shm_reads` | `pendingWrites`, `pendingReads`, by instance and key |
| a worker's operation and its requests | `wpc`, `key`, `slots` |
| the handler of its request on the AFFINITY thread | `hpc`, `grp`, `acc`, `unused` (its local variables: where it is, what it holds, what of it got no slot) |
| `_release_entry` on the main loop and on the reaper | `relTodo`, `relWrites`, `relReads` |
| submit, gather, scatter, commit, timeouts | actions of `Worker(t)`; `Scatter` is a copy that completes or raises what the worker catches, `RetrieveRaises` any other exception, after which nothing is committed |
| prepare / commit store / retrieve | `Resolve`, then `ReserveGroup` ... `UnlockRetrieve`, one action per call to the storage or per critical section |
| the `finally` of a group of `prepare_store` | `FinishUnused`, which goes on with the next group; `AbandonPrepare` after `ReserveGroupRaises`, which ends the handler |
| a miss, a raise in `prepare_retrieve` | the second branch of `ReadGroup`, `ReadGroupRaises` |
| REGISTER, PING, UNREGISTER, `reap_stale_instances` | `Register`, `Touch`, `Unregister`, `ReapStale`; `GoSilent` is time passing |
| `_release_entry` | `SweepPending`, `FinishSweptWrite`, `FinishSweptRead` |

A key is an `IPCCacheServerKey` up to equality, which leaves `request_id` out. A handler that
raises sends no usable reply, so its worker goes on by `Timeout`; a worker that has timed
out drops the reply. Requests of one task reach the server in order. Partial grants are any
subset of what is absent, which covers every order of memory pressure. Ghosts: `writer` is the task an
object is reserved for, `unfilled` are the objects `prepare_store` finished without giving them a
slot, and `left` counts the read locks on an object that nobody knows of any more: those of the groups
behind an early miss, those of a PREPARE_RETRIEVE that raises, and those of a pending entry that is replaced.

### PickleTransfer

`ReserveGroup`, `CopyIn`, `PublishWritten`, `UnlockLeftover` and `DeleteLeftover` are
`_write_chunks`, one action per call to the storage, with `reserved`, `done` and `raised` for
its locals; `ReadGroup`, `CopyOut` or `CopyOutFails`, and `UnlockGroup` are `prepare_retrieve`.
`NextGroup` is the loop over the groups. Nothing is pending between two requests, so a
release (`Deregister`) has nothing to sweep.

### MPConnector

`tracker[r]` is `LMCacheMPRequestTracker` with block lists as counts per group. `Matched`,
`UpdateStateAfterAlloc`, `BuildConnectorMeta` and `RequestFinished` are the callbacks;
`RetrieveOp` and `StoreOp` the operations that `GetRetrieveMetadata` and `GetStoreMetadata`
hand to the workers. vLLM is external: it asks for a lookup until there is an answer,
calls it again when the allocation after it failed, allocates once for a load and once
more after it, schedules any number of tokens, preempts, and computes again after a failed
load. All requests with metadata share the action `BuildConnectorMeta`, as they share a
step. Ghosts: `saved` is the prefix LMCache was found or made to hold, `spoiled` the requests a
load of which failed, `locked` and `freed` the lookup locks.

### TransferPlan and PagedTransfer

`TransferPlan` has one operator for each function of the plan: the objects left out in front
of a window (`ObjectsToSkip`), the batches (`BatchLen`, `BatchOf`, `BatchDropped`), and where a
launch starts to read and to write (`BlocksToSkip`, `TokensToSkip`, `Launch`).

| Code | Model |
|---|---|
| `EngineGroupInfo`, the object groups, the sliding windows a worker registers | `layout`, one of `Layouts` |
| native kernel, native kernel over memory that is not pinned, tensor kernel, LMCache-driven server | `path` |
| `_GroupState`, `_object_group_geometry` (twice), `_physical_skip_tokens` | `EngineGeometry`, `ServerGeometry`, `SkipTokens`; `Register` is the check that everything divides |
| `chunk_indices` and the staged list of block ids | `chosen`, `Staged` |
| the loops over groups and batches | `grp`, `start`; `Reserve`, `Gather`, `EndGather`; `Scatter`, `EndScatter` |
| `multi_layer_block_kv_transfer` (external) | `Moves`, a set of copies object slot - block, behind the others in `stream` |
| the temporary pinned buffers | `pinned`, the group whose chunks they hold |
| contents | `kept` (objects) and `dest` (the blocks of a retrieve); a block's content is its group and position |

The stream runs at any point between two steps of the operation; where the code synchronises
(`MayGoOn`), the next step waits for it. The objects a store is granted are any subset, the
skipped prefix of a retrieve is any number of tokens up to the length of the operation.

### LMCacheDrivenServer

| Code | Model |
|---|---|
| `_cache_contexts` and the entries in it | `contexts`, entries by the order they are made in |
| registrations of the layout registry | `layouts`; `laidOut` between its call and the entry's insertion |
| `_release_entries` of the main loop and of the reaper | `releasing` |
| a handler's locals: group, entry, `all_dict` or `prefetched_keys`, `store_succeeded` | `grp`, `entry`, `acc`, `ok`; `hpc` is where it is |
| the stream of a cache context | `stream[e]`: items `wait`, `save`, `load`, `event`, `finishWrite`, `finishRead` |
| host functions handed to the dispatcher | `callbacks` |
| the engine's IPC event | `engineDone` |
| the worker's future | `wpc`; `Ended` is the query of the recorded event |

`NotRegistered`, `Malformed`, `Underflow`, `BeginStore` and `BeginRetrieve` are the ways a request
begins; `StoreGroup` and `LoadGroup` one turn of the loop over the object groups; `StoreRaises`,
`ReadMisses` and `LoadRaises` its ways out; `FinishStore` and `FinishRetrieve` the `finally`. A copy
that raises may come behind any of its group's copies. A lookup has read-locked all objects of a
retrieve before it is sent. Ghosts: `abandoned` are objects of failed stores, `left` counts read
locks that failed retrieves leave; the code forgets both.

### AsyncStore and DeferredStore

`phase[s]` is the place of a store in `submit_store` and `_prepare_gather_and_commit`; `pending`,
`launched` and `events` are `_pending_stores`, the `gather_launched` events that are set and
`_inflight_gather_events`; each critical section of `_inflight_lock` is one action.
`BeginFlush`, `FlushLaunched`, `FlushSynced` are `flush_inflight_stores`, `BeginClose` ...
`CloseBase` are `close`. `Preempt` and `FreeFinished` take blocks back as vLLM does, the first
with `need_flush_before_forward` set, `Forward` overwrites what was taken back.
`DeferredStore` is the contract in six actions: a store that is submitted reads its
blocks until it says so, its future resolves once, and blocks are overwritten only when
no store that may still succeed has them to read. `AsyncStore` implements it with
`reading` mapped to the stores that may still read (`Reading`).

## 3. What the runs check

| Run | Instance | Shows |
|---|---|---|
| `shm_steady` | two workers, two key ranges that share the object of their last group, the other object of one of them without a tensor; raises and timeouts at any point, no registration ends | types; what is readable is written or never had a slot; slots stay locked under gather and scatter; read locks are accounted for; the cache is implemented |
| `shm_release` | one worker with two store threads and a retrieve thread on one object; one release, reap or crash | a reservation is in one place; no commit publishes a half-written slot of its own; read locks are accounted for under a sweep too; operations end (fair) |
| `pickle_transfer` | two workers that each store and retrieve the same two objects in two groups, one of which has no tensor | types; a reservation has one owner; no orphaned write lock; unwritten objects are about to be deleted; a lookup's lock holds until its own copy is done |
| `pickle_live` | a store and a retrieve with copies that raise | every operation ends (fair) |
| `connector_steps` | one request of a hybrid model (blocks of 2 and 4 tokens, chunks of 8, 16 tokens), one failed allocation, one preemption, failing loads | types; only computed tokens are stored; whole chunks; block lists agree; locks given back once; loads are sent unless one has failed |
| `paged_transfer` | four layouts (a full and a windowed group in one object group; a window and a shard; shards with the object groups in another order; one that does not divide), four paths, up to four chunks of four tokens, batches of two | types; reserved objects are complete; shared blocks stay untouched; a retrieve restores |
| `lmcache_driven` | a store of one worker and a retrieve of another of the same two objects in two groups; three operations, two registrations, eviction, reaping | types; published is copied; loads hold locks; both kinds of locks accounted for; no copy behind the event; layouts accounted for; the cache is implemented; operations end (fair) |
| `async_store` | two stores on two threads, preemption and close at any point | no overwrite under a gather; a close drains; the contract; futures resolve; flush and close return (fair) |

The other runs end in a violation: they record where the code does something else than a
comment beside it says (section 6).

**Bounds.** Two actors that compete for one object, with a third of another kind, are what the
properties need: each speaks of one object, one store or one request, and a violation takes
two holders and one step between them. Two groups are needed for a loop that can stop
halfway (a miss in the first leaves the locks of the second), one group with one object is enough for the races of `shm_release`, since every
critical section handles an entry as a whole. `MaxReaders` bounds the read locks that lookups take on one object: with 2, in `shm_release`, a retrieve can meet a
lock that an earlier one left, replace its entry, and must not take its lock away; with 1, in
`shm_steady`, one reader at a time is locked against writers and eviction, and the two groups give the
misses that leave locks.
`MaxReleases` 1 lets a release race everything once; `shm_steady` has 0, since there the
properties are about running workers. Two chunks
make the connector's counters cross a chunk boundary with blocks of two sizes that divide a chunk
differently; 16 tokens let a prefix be hit, extended and generated onto. Requests do not share
state in the connector, so one is enough. Two stores on two threads make a pool with one task in each
place; the theorems lift that bound. Four chunks in batches of two give a retrieve a batch that is
dropped, one that is cut and one that is whole; the layouts have blocks of one, two and four
tokens, so that a prefix can end inside a block, a chunk and a window. Three operations of two tasks let
a task be sent again while callbacks of its last operation are to come, and two registrations
let an instance return while its old stream still runs. Every bound is a named constant and stands in a guard.

**Fairness.** The AFFINITY threads take requests from a queue, so `Resolve` is strongly fair
(other handlers disable it again and again); handlers and releases run without waits, so
weak fairness; a live worker completes its copies and gives up on late replies (every
request has a timeout). The executor's queue and `_commit_lock` pass no task over, so
`Start` and `AcquireCommitLock` are strongly fair; the device completes copies; the flushing
and the closing thread go on when what they wait for is there. In the LMCache-driven server the
AFFINITY threads are strongly fair as before, an engine event that was recorded comes, and a
device stream runs; the dispatcher and the releases are not needed for an operation to end,
and no fairness is given to them. Nothing has to be submitted,
registered, preempted, reaped, evicted or closed.

`CHECK_DEADLOCK FALSE` is set for the connector (all requests may have finished), the
asynchronous context (all stores done and closed), `paged_transfer` (a layout that does not
divide is refused) and `lmcache_driven` (the bounds on operations and registrations are
used up). The two engine-driven servers never stop.

**Mutants.** Each property of a passing run has a mutated definition beside the one it
replaces (`\* Mutant:`), a plausible bug that breaks it.

## 4. What is proved

For every value of the constants that the named assumptions allow (`ConstantsAssumption` and
`LayoutsAssumption`): functions of the right type; at least one group and one key; block sizes that
divide a chunk, as the connector's start-up check demands; layouts that are sequences of groups;
`NoTask` and `NoStore` outside the sets they stand beside. Where locks are counted the sets of tasks
and instances are finite, of any size. The pickle and the LMCache-driven module assume that the object
groups of a key have no object in common: an object key carries the id of its group
(`engine_driven_transfer.py:315`).

| Theorem | Statement |
|---|---|
| `EngineDrivenServerProofs!TypeCorrect` | `Spec => []TypeOK` |
| `EngineDrivenServerProofs!ReservationsAreExclusive` | `Spec => []ReservationsExclusive` |
| `EngineDrivenServerProofs!CommitsPublishOwnCopies` | `Spec => CommitPublishesOwnCopies` |
| `EngineDrivenServerProofs!ReadLocksAreAccounted` | `Spec => []ReadLocksAccounted` |
| `EngineDrivenSteadyProofs!ReadableSlotsAreWritten` | steady: `Spec /\ []KeysApart => []SlotsReadableAreWritten` |
| `EngineDrivenSteadyProofs!GathersHoldTheirSlots` | steady: `Spec /\ []KeysApart => []GatherHoldsSlots` |
| `EngineDrivenSteadyProofs!ScattersHoldTheirSlots` | steady: `Spec /\ []KeysApart => []ScatterHoldsSlots` |
| `EngineDrivenSteadyProofs!ImplementsCache` | steady: `Spec /\ []KeysApart => CacheSpec` |
| `PickleTransferProofs!TypeCorrect` | `Spec => []TypeOK` |
| `PickleTransferProofs!WriteLocksOwned` | `Spec => [](ReservationsExclusive /\ WriteLocksHaveOwner)` |
| `PickleTransferProofs!ReservationsAreExclusive` | `Spec => []ReservationsExclusive` |
| `PickleTransferProofs!ReadableIsWritten` | `Spec => []UnwrittenIsLeftover` |
| `PickleTransferProofs!LookupsHold` | `Spec => []LookupHolds` |
| `MPConnectorProofs!TypeCorrect` | `Spec => []TypeOK` |
| `MPConnectorProofs!WholeChunks` | `Spec => []ChunkAligned` |
| `MPConnectorProofs!ComputedBeforeStored` | `Spec => []StoresOnlyComputed` |
| `MPConnectorProofs!BlocksAgree` | `Spec => []BlocksTracked` |
| `MPConnectorProofs!LocksBalance` | `Spec => []LocksGivenBackOnce` |
| `MPConnectorProofs!NoLoadForgotten` | `Spec => []LoadsAreSent` |
| `AsyncStoreProofs!TypeCorrect` | `Spec => []TypeOK` |
| `AsyncStoreProofs!NoOverwriteUnderGather` | `Spec => []GatherBeforeOverwrite` |
| `AsyncStoreProofs!ClosesDrained` | `Spec => []CloseDrains` |
| `AsyncStoreProofs!ImplementsContract` | `Spec => ContractSpec` |
| `PagedTransferProofs!SkipCountsKeptBlocks` | the skipped blocks of a launch are the kept blocks in front of the prefix |
| `PagedTransferProofs!SharedUntouched` | `Spec => []SharedBlocksUntouched` |
| `PagedTransferProofs!TypeCorrect` | `Spec => []TypeOK` |
| `PagedTransferProofs!ReservedGathered` | `Spec => []ReservedAreGathered` |
| `PagedTransferProofs!RetrievesRestore` | `Spec => []RetrieveRestores` |
| `LMCacheDrivenServerProofs!PublishedAreCopied` | `Spec => []PublishedIsCopied` |
| `LMCacheDrivenServerProofs!EventsCoverCopies` | `Spec => []EventCoversCopies` |
| `LMCacheDrivenLockProofs!TypeCorrect` | `Spec => []TypeOK` |
| `LMCacheDrivenLockProofs!LayoutsAreAccounted` | `Spec => []LayoutsAccounted` |
| `LMCacheDrivenLockProofs!WriteLocksAreOwned` | `Spec => []WriteLocksOwned` |
| `LMCacheDrivenLockProofs!ReadLocksAreAccounted` | `Spec => []ReadLocksAccounted` |
| `LMCacheDrivenLockProofs!LoadsHoldTheirLocks` | `Spec => []LoadsHoldLocks` |
| `LMCacheDrivenLockProofs!ImplementsCache` | `Spec => CacheSpec` |

*ReservationsExclusive* says that the pending entries, the reservations in the hands of
handlers and those in the hands of releases are disjoint and write-locked. It is not
inductive: a handler that starts must not bring anything with it, and a worker that copies
must not have a request under way. `IInv` adds `IdleHandlersHoldNothing`,
`CopyingWorkerHasNoHandler` and `UnusedIsHeld`. The proof goes over the four ways in which a claim
moves: into a handler (reserve, pop), into the map (record), into a release (sweep), and
out (finish).

*CommitPublishesOwnCopies* needs no hypothesis. `OwnCopies` follows what a task reserved through
the places where it can be: in the hands of its handler it is the task's own; while its worker
copies, what the entry has of it is among the worker's slots; from the sending of the commit on it is
written. Another task may replace or take the entry meanwhile: it then takes objects out of the reach
of this task, and never puts any of this task's in, since reservations are exclusive.

*ReadLocksAccounted* of the shared-memory server needs no hypothesis either: the lock a lookup takes moves
from place to place, and each step of the code moves it by one. It is with the request (`Locking`), in an entry
(`LockEntries`), with a release (`LockSwept`), given back, or in `left`; the sum of the cardinalities
stays equal to the count. `LockInv` adds `ReadSoFar`: what a handler has read is exactly the groups in front
of the one it reads, so that what it records is what the lookup locked, and what a miss leaves is
exactly the groups behind. The theorem does not say that `left` is zero, because the
code does not keep it so (section 6).

*The steady theorems* are about `EngineDrivenServer` under hypotheses that are stated in each
theorem, because the code needs them: without them what they state is false, for the reasons in section 6.

- `MaxReleases = 0`: no registration ends (no UNREGISTER, no reaping, no worker lost). A release publishes
  what its worker is still writing, and drops read locks under a worker that reads.
- `KeysApart`: two operations of one kind, instance and key are not under way at once. The
  pending maps are keyed by instance and key, so that otherwise one commit takes the other's entry. vLLM
  hands out one store of a chunk of a request at a time, but nothing in this code refuses
  a second. `OneOfEachKind` proves it of any instance in which a worker has one thread
  of each kind, such as that of `shm_steady`.

`SteadyState` says that every operation under way finds its instance registered, and that a handler
and its worker are at places that belong together. `Writes` is the promise of a store: the
slots a worker copies into are the entry under its key and its own, and what is committed, popped and
published is written. `Reads` is that of a retrieve: the slots a worker copies out of are the entry under its key,
and what is read-locked can be read. That the objects of an entry are locked it takes from *ReadLocksAccounted*.

*CacheSpec* of the shared-memory server is the four properties seen from one place. They hold before and
after a step (`Guarded`), and that makes each step a step of `ObjectCache`, or none: what a worker
copies into is write-locked, so that it fills what nobody can hit; what a commit publishes is
written; a worker that begins to scatter has cached objects in its slots, and they stay read-locked, so that
no eviction takes them (`WorkerRefines`, `HandlerRefines`, `StorageRefines`).

*WriteLocksHaveOwner* needs `DoneIsReserved` (a commit counts as done only what it reserved)
and `ReservationsExclusive` of the pickle module: without the latter a `finish_write` could
take the lock from under another owner.

*UnwrittenIsLeftover* of the pickle module adds `DoneIsWritten` (a commit counts as done only
what it copied in full). An object becomes readable in two steps, and each has its reason:
the publication reaches done objects only, and the unlocking of the leftover has the deletion
next, by the same handler. Nobody else touches them in between, by the write locks above.

*LookupHolds* splits into `Counted` (there are as many read locks on an object as retrieves that
have still to read it) and `Served` (it can be read). Both leave out the objects of `unlockedTwice`, which a
failed copy gave back twice, and the second those of `spoiled`, which a clean-up met: these
are the two flaws in section 6. A retrieve gives up one group at a time, and the groups of
its key are disjoint, so that the lock it gives back is not one it still needs.

*SharedBlocksUntouched* takes the arithmetic of the plan for every geometry. A chunk has `chunk`
blocks and keeps its last `window`; `SkipCountsKeptBlocks` says that `BlocksToSkip` counts
exactly the kept blocks among the first so many blocks, where a prefix that ends inside
a chunk is the case with something to get wrong. With it, every position a launch starts to write
from is behind the prefix, for a batch (which counts from its own first token) as for one
launch of all; and slots and scheduler tokens agree since both are counted in
whole blocks. `IInv` carries this along the delay: whatever waits in the stream is in
`DueMoves`, batches begin behind the chunks in front of the window (`Loading`), and nothing of
an earlier operation is left in the stream (`AtRest`).

*ReservedAreGathered* and *RetrieveRestores* add what has to happen to what must not. `Gathered` says of
every position of every object of a group that it is complete, or in a launch that has not run, or in
a batch that has not been launched; `Scattered` says the same of every block that is due. So a
block that a wrong batch or count leaves out has no place to be. `Buffers` keeps the pinned copies of a
group until its launches have run: a launch that waits belongs to the group in the buffers.
The arithmetic is that the batches of `BatchLen` chunks cover every chunk from the first one due
(`ObjectsToSkip`), and a batch that is dropped has none that is due. `Everything` is the whole invariant.

*PublishedIsCopied* and *EventCoversCopies* share an invariant, with one part for each
clock. `Handlers` relates a request to its worker; `Locked` and `Apart` say that the objects a
store, an item of a stream or a callback has to finish are write-locked, and that no two
of them have the same one, so that an eviction or another store cannot take the copied content
away; `CopiesFirst` follows an object from the copy in the stream to the callback
behind it, also while the stream loses its first items; and `EventsBehind` says that what an
operation has in a stream has its event behind it, unless its handler is still to record it.
The proof goes over what a step does to the streams: it adds items of one operation at the end
of one stream (`EventsGrow`, `ReservingContent`, `PublishingContent`), takes the first
item off (`EventsRun`, `RunContent`), or leaves them alone.

The other properties of that server are sums. The owners of a lock are tasks, places in a
stream and places in the dispatcher's queue, so that a step that moves a callback from a stream to
the queue shifts one from one cardinality to another (`Awaits` counts both; `Pairs` and
`PairsMembers` say how the places of a stream change when an item is added, and when the first leaves).
*LayoutsAccounted* needs beside its sum that no two instances have one entry, so that what is popped
from the registry is as much as comes into `releasing` (`EntriesDistinct`). *WriteLocksOwned* needs `IInv`. *ReadLocksAccounted* needs that the
groups a retrieve has loaded come before those it has to load (`GroupsInOrder`), and that only callbacks of
reads carry locks (`CallbacksOnly`); together they are `Reads`. *LoadsHoldLocks* stands on it: `LoadsBacked`
says that a copy in a stream belongs to a retrieve that holds its objects still, or has
the callback that gives them back behind it in the same stream; what is held is counted, what is counted is
locked, and what is locked can be read (`LockedAreReadable`).

*CacheSpec* of that server has no hypothesis. It needs one thing the other properties do not say: that the
stream never writes into an object that can be hit, which is `SavesBacked`. A copy into an object has the
callback that finishes the object behind it in the same stream, or its handler still runs and holds
the object, or the store failed and left it write-locked for good. By *WriteLocksOwned* each of the three means
that the object is `writing` (`SavesAreLocked`), also when the entry of the stream was reaped long
ago. What a retrieve reads grows by a group that is loaded while its answer may still be True, and shrinks as
the stream runs or the retrieve fails (`AddedCopies`, `RunCopies`); *LoadsHoldLocks* keeps an
eviction off it.

All safety properties of *MPConnector* follow from one invariant, which says what the tracker
knows at each status of a request: `BeforeAllocation`, `WhileLoading`, `WhileRunning`,
`WhilePreempted`, and `LocksSettled` once the locks are given back. Its arithmetic core is
two facts. A hit is whole chunks and a chunk is whole blocks of every group
(`HitAlignmentDivides`), so that rounding vLLM's own hit down to `HitAlignment` cannot change
which of the two hits is larger: the connector loads exactly when vLLM waits for it. And the
tracker is ahead of vLLM by one token at most (`AtMostOneAhead`, after a hit of the
whole prompt), only when the step computes up to the end of the request: the
bound by the number of tokens then does what the bound by computed tokens would not.
A step of one request leaves the others alone (`Frame`, `Others`), so each action
is proved for its own request.

*GatherBeforeOverwrite* is about the end of a chain, and `IInv` of `AsyncStore` has one part
for each link: `InOneSet` (a store is pending until its event is in flight, and its
`gather_launched` is not set before), `OneSubmitter` (nothing new is taken in during a flush),
`FlushCovers` (a flush waits for every store under way when it began),
`ReclaimedIsFlushed` (between a preemption and its flush no forward pass runs),
`OutcomeOfPhase` (blocks of finished requests have no reader), and `CloseCovers` for the
close. A store whose wait for its gather raises (`SynchronizeFails`) is not committed any more, so that it does not
matter what its copies go on to read. The same invariant gives the refinement: each step of the context is `Submit`,
`Refuse`, `EndRead`, `Resolve`, `Abandon`, `Reclaim` or `Overwrite` of the contract, or
leaves `outcome`, `Reading`, `reclaimed` and `overwritten` as they are.

Each `IInv`, and `SavesBacked`, was checked as an invariant by TLC before it was proved.

### Only model-checked

What depends on fairness (`OperationsEnd` of the three servers,
`StoresResolve`, `FlushAndCloseReturn`): liveness is out of the proof system's reach. Every other
property of a passing run is a theorem above. The runs that end in a violation have none.

## 5. What is not modelled

In modelled parts: `close()` of the servers; the two reap windows and the latch of the first ping
(one set `silent` stands for both; in the LMCache-driven server a reap may take any
instance); which layout descriptor is registered, and that of the engine-driven server at all;
the lifetime of locks (the launcher gives write locks 600 and read locks 300 seconds, so that
what the models call left for good is left until then); objects on GDS, the event bus and
`report_status` of the LMCache-driven server; the fallback from shared memory to
pickle at registration; extra session data; configuration checks, statistics and
block-allocation reports of the connector; the staging buffers of the
asynchronous context, its synchronous path for hybrid models, and a flush whose event raises
when it is waited for; a COMMIT_STORE with a payload, which the shared-memory strategy hands to the
pickle strategy it falls back on (`server_transfer.py:491-499`; a worker that was given slots sends
none); a `cache_context.close()` that raises in `_release_entries` of the LMCache-driven server, which skips
the unregistration behind it and the entries that follow (`lmcache_driven_transfer.py:662`). `Register` of
`PagedTransfer` takes only layouts whose blocks divide a chunk for all paths: the worker of the engine-driven ones checks
it (`worker_transfer.py:540-558`), the server's registration does not, and the start-up check of the connector
(`lmcache_mp_connector.py:752-759`) demands it for both; nor does it take an engine-driven worker with a
single kernel group, whose older code passes the skip on as it is (`worker_transfer.py:725-737`). The copy stream's
order and the executor's FIFO order are left out, so that the model allows more than the
code does. A worker's thread has one operation at a time, and a lookup locks all objects
of a key.

Not at all: group edits and installer (planned); mode resolution and format detection of the
worker (one decision at start-up, from configuration);
layout utilities and CUDA code of `lmcache/v1/gpu_connector/`, `lmcache/v1/platform/` and vLLM's
MLA backend (data movement and numerics without a state machine); probes, launcher and
compose file (sequential I/O and configuration).

## 6. Where code and comments differ

Shown by a run:

| Run | What happens |
|---|---|
| `pickle_surface` | between `finish_write(leftover)` and `delete_l1_keys(leftover)` a lookup hits an object that was never written (`server_transfer.py:264`) |
| `pickle_double_unlock` | a copy that raises inside `read_prefetched_results` has its group unlocked twice, at the expense of another retrieve (`server_transfer.py:339`) |
| `connector_gap` | a lookup callback that is repeated after a failed allocation counts its hit twice, and the chunks behind it are never stored (`lmcache_mp_connector.py:1055`) |
| `async_socket` | `prepare_store` runs on several pool threads without the lock that keeps `commit_store` off the socket (`async_engine_driven.py:229`) |

Met while modelling, described by the models and without a run of their own: a retrieve over
shared memory that misses in an earlier group leaves the read locks of the later groups, and its
COMMIT_RETRIEVE finds nothing to release (`server_transfer.py:533`); a `prepare_retrieve` that raises
leaves the locks of all groups, and a pending read entry that is replaced leaves its own (the ghost `left`);
an exception that a worker does not catch, in building the slot tensors or in synchronising with the
copies (`shm.py:247`, `worker_transfer.py:743` and `:956`), ends a retrieve without COMMIT_RETRIEVE, and
the locks stay in the entry until it is replaced or swept (`RetrieveRaises`); objects that `prepare_store` gives no slot, because
they have no tensor or because their group raised, are finished unwritten and become readable
(`server_transfer.py:457-461`), also such as have a tensor and can be handed to a
reader, which is why `SlotsReadableAreWritten` and the cache leave out `unfilled`; what the earlier groups of a
`prepare_store` that raises had reserved with a slot stays write-locked and is in no map; a
reservation whose PREPARE_STORE is answered after its worker gave up (`shm.py:173`) stays in its map
until a release sweeps it or a store of an equal key replaces it; read locks are also left by a retrieve of
the LMCache-driven server that misses, is malformed, has too few block ids or finds no
entry (the ghost `left`); a store of that server that raises leaves its reserved objects
write-locked (the ghost `abandoned`); its RETRIEVE does not wait for the event of the worker, which the
docstring calls "The IPC handle of the event to wait on."
(`lmcache_driven_transfer.py:1072`); when a group of a retrieve raises, launches of that
group may still be in the stream while its read locks are given back, which is why `LoadsHoldLocks`
speaks of retrieves that will answer True; a second
store of an equal key replaces the pending reservation of the first
(`server_transfer.py:471`); `_release_entry` publishes slots that are not written in full
(`engine_driven_transfer.py:286`), which is why `SlotsReadableAreWritten` is checked without
releases; a handler that resolved before a release records after it, and its entry stays
until the instance is registered and released again (`engine_driven_transfer.py:266`);
a lookup without a hit leaves vLLM's own hit out of the computed tokens, so that less is stored
than could be (`lmcache_mp_connector.py:1050`); a request aborted before its allocation leaves
its lookup behind (`:1473`); after a failed load its tokens still count as computed
(`:375`), which is why `StoresOnlyComputed` and its neighbours speak of the requests
in `Sound`; and when that load failed at its first block, the tracker stays READY while vLLM asks
for the load again: `update_state_after_alloc` then does not set WAITING_FOR_LOAD
(`:1114-1121`), `_process_retrieve_requests` skips the request (`:1318`), and vLLM waits for a load
that nobody sends. `LoadsAreSent` speaks of `Sound` for that reason and does not exclude this.

## 7. Plan

Modules, in this order; the first eight are here.

1. `StorageManager`, `EngineDrivenServer`: the locks and who holds them.
2. `PickleTransfer`: the deployed transport.
3. `MPConnector`: the counters of the scheduler side.
4. `DeferredStore`, `AsyncStore`: the background stores.
5. `TransferPlan`, `PagedTransfer`: which blocks a transfer moves, on every path.
6. `LMCacheDrivenServer`: handlers, streams and dispatcher over the same `StorageManager`.
7. `ObjectCache`: what a hit promises, with the shared-memory and the LMCache-driven server shown to
   implement it.
8. Proofs for 1 to 7.
9. `InstanceRegistry`: the two reap windows, the latch of the first ping, repeated registration
   with other metadata, and the order of entry and layout descriptor, for both servers.
10. `Installer`: backup, copy and verification with a crash between any two files.
11. `GroupEdits`: validation and edits of group specs against a reference.

Theorems: the pickle transport does not implement `ObjectCache`, since the window of section 6
publishes objects that are not full. What it promises instead, a cache in which such an object is about to be
deleted, is *UnwrittenIsLeftover*; an abstract specification with that window in it, and the proof that
`PickleTransfer` implements it, are left.
