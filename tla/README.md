# TLA+ verification of LMCache as kept in this repository

The repository measures the GPU memory that CacheGen compression saves in vLLM.
`src/tkdgjs/experiment` holds its experiment scripts, logs and results; what they
measure is LMCache, whose source is kept in `notuse_backup/lmcache_backup`: a
cache of KV chunks in tiers (CPU, disk, remote stores, other engines) with its own
allocators, reference counts and pins, thread pools, GPU connectors, a controller
and a multi-process server.

Paths below are relative to `notuse_backup/lmcache_backup`, mostly to its `v1`.
`PROJECT.json` maps each definition to the lines it models, and lists components,
runs, mutants, hazards, findings and theorems.

## 1. Inventory

| Component | State | Operations | Interacts with | What makes it correct |
|---|---|---|---|---|
| `AddressManager`, `TensorMemoryAllocator`, `LazyMemoryAllocator` (`memory_management.py`) | sorted free list, sizes | allocate, free, both in batches, sbrk | the expansion thread | the heap is partitioned: no overlap, no leak, full coalescing |
| `MemoryObj`, `PagedTensorMemoryAllocator` | ref_count, pin_count, validity, free blocks | count up and down, pin, unpin, allocate, free | every backend and thread | freed once, never while used |
| `PinMonitor` | pinned objects, times | on_pin, on_unpin, forced unpin | objects of all clients | lost pins end, live ones stay |
| `LocalCPUBackend`, cache policies | hot_cache, policy lists and buckets, keys_in_request | put, contains, get, touch, remove, clear, evicting allocate | stores, lookups, loads, peers | counts exact, pinned chunks stay, policy and dictionary agree |
| `LocalDiskBackend`, `LocalDiskWorker` | dictionary, files, budget, put_tasks, pins, disk_lock | put, get, prefetch, remove, eviction | executor, event loop, CPU buffers | a hit has its whole file, the budget holds, nobody waits for ever |
| `AsyncPQExecutor` and its thread-pool form | priority queue, workers, unfinished count | submit_job, worker loop, shutdown | disk tier, connectors | jobs resolved, shutdown returns after them |
| Async lookup and prefetch (`lookup_client`, `event_manager.py`, `storage_manager.py`) | reqs_status, answers, aborted lookups, events, buffers | lookup, poll, timeout, abort, prefetch, retrieve, cleanup | sockets, scheduler, worker threads and loops | what is promised is loaded; answers come; buffers return |
| `StorageManager`, `LMCacheEngine` | backends, bypass, freeze, lookup pins | store, retrieve, lookup, move, their layer-wise forms | all tiers and connectors | chunks under their own keys, pins balanced |
| vLLM connector, lookup clients, `TokenDatabase` | load specs, request trackers, batch metadata | match tokens, update after alloc, build meta, load, save, finish | vLLM's scheduler and worker | computed KV is right, stored KV is right |
| Multi-process server and adapter (`multiprocess/*`) | queues, futures, reservations, locks, CUDA streams | store, retrieve, lookup, get_finished, clear, shutdown | vLLM processes | no copy from freed memory, every request ends |
| PD and P2P backends, transfer channels | pages, remote indexes, handshakes | alloc, write, notify, lookup, get, put, move | other engines, proxy, controller | the right bytes, pages and pins returned |
| `RemoteBackend`, connectors, LMCache server | put tasks, connector state, receive buffers | put, get, exists, batched and prefetch forms | external stores, another engine | an answer is a prefix of whole chunks |
| GDS and NIXL backends | staging pages, descriptor pool, metadata files | put, get, evict, rescan | event loop, DMA agent | what was put is got; pages and descriptors return |
| Cache controller, its workers and senders | registry, per-worker keys, sequence numbers, sync state | register, heartbeat, operations, full sync, cluster operations | every engine | the registry converges, freeze ends |
| `LMCacheManager`, `HealthMonitor`, periodic threads, offload, API and standalone servers | started services, health, bypasses, fallback | start, check, fall back, recover, stop | StorageManager, remote stores | bypass what fails, use it again when it answers, stop cleanly |
| GPU connectors, SGLang adapter, blending | CUDA streams, temporary buffers | to_gpu, from_gpu, batched and layer-wise forms | engine generators, paged KV cache | nothing is read before it is written |
| CacheGen codec and serde | output buffer, packed bytes | serialize, deserialize | RemoteBackend, CUDA coder | values within half a step, pages returned |
| VRAM experiment scripts | servers, monitor thread, result files | start, wait, sample, request, record, restart | vLLM processes, GPU, disk | a result is of its own server; written results stay |
| Configuration, metadata, observability, HTTP routing, plotting | values, metrics | parse, count, draw | all | no effect on the other state |

The hard behaviours: threads of vLLM, pools and event loops share dictionaries and
counts; several decisions are made under a lock and acted on after it; answers,
timeouts and retries meet by request id only; buffers are given back while a
CUDA stream or a peer may still use them; and busy loops wait for memory others
must return.  `PROJECT.json` "hazards" lists 40 places, each but one with the
property that would catch it.

## 2. Modules

One module per component.  Most have a constant `Modes` (`Confs`, `Plans`, `Runs`): a
set of configurations (policy, threads, connector, faults that may happen); `Init`
picks one and no action changes it.  A property that a configuration gives up names
it in its premise, so that what the code gives up is written down.

**`AddressManager`** – byte addresses.  `explicitList` is the free list as a set of
blocks, `region`/`valid` the live tensors, `coalescedBlocks`, `currBlock` and `batchTodo`
the progress of a `batched_free`, which holds no lock between its calls.  Actions:
`Allocate`, `BatchedAllocate`, `Free`, `BatchedFreeBegin/Scan/Scanned/Release`, `Sbrk`.

**`MemoryObj`** – `refCount`, `pinCount`, `valid`, and `freeBlocks`: how often an object's
memory is in the allocator.  Clients allocate (also in batches that fail half way),
get, pin, drop and unpin; the cache removes and evicts.  The monitor runs in the
steps between its lock regions: `CheckTimeouts`, `ForceBegin`, `ForceTest`, `ForceUnpin`;
`Tick` is its clock.

**`LocalCPUBackend`** – `hotCache` in policy order, `objOf`, counts, free buffers, LFU buckets,
`keysInRequest`.  Stores, loads (`busy_loop`), lookups and peers are threads with a program
counter; one step is one region of `cpu_lock`.  All four policies.

**`PQExecutor`** – jobs and sentinels in the queue, asyncio's unfinished count, workers,
cancellations and the phases of `shutdown`.

**`LocalDiskBackend`** – the dictionary in LRU order, file states (absent, partial, whole),
`cacheSize`, `putTasks`; puts, gets and prefetches stop wherever the code gives up
`disk_lock` or changes threads.  `lock` is kept across steps by a prefetch only, or
lost by an exception between `acquire` and `release`.

**`AsyncLookup`** – the client (`reqsStatus`, `resForEachWorker`, `abortedLookups`), FIFO sockets,
and on each worker the lookup coroutines, LOADING events and buffers.  The code knows
requests by id; the model also counts `attempt`s, to tell what belongs to which lookup.

**`VLLMConnector`** – requests as vLLM sees them (`st`, `comp`, blocks by `epoch`, whether each
token's KV is right), the scheduler side (`status`, `spec`, `trk`), the worker side
(`phase`, `meta`, `invalid`) and the engine's chunks with content and pins.  Actions follow
one engine step: lookup, update_state_after_alloc, build_connector_meta,
start_load_kv, forward, save, request_finished; preemption, abort, eviction, late
answers, an unhealthy or frozen engine come in between.

**`MultiProcess`** – message queues of client and server, futures, the thread pool, a CUDA
stream per worker, reservations and commits, the lock manager with its TTL, eviction
and clear; the adapters' store, retrieve and lookup futures and `get_finished`.

**`Transfer`** – PD (push: alloc loop, `data`, proxy notification, retrieve and release) and
P2P (pull: handshake, REP loop, retries, `move`) over pages with reference counts and
contents; restarts, slow peers, failing writes, forced removals.

**`RemoteConnectors`** – a put and a get of each connector (redis and its cluster and sentinel
forms, valkey, EIC, fs, S3, HyperPod, infinistore, lm, mooncake) are the requests they
make, one step each; two engines, evictions, failing requests, timeouts; the CPU pool's
buffers and their content.  A load without a free buffer does what
`LocalCPUBackend.allocate(busy_loop=True)` does: it sleeps on the event loop's thread
(`GetAlloc`, `Asleep`, `GetWake`), where no put, no other get and no `wait_for` timeout runs,
until somebody outside gives a buffer back; `held` are the buffers of an earlier load, which
the engine's thread may still have.  **`KVStore`** is the abstract specification: a store that may
forget, and answers a load with a prefix of whole chunks that were there at some time
since it began.

**`DirectStorage`** – the NIXL static and dynamic backends and GDS: staging pages, the coroutine
that carries a put out after the caller let go, descriptor pool or metadata files.  Which
page or descriptor is taken is left to a choice (`Places`), since all are alike.

**`CacheController`** – per worker: hot cache, operation queue, PUSH pipe, full-sync sender,
freeze; at the controller: registry node, cached worker list, sync state.  Lost and
late messages, restarts of either side, cluster `clear`.

**`Service`** – `LMCacheManager`: start, post_init, the monitor's thread step by step,
fallback and recovery, a store and a read beside it, the offload server, and
`stop_services` component by component with its join timeouts.

**`LayerStreams`** – a connector is a script of host instructions (enqueue a copy, wait for a
stream, synchronize, allocate, publish) built by one operator per function; `Host` and
`Stream` run scripts and streams in any order the events allow; `TakePage` is another
thread taking a page that was given back.  Index tensors made on the GPU (slot mappings,
positions) are memory like the blocks: a kernel that goes by one before the stream that
makes it has filled it puts its stream into `strayed` (`StreamStray`).

**`CacheGen`** – quantisation, token runs, the packing by lengths, unpacking by prefix sums
into the kept buffer, dequantisation, and the page references around a put and a get.
The arithmetic coder is an external kernel, taken as lossless.

**`Sweep`** – the scripts' steps per configuration, servers that die, are slow to stop or fill
a pipe, the sampling thread, directories, result files, interruption and restart.

**`Dictionary`** – a Python dictionary as the sequence of its keys: `Without`, `Place` and
`MovedToEnd`, used by the two local backends.

**Proofs.**  Theorems are in modules of their own, one per proved component:
`AddressManagerProofs`, `MemoryObjProofs`, `LocalCPUBackendProofs`, `StorageProofs`,
`RemoteConnectorsProofs`, `CacheControllerProofs`, and `LifecycleProofs` for the three parts of
that run; `DictionaryProofs` has the lemmas that several of them need.  `MemoryObjProofs`
(objects and asynchronous lookups), `StorageProofs` and `LifecycleProofs` extend the MC modules
that instantiate their components (as `AL!`, `LD!`, `DS!`, `SV!`, `SW!`), so that their
theorems name the properties the runs check.

**Composition.**  Components that share state are in one module (the CPU backend's threads
with the policies and counts; scheduler, worker and engine in `VLLMConnector`; adapter,
server and stream in `MultiProcess`).  The MC modules `MCBytes`, `MCLifecycle`, `MCObjects`,
`MCProcesses` and `MCStorage` run several modules side by side under a variable `part`: a
behaviour belongs to one part, and the others' state stays in an initial state.  So each
part is checked on its own, and the run covers their sum; it says nothing of
interference between the parts.

## 3. Runs

Numbers are distinct states.

| Run | Parts and instance | Checks |
|---|---|---|
| `bytes` (703k) | `AddressManager`: 3 objects, heap 7 growing to 11, alignment 2; `LayerStreams`: 3 layers, up to 4 chunks, every connector; `CacheGen`: two chunks of up to 3 tokens, all key tensors over {-3, 0, 2} | `TypeOK`, `Accounted`, `NoOverlap`, `FullyCoalesced`, `NoLeak`, `FitsWhenRoom`, `StreamsSafe`, `SerdeSafe` |
| `objects` (130k) | `MemoryObj`: 2 clients, tensor allocator with timeouts and paged without; `AsyncLookup`: 2 workers, 2 requests, 2 lookups, 0–2 tiers | `ObjectsSafe`, `LookupSafe`, `PinsTimeOut`, `LookupAnswered` |
| `cpu_backend` (515k) | 3 keys on 2 buffers; five combinations of policy, threads, removals | `PolicyInSync`, `RefsExact`, `PinsHold`, `LoadReturns` |
| `storage` (160k) | `RemoteConnectors`: 2 chunks, every connector with every fault it can meet; `LocalDiskBackend`: 3 keys on 1–3 slots; `DirectStorage`: 3 jobs on 2–4 pages | `ConnectorSafe`, `ImplementsKVStore`, `Answered`, `ChunksBacked`, `BudgetKept`, `PrefetchReturns`, `DirectSafe`, `DirectEnds` |
| `processes` (229k) | `MultiProcess`: 2 requests, 1–2 workers, room for 1–3 chunks; `Transfer`: 2–3 requests, 2–4 pages | `CopySafe`, `AdapterSafe`, `AdapterFrees`, `TransferSafe`, `Ends` |
| `controller` (339k) | one worker under each fault, two workers for the freeze threshold | `RegistryRight`, `ThawsEventually` |
| `vllm_connector` (69k) | 2 requests that share a prefix, chunks of 2, 14 configurations | `ServedRight`, `BooksKept`, `Served` |
| `lifecycle` (239k) | `PQExecutor`: 3 jobs, 2 workers; `Service`: 11 configurations, up to 2 remote stores; `Sweep`: all nine scripts, 2–3 configurations each | `WorkDrained`, `ServiceSafe`, `SweepKeepsResults`, `Settles`, `Recovers`, `SweepEnds` |

`ImplementsKVStore` is the refinement: under the mapping `stored <- Stored`,
`answer <- FirstChunks` each step of `RemoteConnectors` is a step of `KVStore`, up to the
first premature release of a buffer or lease or a hole that a connector closes up.

`StreamsSafe` claims what it says for every order of the streams but those in which a kernel
strayed, and that only a load of vLLM's layer-wise connectors can stray.  `Answered` claims
that every load ends unless it sleeps for ever in a pool that has no room for its chunks
beside the puts of its own loop and what an earlier load holds (`Starved`, `Short`), or waits
in `contains()`, which has no timeout, behind HyperPod lookups that have all the workers of
the executor (`Unserved`).

Every property of these runs has a mutant: a plausible bug in one mapped definition
under which TLC finds it violated.

Four runs show where the code disagrees with its own comments:

| Run | Violates | What happens |
|---|---|---|
| `service_clear` | `RecoveryClears` | recovery sets `use_hot` to False and then calls `clear()`, which returns at once when it is False (`health_monitor/base.py:438`) |
| `pq_async` | `ShutdownReturns` | a cancelled worker leaves its sentinel in the queue and join() waits for ever |
| `lookup_retry` | `LoadDelivers` | late answers of a timed-out lookup complete the next lookup of the same id |
| `disk_reput` | `FileBacked` | a stored key is stored again: its file is truncated while the key is in the dictionary |

### Bounds, and why they are enough
- Allocator: a heap that is no multiple of the alignment, with room for three blocks: a
  block has a neighbour on each side, remainders occur, a batch has a gap; the proofs
  remove the bounds.
- `PinTimeout = 1`, `MaxPins = 2`: a countdown restarted half way, a pin two clients share.
- CPU backend: fewer buffers than keys, so that each allocation evicts; `MaxFreq` and `MaxTouch`
  stop a lookup that would only raise frequencies.
- Executor: more jobs than workers, and a priority that overtakes.
- Lookup: two workers for a minimum, two tiers for a gap, two attempts for a stale
  answer, two requests for a cleanup sent by another one's poll.
- Disk: fewer slots than keys; `maxPins` caps pins the asynchronous path never returns.
- Connectors: two chunks for a hole and a prefix, two engines for two writers, one or
  two buffers so that memory runs out.
- Controller: `BatchSize = 1` with two keys makes a sync of two batches; `MaxPolls = 2` a second
  poll; `retry`, `syncs` and `faults` cap retries, syncs and faults.
- vLLM connector: chunk and block of two tokens, and blocks larger than chunks; prompts
  that end inside a chunk; `bumps` caps preemptions, `cap` the cached chunks.
- Server and transfers: one chunk of room too few, two stores of one request, one store
  of two requests, two half-sent requests in a full buffer.
- Streams: three layers, so that two alternating buffers are used again; two passes, so that
  one pass meets what the other left queued.
- CacheGen: one token more than a run holds, a shorter chunk after a longer one.
- Service: two remote stores, so that one recovers while the other is down; up to two
  `faults`.  Sweep: two or three configurations, so that one follows a failed one, and at
  most one restart; `MaxSamples = 2`.

### Fairness
Weak fairness only, and only of steps a running thread, coroutine or loop takes by
itself once begun: the clock and the monitor's thread (`MemoryObj`), threads that have
started (`LocalCPUBackend`, `LocalDiskBackend`), worker and shutdown coroutines (`PQExecutor`),
the workers' loops and the response thread (`AsyncLookup`), the event loop
(`RemoteConnectors`, `DirectStorage`; a pending timeout is one of its steps), server loop,
pool, streams, workers and scheduler (`MultiProcess`), senders, peers and channels
(`Transfer`), senders and the controller's handlers (`CacheController`), vLLM's engine
step (`VLLMConnector`), the health thread, stores, reads and stop (`Service`), the script
(`Sweep`).  Nothing forces a request to arrive, a fault, a repair or a client to give
anything back.  In the joint runs a condition may join parts by a disjunction, which is
the same as one condition for each, since only one part runs.  Except `cpu_backend`, the
runs switch the deadlock check off because the systems come to rest.

### Deviations the models contain
They are in the actions as the code has them.  Where a property of a passing run
would meet one, its premise names it; the others are recorded here for maintainers.

*Objects and CPU tier.*
- The monitor takes away a pin() made after its timeout test (`pin_monitor.py:179`), and with
  the paged allocator an unpin between its test and its own unpin frees the page twice
  (line 180).  With several objects a client that keeps re-pinning can hold the monitor in
  its loop.
- `clear()` removes a chunk that was pinned after it had been listed
  (`local_cpu_backend.py:733`); keys of a peer's request stay in `keys_in_request`, and
  touch_cache raises when they have been evicted (line 132).

*Asynchronous lookup.*
- `cleanup_memory_objs` calls ref_count_down() on (key, object) pairs, and nothing is released
  (`cache_engine.py:1241`); a worker that hit keeps its buffers when another answers 0 (line
  1513); a poll after an unscheduled timeout raises KeyError
  (`lmcache_async_lookup_client.py:175`); a tier that comes up short before one that does not
  makes the done callback raise (`storage_manager.py:631`).

*Disk.*
- A put without an eviction candidate leaves its key in put_tasks (`local_disk_backend.py:341`);
  removals do not lower the budget (239); `batched_async_contains`' pin is given back by
  nobody (474); an error between acquire and release loses the lock (422); a prefetch
  waits for a buffer on the loop its holders need (432), although
  `local_cpu_backend.py:446` expects that stores will clear.

*Remote connectors.*
- Redis drops the Nones of a batched get, so that chunks move to other positions
  (`redis_connector.py:229` against `base_connector.py:288`).
- A timed-out zero-copy put of mooncake frees a buffer that is still read
  (`mooncakestore_connector.py:530`); HyperPod's lease may end during a read (417–521), and
  its lookups submit jobs to the executor they run on (862–905).
- Buffers are not returned after a failure by redis (102–113), EIC (389–394) and infinistore
  (115–121); fs writers of one key share a temporary path (`fs_connector.py:129`); S3
  remembers a failed HEAD as a miss (353), and three failures disable it for ever (665–690);
  `batched_get_blocking` drops finished results on a timeout (`remote_backend.py:419`); the
  worker id is rewritten for MLA in contains and not in get (490 and 538).

- The connectors allocate with `busy_loop`, on the event loop: with no buffer free the loop
  sleeps (`local_cpu_backend.py:499`), and the put that would give one back, the timeouts of
  `wait_for` and every other request of the loop wait with it.  The comment there that it is
  "okay to busy loop because stores will clear" (446) holds for stores of other threads only.
- `contains()` waits for its future without a timeout (`remote_backend.py:151`).

*NIXL and GDS.*
- Static puts hold no reference (`nixl_storage_backend.py:813`), a repeated key raises after
  taking a descriptor (691), a failed transfer leaves its keys in progress_set; exceptions
  lose buffers (735–774, 1094, `gds_backend.py:595`).

*CacheGen.*
- The page of a fetched CacheGen stream is never freed (`remote_backend.py:351`, 464);
  batched_get_non_blocking never deserializes (516–541); the KIVI stub takes no reference.

*Transfers.*
- A chunk is called already sent before it is written (`pd_backend.py:486`), and a decoder busy-waits
  for pages half-sent requests hold (497–508).
- The handshake has no timeout and runs under update_peer_lock (`nixl_channel.py:127`,
  `p2p_backend.py:501`); a late write hits pages that have a new owner (608–621); a move that
  timed out leaves a REQ socket on which the next request fails (686, `SendFails`); allocation
  spins on the event loop (569); a KeyError after a forced removal leaves pins (411); move
  never releases its references (`cache_engine.py:1162`).

*Controller.*
- A store past the freeze check inserts after the snapshot, and operations that arrive during a
  sync are discarded (`kv_controller.py:155`): the registry then misses the key for good.
- complete_sync does not look for missing batches (`full_sync_tracker.py:270`), check_sync_timeout
  is never called (303), register() of a known worker keeps its open sync
  (`registration_controller.py:123`), and the executor's REQ sockets have no timeout.

*Multi-process server.*
- A request stored in several operations is returned before its last one
  (`vllm_multi_process_adapter.py:405`); an exhausted allocator leaves reserved keys and no answer
  (`mp_storage_manager.py:385`); clear() frees under queued copies; an aborted lookup's locks stay
  until their TTL; a worker that leaves between `server.py:297` and 350 leaves a reservation.

*vLLM connector.*
- The retrieve mask is True for tokens that were not written (`cache_engine.py:1588`, read at
  `vllm_v1_adapter.py:878`), so that KV of a failed load may be stored; after its rollback
  tokens are counted twice (785, 1105); a request preempted after a full hit meets an assertion
  (1537); layer-wise retrieval of a frozen or unhealthy engine raises StopIteration
  (`cache_engine.py:561`); a consumer never unpins (1073), nor does an aborted waiting request.

*GPU connectors.*
- The load stream never waits for the current stream, which fills the index tensor that the
  load kernels go by: `slot_mapping_full` (`gpu_connector.py:1176` against 1223) and
  `old_positions_full` (801 against 864).
- Only the first storer of a pass synchronizes, also when it has nothing to store
  (`vllm_v1_adapter.py:1003`); SGLang's layer-wise connector and pages on the GPU are published
  without waiting (`gpu_connector.py:1819`, 394); loaded pages are given back while their copy
  is queued (`cache_engine.py:960`, `sglang_adapter.py:281`).

*Services.*
- `RemoteBackend.close` waits without limit (`remote_backend.py:583`), so `_safe_close` outlasts its
  timeout (`manager.py:555`); a put that read `use_hot` before the fallback stores nowhere; an
  exception ends the offload server's thread (`zmq_server.py:52`).

*Experiment scripts.*
- Native runs clear and measure one directory while the server writes another
  (`run_vram_experiment.py:613`); wait_for_vllm asks the port only; `subprocess.run([...],
  shell=True)` removes nothing; a failed result is skipped for ever; save_progress is not atomic;
  a server's stdout pipe is never read.

## 4. Proofs

A theorem below holds for every value of the constants: any set of keys, buffers, jobs,
clients or connectors, any bound, any choice of configurations.  Each rests on an
inductive invariant, which TLC checked on a small instance before it was proved; a
`BY` names the facts it uses, and one lemma per action carries the invariant over.

| Theorem | Says | Premise |
|---|---|---|
| `AddressManagerProofs`: `Geometry`, `TypeCorrect`, `NeverOverlap`, `AlwaysCoalesced`, `NeverLeaks`, `RefusedOnlyWhenFull`, `AccountsExact` | `IInv` and all properties of the allocator | |
| `MemoryObjProofs`: `Custody` | `ObjectsSafe` | `PagesNotMonitored` |
| `MemoryObjProofs`: `LookupInvariant`, `LookupsSafe` | `LookupSafe` of the asynchronous lookup | `TimedOutOnce` |
| `LocalCPUBackendProofs`: `Invariant`, `PolicyKept`, `ReferencesExact`, `PinsKept` | `PolicyInSync`, `RefsExact`, `PinsHold` | `PeersUndisturbed` |
| `StorageProofs`: `Invariant`, `Budget`, `Chunks` | `BudgetKept`, `ChunksBacked` of the disk backend | `NotReput` |
| `StorageProofs`: `DirectInvariant`, `DirectStorageSafe` | `DirectSafe` of the NIXL and GDS backends | |
| `RemoteConnectorsProofs`: `Invariant`, `Implements`, `Safe` | the refinement `ImplementsKVStore`, and `ConnectorSafe` | `HeadersKept` |
| `CacheControllerProofs`: `RegistrySafe` | `RegistryRight` | |
| `LifecycleProofs`: `Draining`, `FallbackAndShutdown`, `SweepSafe` | `WorkDrained`, `ServiceSafe`, `SweepKeepsResults` | |

The premises are about the set of configurations, and each is one the runs satisfy:
- `PagesNotMonitored`: no timeouts on pages, because a page stays valid when it is free and
  the monitor's unpin and the client's would both release it (§3, objects).
- `TimedOutOnce`: a request is looked up once where its lookup may time out, because the code
  counts a late answer for the next lookup of the request; `lookup_retry` is the run that
  shows it, and what a worker then lacks.
- `PeersUndisturbed`: no forced removal while a peer's batched request runs, which otherwise
  loses the references it has taken.
- `NotReput`: with one writer and no forced removal a key that is stored is not stored
  again; `disk_reput` is the run that shows what happens otherwise.
- `HeadersKept`: fs writes its header (`save_chunk_meta`, on by default); without it a file
  that is being written passes for a chunk.

### The arguments
*Allocator.*  `IInv == TypeOK /\ InHeap /\ NoOverlap /\ FullyCoalesced /\ NoLeak`.  None of the
parts is inductive alone: that the two neighbours found by `MergePrev` and `MergeSucc` are all
there is to merge needs a list without overlaps; that a merged block touches nothing else
needs full coalescing; and that no overlap arises when the heap grows needs every block
inside the old heap.  `MergeSetsExact`, `CoalescedShape`, `InsertBlock` and `CarveBlock` say what
inserting and carving do to the set of covered bytes; `Units` is the arithmetic of a batch
cut into equal parts.  `FitsWhenRoom` follows, since an unused run lies inside one free
block.  `AccountsExact` adds the sum of sizes and the alignment: `SumExists` and `SumUnique`
show that the recursive function behind the sum exists and is the only one (by the least
counterexample, since the library's induction cannot be instantiated), so that `BytesAdd` and
`BytesRemove` hold; and an expansion keeps the alignment because the tail it may merge with is
free (`TailFree`).

*Objects.*  `IInv` joins the run's properties with three facts: objects in the hands of an
unfinished batch belong to it alone (`BatchPrivate`), what is free is neither pinned nor
valid (`FreeIdle`), and without timeouts the monitor stays idle.

*Asynchronous lookup.*  The code knows an answer and an event by the request's id only, so
`LookupInv` says which lookup they are of.  A worker's answer to the current lookup of a
request is in its socket or counted, never both and never twice (`SentRight`, `Counted`); the
answers collected are as many as the workers counted, with each one's prefix among them
(`AnswersRight`), so that the answer completed by the last is at most every worker's prefix
(`StatusRight`).  A request is looked up again only when all workers have been counted
(`FreshLookup`): that is what makes the event of its id the one of its last lookup
(`EventRight`), what a retrieve pops the buffers that were promised, and the lookup of a cleanup
one that is over (`CallRight`).  The earlier lookups of a request are over and the later ones do
not exist (`LookupsRight`).  Where everything hits and is used (`UsedRight`) a buffer belongs to
the last lookup of a request that waits or has yet to load.  The steps of a worker on a lookup,
from its receipt to its answer, change that lookup, its buffers and its event, and are proved
as one kind of step (`LookupStep`, `StepKeeps`).

*CPU backend.*  The counts are of occurrences in the lists of all threads, so the invariant
says what each thread holds at each point of its request (`RequestsShape`), and that what is
counted is finite.  `PinnedStays` needs that each key a `touch_cache` still has to find is
pinned by a lookup that has not come to it (`KeysPinned`); like the property, that is
claimed only where nothing is removed by force (`AdminOps = {}`).

*Disk.*  The budget covers the dictionary and what is on its way (`SizeCovers`), which needs
that the puts of one writer are of different keys, none in the dictionary before its file
is written (`PutsApart`); a file is its key's or is being written (`FilesCounted`).  Pins are
counted by who holds them: gets, the lookup of a prefetch, and the places of a prefetch
being loaded, which move from one side of `done` to the other when loading starts (`Holds`).
An exact budget is claimed for one writer, and returned pins besides without prefetches, as
in the properties.

*NIXL and GDS.*  `Claim(j)` counts the references a job has on each of its pages: one of the caller of
a put, one of the backend until the chunk is written (where it takes one), one of the engine
that uses what a get returned.  `PagesOK` says that jobs with references have different
pages, each with at least so many references, and, as long as nothing raised, exactly so many
and no other page any; a raise only ever leaves more.  `ContentsOK` has what is still to
be written in its page: for the dynamic backend and GDS because a queued put holds
references, for the static pool, which holds none, only while no page of a queued put was
given out again (`reused`).  `PoolOK` shares the descriptors between the pool and the keys and
`KeysOK` counts the pins by the gets that went for a key, so that a pinned one is never a
victim and a read finds all it looked up; both are claimed until a put raises.  The keys of a
batch are different (`Batches`), as those of growing prefixes are.  A step changes one job
(`Alone`), and the lemmas `PagesTaken`, `PagesDropped` and `PagesLost` are the three things that
happen to references.

*Connectors.*  The invariant is not proved connector by connector: `GetFollows` and `PutFollows`
state the shape that the eleven programs share (a buffer comes with `alloc`, the content
after it, then what is given back), and every step is proved from that shape.  `GetRight`
says what a get has at each step, `Apart` that no buffer has two holders, `LiveRight` that
`live` has all that was in the store since the load began.  Given these, `StepImplements` maps
each step to a step of `KVStore` or a stutter; the answer is its first chunks because the
good chunks of a load are a prefix (`Prefix`, `UpToMissing`, `OrderedFirst`).

`Safe` needs more, as a buffer is only lost after particular faults: a get that raised met
one its connector does not catch (`Causes`); only a timeout leaves gets behind (`NobodyLeft`);
and without evictions and failures redis, its cluster and sentinel forms and EIC never
find metadata without content (`Backed`), since the content is written first, or for EIC
looked up first.  `GetOutcome` states for every step of a get that it moved on with
its buffer, or stopped and gave it back or met such a fault.

*Controller.*  The invariant (`WorkerInv`) is about one worker at a time, since a step changes
the values of one only (`Others`, `Frame`); a controller restart changes all, each alike.  Its
parts: the last operation on its way of a key is what the hot cache has become (`Replays`); an
open sync collects a subset of its copy, and each key of the copy is received, counted as
lost, on its way or yet to be sent, where before an end message nothing is yet to be sent
(`Covers`, `Counts`); while a sync may still be completed, its copy is what the hot cache has,
but for keys that are pending or `dirty` (`Agrees`); and sequence numbers go on from the registry
through the pipe to the worker (`Runs`, `Follows`, `Numbered`).  The step that matters is `EndStep`:
an end completes the sync whatever has come, but it left the sender after every batch, on
one FIFO and under a sync id never drawn before (`Drawn`), so that the node has the copy and
the copy is the hot cache.  Every other step is one of few kinds of change at the two ends
of the pipe, and the lemmas `SyncOther` to `SyncTail`, `ReplaysAdd` to `ReplaysClear` and `SeqSend` to
`SeqPrefix` are about those.  `NobodyAssumption` only says that the caller of a lookup who is none of
the workers, 0, is none.

*Executor.*  `join` returns only when nothing is outstanding: each cancelled worker leaves one
sentinel too many (`SentinelsCover`), which keeps the count above zero while a job is
abandoned.

*Health monitor.*  A round's verdict is that of the backends already checked (`RoundJudges`),
the bypass that of their last check (`BypassExact`), `use_hot` follows the bypass except between
the halves of a fallback (`HotFollows`), and stop has waited for what it has passed (`StopWaits`).

*Sweeps.*  `SweepInv` says whose server is whose: those of this start are of configurations
already begun, each of one process (`ServersBegun`), and while none has outlived its SIGTERM
or the script all are of the current one (`ServersOwn`), so whoever answers on the port is
the right one (`RunRight`).  The directory of a cachegen run is empty until its server wrote
to it (`DiskRight`).  The monitor's baseline is never above what the servers hold at rest
(`MonRight`), which bounds every later sample from below; that compares two sums over the
servers, hence the lemmas on sums of `DictionaryProofs`.  A file that was emptied is of a
configuration that was not kept (`FilesKept`).  The proof found that a request must go to
the one server that was measured: with two servers of the same configuration, one per start
of the script, both of them had been given it.

### What is only model-checked
- Liveness (`LoadReturns`, `PrefetchReturns`, `Answered`, `PinsTimeOut`, `Ends`, `Settles` and the others):
  fairness and ENABLED are beyond the prover.
- What a recursive definition computes for every input: the packing of `CacheGen` (`SerdeSafe`)
  and the scripts of `LayerStreams` (`StreamsSafe`), folds over data.
- Not proved yet: `CopySafe`, `AdapterSafe`, `TransferSafe`, `ServedRight`, `BooksKept`.

## 5. Not modelled

- What a part leaves out inside: the O_DIRECT path of the fs connector, which allocates in a
  thread of its own (`fs_connector.py:200`); in `DirectStorage`, a lookup or the choice of a
  victim between the publication of a static put and the end of its transfer, which is one
  step as the loop starts nothing else meanwhile (`nixl_storage_backend.py:711`), and GDS
  puts of several keys, which are as many coroutines and so as many puts; in `Transfer`, the
  pages a peer takes for the chunks of a move, and its sleep while there is none
  (`p2p_backend.py:464`); in `VLLMConnector`, two requests of a step that both find a shared
  chunk missing and both store it, layer by layer (`cache_engine.py:589`, 671).
- CUDA kernels, the arithmetic coder, RDMA and file I/O: external, taken as they are used.
- Layer-wise eviction of the CPU backend (its FIXME states the defect), compress and decompress
  of the engine, allocate_and_copy_objects between allocator backends, the segment token
  database, blending's numeric code.
- `WeightedSemaphore` and `AsyncMultiSerializer` (nothing creates one), the audit, blackhole, external and mock
  adapters, the bypass and hit-limit lookup clients, the socket server outside v1.
- Configuration parsing, metadata, metrics, logging, HTTP routing, plots: no effect on the state.

## 6. Plan

Worth proving next, in this order: `TransferSafe` over page contents; `CopySafe` of the
multi-process server; `BooksKept` of the vLLM connector.  Then a second refinement: the disk
backend as an implementation of `KVStore`.
