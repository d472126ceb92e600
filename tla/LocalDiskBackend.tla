-------------------------- MODULE LocalDiskBackend --------------------------
(***************************************************************************)
(* The disk tier (local_disk_backend.py): its dictionary, its files, its   *)
(* size budget and the list of put tasks, used by                          *)
(*   - puts: submit_put_task on the storing thread, then a job of the      *)
(*     thread pool that writes the file and inserts the key;               *)
(*   - gets: a lookup pins a key, get_blocking reads it, and it is         *)
(*     unpinned (the synchronous path);                                    *)
(*   - prefetches: batched_async_contains and batched_get_non_blocking on  *)
(*     the event loop, then a job of the thread pool that reads the files  *)
(*     (the asynchronous path).                                            *)
(* A chunk has size 1.  The CPU hot cache is off (local_cpu = False), so a *)
(* CPU buffer is free as soon as its user is done with it.  The policy is  *)
(* LRU; touch_cache is the one of LocalCPUBackend.  PQExecutor models the  *)
(* thread pool, of which only the number of workers matters here.          *)
(***************************************************************************)
EXTENDS Integers, Sequences, FiniteSets, SequencesExt, FiniteSetsExt, Dictionary

CONSTANTS
    Keys,
    Puts, Gets, Prefetches,   \* operations that may be under way at a time
    Modes                     \* sizes and uses, as described at ModeType

\* keys, puts, gets, prefetches: those in use; requests: key sequences a
\* prefetch may ask for; maxCacheSize: max_cache_size in chunks; buffers: CPU
\* chunk buffers; workers: max_workers of the thread pool; maxPins: bound on
\* the pins a prefetch adds to; reput: a key on disk may be stored again;
\* many: two threads may be in submit_put_task; remove: remove(force=True) is
\* called.
ModeType == [keys: SUBSET Keys, puts: SUBSET Puts, gets: SUBSET Gets,
             prefetches: SUBSET Prefetches, requests: SUBSET Seq(Keys),
             maxCacheSize: Nat \ {0}, buffers: Nat \ {0}, workers: Nat \ {0},
             maxPins: Nat \ {0}, reput: BOOLEAN, many: BOOLEAN, remove: BOOLEAN]

VARIABLES
    mode,        \* sizes and uses, never changed
    dict,        \* the keys of self.dict, least recently used first
    pinCount,    \* pin_count of each key's DiskCacheMetadata
    file,        \* the file of each key: "absent", "partial" or "whole"
    cacheSize,   \* current_cache_size
    putTasks,    \* how often each key is in put_tasks
    put,         \* per put: pc, key, and whether its open file is linked
    get,         \* per get: pc and key
    prefetch,    \* per prefetch: pc, keys and number of keys done
    lock,        \* disk_lock: "free", the prefetch that holds it, or "lost"
    leaked,      \* CPU buffers that nobody will release
    badRead      \* a get or prefetch returned bytes of no whole file, or raised

cacheVars == <<dict, pinCount, file, cacheSize, putTasks>>
opVars == <<put, get, prefetch>>
vars == <<mode, cacheVars, opVars, lock, leaked, badRead>>

NoKey == "none"
IdlePut == [pc |-> "idle", key |-> NoKey, linked |-> FALSE]
IdleGet == [pc |-> "idle", key |-> NoKey]
IdlePrefetch == [pc |-> "idle", keys |-> <<>>, done |-> 0]

Init ==
    /\ mode \in Modes
    /\ dict = <<>>
    /\ pinCount = [k \in Keys |-> 0]
    /\ file = [k \in Keys |-> "absent"]
    /\ cacheSize = 0
    /\ putTasks = [k \in Keys |-> 0]
    /\ put = [p \in Puts |-> IdlePut]
    /\ get = [g \in Gets |-> IdleGet]
    /\ prefetch = [f \in Prefetches |-> IdlePrefetch]
    /\ lock = "free"
    /\ leaked = 0
    /\ badRead = FALSE

-----------------------------------------------------------------------------
InDict(k) == k \in Range(dict)
UpdateOnHit(k) == Append(Without(dict, k), k)

\* Buffers in use: a put's until its file is written, a get's and a prefetch's
\* until the chunks have been used, and those that were leaked.
PutPhase(S) == {p \in Puts : put[p].pc \in S}
PrefetchBuffers(f) ==
    IF prefetch[f].pc \in {"alloc", "next"} THEN prefetch[f].done ELSE Len(prefetch[f].keys)
\* Mutant: a get's buffer is released after the unpin.
InUseUntilUnpin ==
    Cardinality(PutPhase({"insert", "reserve", "queued", "write"}))
    + Cardinality({g \in Gets : get[g].pc \in {"read", "meta", "use", "unpin"}})
    + MapThenSumSet(PrefetchBuffers, {f \in Prefetches : prefetch[f].pc # "get"})
    + leaked
InUse == Cardinality(PutPhase({"insert", "reserve", "queued", "write"}))
         + Cardinality({g \in Gets : get[g].pc \in {"read", "meta", "use"}})
         + MapThenSumSet(PrefetchBuffers, {f \in Prefetches : prefetch[f].pc # "get"})
         + leaked

\* Jobs the thread pool is running, and a coroutine that does not yield.
Running == Cardinality(PutPhase({"write", "insert_key", "finish"}))
           + Cardinality({f \in Prefetches : prefetch[f].pc \in {"read", "meta", "unpin"}})
LoopBlocked == \E f \in Prefetches : prefetch[f].pc \in {"alloc", "next"}

\* remove: the key leaves the dictionary and os.remove unlinks its file.
RemoveKey(k) ==
    /\ dict' = Without(dict, k)
    /\ pinCount' = [pinCount EXCEPT ![k] = 0]
    /\ file' = [file EXCEPT ![k] = "absent"]

Unlinked(ps, k) == [p \in Puts |-> IF ps[p].key = k THEN [ps[p] EXCEPT !.linked = FALSE] ELSE ps[p]]

-----------------------------------------------------------------------------
(* submit_put_task *)

\* exists_in_put_tasks: a key in put_tasks is skipped, which changes nothing.
CheckPutTasks(p, k) ==
    /\ put[p].pc = "idle" /\ InUse < mode.buffers
    /\ mode.reput \/ ~InDict(k)
    /\ mode.many \/ PutPhase({"insert", "reserve"}) = {}
    /\ putTasks[k] = 0
    /\ put' = [put EXCEPT ![p] = [pc |-> "insert", key |-> k, linked |-> FALSE]]
    /\ UNCHANGED <<mode, cacheVars, get, prefetch, lock, leaked, badRead>>

InsertPutTask(p) ==
    /\ put[p].pc = "insert"
    /\ putTasks' = [putTasks EXCEPT ![put[p].key] = @ + 1]
    /\ put' = [put EXCEPT ![p].pc = "reserve"]
    /\ UNCHANGED <<mode, dict, pinCount, file, cacheSize, get, prefetch, lock, leaked, badRead>>

\* Mutant: pins are ignored.
CanEvictPinned(k) == TRUE
CanEvict(k) == pinCount[k] <= 0
Candidates == {i \in 1..Len(dict) : CanEvict(dict[i])}
Full == cacheSize + 1 > mode.maxCacheSize

\* Mutant: the reservation is not counted.
ReserveUncounted(p) ==
    /\ put[p].pc = "reserve" /\ lock = "free" /\ ~Full
    /\ put' = [put EXCEPT ![p].pc = "queued"]
    /\ UNCHANGED <<mode, cacheVars, get, prefetch, lock, leaked, badRead>>

Reserve(p) ==
    /\ put[p].pc = "reserve" /\ lock = "free" /\ ~Full
    /\ cacheSize' = cacheSize + 1
    /\ put' = [put EXCEPT ![p].pc = "queued"]
    /\ UNCHANGED <<mode, dict, pinCount, file, putTasks, get, prefetch, lock, leaked, badRead>>

\* One eviction makes room.  If the file is not there os.remove raises: the
\* key stays in put_tasks and the buffers of the store are not released.
EvictAndReserve(p) ==
    LET k == dict[Min(Candidates)] IN
    /\ put[p].pc = "reserve" /\ lock = "free" /\ Full /\ Candidates # {}
    /\ RemoveKey(k)
    /\ IF file[k] = "absent"
       THEN /\ cacheSize' = cacheSize - 1
            /\ put' = [put EXCEPT ![p] = IdlePut]
            /\ leaked' = leaked + 1
       ELSE /\ put' = [Unlinked(put, k) EXCEPT ![p].pc = "queued"]
            /\ UNCHANGED <<cacheSize, leaked>>
    /\ UNCHANGED <<mode, putTasks, get, prefetch, lock, badRead>>

\* "No eviction candidates found": the key stays in put_tasks.
NoCandidates(p) ==
    /\ put[p].pc = "reserve" /\ lock = "free" /\ Full /\ Candidates = {}
    /\ put' = [put EXCEPT ![p] = IdlePut]
    /\ UNCHANGED <<mode, cacheVars, get, prefetch, lock, leaked, badRead>>

-----------------------------------------------------------------------------
(* async_save_bytes_to_disk, on a thread of the pool *)

\* Mutant: the key is inserted before the file is written.
OpenFileInserts(p) ==
    /\ put[p].pc = "queued" /\ ~LoopBlocked /\ Running < mode.workers
    /\ \A f \in Prefetches : prefetch[f].pc # "queued"
    /\ file' = [file EXCEPT ![put[p].key] = "partial"]
    /\ dict' = UpdateOnHit(put[p].key)
    /\ put' = [put EXCEPT ![p].pc = "write", ![p].linked = TRUE]
    /\ UNCHANGED <<mode, pinCount, cacheSize, putTasks, get, prefetch, lock, leaked, badRead>>

\* A worker coroutine takes the job; open(path, "wb") truncates.
OpenFile(p) ==
    /\ put[p].pc = "queued" /\ ~LoopBlocked /\ Running < mode.workers
    /\ \A f \in Prefetches : prefetch[f].pc # "queued"       \* priority 0
    /\ file' = [file EXCEPT ![put[p].key] = "partial"]
    /\ put' = [put EXCEPT ![p].pc = "write", ![p].linked = TRUE]
    /\ UNCHANGED <<mode, dict, pinCount, cacheSize, putTasks, get, prefetch, lock, leaked, badRead>>

\* The file is written and the buffer's reference dropped.  Another writer of
\* the same file leaves it partial; an unlinked file is lost.
WriteFile(p) ==
    LET k == put[p].key IN
    /\ put[p].pc = "write"
    /\ file' = IF put[p].linked /\ \A q \in PutPhase({"write"}) \ {p} : put[q].key # k
               THEN [file EXCEPT ![k] = "whole"] ELSE file
    /\ put' = [put EXCEPT ![p].pc = "insert_key"]
    /\ UNCHANGED <<mode, dict, pinCount, cacheSize, putTasks, get, prefetch, lock, leaked, badRead>>

InsertKey(p) ==
    LET k == put[p].key IN
    /\ put[p].pc = "insert_key" /\ lock = "free"
    /\ dict' = UpdateOnHit(k)
    /\ pinCount' = IF InDict(k) THEN pinCount ELSE [pinCount EXCEPT ![k] = 0]
    /\ put' = [put EXCEPT ![p].pc = "finish"]
    /\ UNCHANGED <<mode, file, cacheSize, putTasks, get, prefetch, lock, leaked, badRead>>

RemovePutTask(p) ==
    /\ put[p].pc = "finish"
    /\ putTasks' = [putTasks EXCEPT ![put[p].key] = Max({0, @ - 1})]
    /\ put' = [put EXCEPT ![p] = IdlePut]
    /\ UNCHANGED <<mode, dict, pinCount, file, cacheSize, get, prefetch, lock, leaked, badRead>>

-----------------------------------------------------------------------------
(* Reading a file, and the synchronous get *)

\* read_file: a missing file makes it drop the key, without disk_lock.
ReadFile(k) ==
    /\ badRead' = (badRead \/ file[k] # "whole")
    /\ dict' = IF file[k] = "absent" THEN Without(dict, k) ELSE dict
    /\ pinCount' = IF file[k] = "absent" THEN [pinCount EXCEPT ![k] = 0] ELSE pinCount
    /\ UNCHANGED <<file, cacheSize, putTasks>>

\* contains(key, pin=True).
ContainsPin(g, k) ==
    /\ get[g].pc = "idle" /\ lock = "free" /\ InDict(k)
    /\ pinCount' = [pinCount EXCEPT ![k] = @ + 1]
    /\ get' = [get EXCEPT ![g] = [pc |-> "get", key |-> k]]
    /\ UNCHANGED <<mode, dict, file, cacheSize, putTasks, put, prefetch, lock, leaked, badRead>>

\* get_blocking under disk_lock; a missing key gives None.
GetBlocking(g) ==
    LET k == get[g].key IN
    /\ get[g].pc = "get" /\ lock = "free"
    /\ dict' = IF InDict(k) THEN UpdateOnHit(k) ELSE dict
    /\ get' = [get EXCEPT ![g].pc = IF InDict(k) THEN "alloc" ELSE "unpin"]
    /\ UNCHANGED <<mode, pinCount, file, cacheSize, putTasks, put, prefetch, lock, leaked, badRead>>

\* load_bytes_from_disk: allocate (busy loop) ...
GetAlloc(g) ==
    /\ get[g].pc = "alloc" /\ InUse < mode.buffers
    /\ get' = [get EXCEPT ![g].pc = "read"]
    /\ UNCHANGED <<mode, cacheVars, put, prefetch, lock, leaked, badRead>>

\* ... read the file ...
GetRead(g) ==
    /\ get[g].pc = "read"
    /\ ReadFile(get[g].key)
    /\ get' = [get EXCEPT ![g].pc = "meta"]
    /\ UNCHANGED <<mode, put, prefetch, lock, leaked>>

\* ... and look the key up again: a KeyError leaks the buffer.
GetMeta(g) ==
    /\ get[g].pc = "meta"
    /\ IF InDict(get[g].key)
       THEN /\ get' = [get EXCEPT ![g].pc = "use"]
            /\ UNCHANGED <<leaked, badRead>>
       ELSE /\ get' = [get EXCEPT ![g].pc = "unpin"]
            /\ leaked' = leaked + 1
            /\ badRead' = TRUE
    /\ UNCHANGED <<mode, cacheVars, put, prefetch, lock>>

\* The chunk has been used and its buffer released.
GetUsed(g) ==
    /\ get[g].pc = "use"
    /\ get' = [get EXCEPT ![g].pc = "unpin"]
    /\ UNCHANGED <<mode, cacheVars, put, prefetch, lock, leaked, badRead>>

\* Mutant: the pin is not dropped.
UnpinKeyLost(g) ==
    /\ get[g].pc = "unpin" /\ lock = "free"
    /\ get' = [get EXCEPT ![g] = IdleGet]
    /\ UNCHANGED <<mode, cacheVars, put, prefetch, lock, leaked, badRead>>

\* lookup_unpin.
UnpinKey(g) ==
    LET k == get[g].key IN
    /\ get[g].pc = "unpin" /\ lock = "free"
    /\ pinCount' = IF InDict(k) THEN [pinCount EXCEPT ![k] = @ - 1] ELSE pinCount
    /\ get' = [get EXCEPT ![g] = IdleGet]
    /\ UNCHANGED <<mode, dict, file, cacheSize, putTasks, put, prefetch, lock, leaked, badRead>>

-----------------------------------------------------------------------------
(* The asynchronous prefetch *)

CurrentKey(f) == prefetch[f].keys[prefetch[f].done + 1]
LastKey(f) == prefetch[f].done + 1 = Len(prefetch[f].keys)
HitPrefix(ks) ==
    SubSeq(ks, 1, CHOOSE n \in 0..Len(ks) : /\ \A i \in 1..n : InDict(ks[i])
                                            /\ n < Len(ks) => ~InDict(ks[n + 1]))

\* An exception ends the prefetch: its n buffers are lost and its pins stay.
PrefetchRaises(f, n) ==
    /\ prefetch' = [prefetch EXCEPT ![f] = IdlePrefetch]
    /\ leaked' = leaked + n
    /\ badRead' = TRUE

\* batched_async_contains(pin=True): the hit prefix is pinned.
AsyncContains(f, ks) ==
    LET hit == HitPrefix(ks) IN
    /\ prefetch[f].pc = "idle" /\ lock = "free" /\ ~LoopBlocked
    /\ hit # <<>> /\ \A k \in Range(hit) : pinCount[k] < mode.maxPins
    /\ pinCount' = [k \in Keys |-> pinCount[k] + (IF k \in Range(hit) THEN 1 ELSE 0)]
    /\ prefetch' = [prefetch EXCEPT ![f] = [pc |-> "get", keys |-> hit, done |-> 0]]
    /\ UNCHANGED <<mode, dict, file, cacheSize, putTasks, put, get, lock, leaked, badRead>>

\* batched_get_non_blocking takes disk_lock for the next key; when the key is
\* gone the assertion fails and the lock stays taken.
PrefetchLock(f) ==
    /\ lock = "free"
    /\ prefetch[f].pc = "next" \/ (prefetch[f].pc = "get" /\ ~LoopBlocked)
    /\ IF InDict(CurrentKey(f))
       THEN /\ lock' = f
            /\ prefetch' = [prefetch EXCEPT ![f].pc = "alloc"]
            /\ UNCHANGED <<leaked, badRead>>
       ELSE lock' = "lost" /\ PrefetchRaises(f, prefetch[f].done)
    /\ UNCHANGED <<mode, cacheVars, put, get>>

\* allocate returns: until then it sleeps on the loop, holding disk_lock.
PrefetchAlloc(f) ==
    LET k == CurrentKey(f) IN
    /\ prefetch[f].pc = "alloc" /\ InUse < mode.buffers
    /\ IF InDict(k)
       THEN /\ pinCount' = [pinCount EXCEPT ![k] = @ + 1]
            /\ dict' = UpdateOnHit(k)
            /\ lock' = "free"
            /\ prefetch' = [prefetch EXCEPT
                  ![f].pc = IF LastKey(f) THEN "queued" ELSE "next",
                  ![f].done = IF LastKey(f) THEN 0 ELSE @ + 1]
            /\ UNCHANGED <<leaked, badRead>>
       ELSE /\ lock' = "lost" /\ PrefetchRaises(f, prefetch[f].done + 1)
            /\ UNCHANGED <<dict, pinCount>>
    /\ UNCHANGED <<mode, file, cacheSize, putTasks, put, get>>

\* batched_async_load_bytes_from_disk, on a thread of the pool.
PrefetchStart(f) ==
    /\ prefetch[f].pc = "queued" /\ ~LoopBlocked /\ Running < mode.workers
    /\ prefetch' = [prefetch EXCEPT ![f].pc = "read"]
    /\ UNCHANGED <<mode, cacheVars, put, get, lock, leaked, badRead>>

PrefetchRead(f) ==
    /\ prefetch[f].pc = "read"
    /\ ReadFile(CurrentKey(f))
    /\ prefetch' = [prefetch EXCEPT ![f].pc = "meta"]
    /\ UNCHANGED <<mode, put, get, lock, leaked>>

\* self.dict[key].cached_positions, without the lock ...
PrefetchMeta(f) ==
    /\ prefetch[f].pc = "meta"
    /\ IF InDict(CurrentKey(f))
       THEN /\ prefetch' = [prefetch EXCEPT ![f].pc = "unpin"]
            /\ UNCHANGED <<leaked, badRead>>
       ELSE PrefetchRaises(f, PrefetchBuffers(f))
    /\ UNCHANGED <<mode, cacheVars, put, get, lock>>

\* ... and self.dict[key].unpin() under it, which drops the prefetch's own pin
\* (that of batched_async_contains stays); a KeyError here loses the lock.
PrefetchUnpin(f) ==
    LET k == CurrentKey(f) IN
    /\ prefetch[f].pc = "unpin" /\ lock = "free"
    /\ IF InDict(k)
       THEN /\ pinCount' = [pinCount EXCEPT ![k] = @ - 1]
            /\ prefetch' = [prefetch EXCEPT ![f].pc = IF LastKey(f) THEN "use" ELSE "read",
                                            ![f].done = @ + 1]
            /\ UNCHANGED <<lock, leaked, badRead>>
       ELSE /\ lock' = "lost" /\ PrefetchRaises(f, PrefetchBuffers(f))
            /\ UNCHANGED pinCount
    /\ UNCHANGED <<mode, dict, file, cacheSize, putTasks, put, get>>

\* The chunks have been retrieved and their buffers released (AsyncLookup).
PrefetchUsed(f) ==
    /\ prefetch[f].pc = "use"
    /\ prefetch' = [prefetch EXCEPT ![f] = IdlePrefetch]
    /\ UNCHANGED <<mode, cacheVars, put, get, lock, leaked, badRead>>

-----------------------------------------------------------------------------
\* remove(key, force=True): pins are ignored, current_cache_size is kept; a
\* missing file raises while disk_lock is taken.
ForceRemove(k) ==
    /\ mode.remove /\ lock = "free" /\ InDict(k)
    /\ RemoveKey(k)
    /\ put' = Unlinked(put, k)
    /\ lock' = IF file[k] = "absent" THEN "lost" ELSE "free"
    /\ UNCHANGED <<mode, cacheSize, putTasks, get, prefetch, leaked, badRead>>

Next ==
    \/ \E p \in mode.puts, k \in mode.keys : CheckPutTasks(p, k)
    \/ \E p \in mode.puts : InsertPutTask(p)
    \/ \E p \in mode.puts : Reserve(p)
    \/ \E p \in mode.puts : EvictAndReserve(p)
    \/ \E p \in mode.puts : NoCandidates(p)
    \/ \E p \in mode.puts : OpenFile(p)
    \/ \E p \in mode.puts : WriteFile(p)
    \/ \E p \in mode.puts : InsertKey(p)
    \/ \E p \in mode.puts : RemovePutTask(p)
    \/ \E g \in mode.gets, k \in mode.keys : ContainsPin(g, k)
    \/ \E g \in mode.gets : GetBlocking(g)
    \/ \E g \in mode.gets : GetAlloc(g)
    \/ \E g \in mode.gets : GetRead(g)
    \/ \E g \in mode.gets : GetMeta(g)
    \/ \E g \in mode.gets : GetUsed(g)
    \/ \E g \in mode.gets : UnpinKey(g)
    \/ \E f \in mode.prefetches, ks \in mode.requests : AsyncContains(f, ks)
    \/ \E f \in mode.prefetches : PrefetchLock(f)
    \/ \E f \in mode.prefetches : PrefetchAlloc(f)
    \/ \E f \in mode.prefetches : PrefetchStart(f)
    \/ \E f \in mode.prefetches : PrefetchRead(f)
    \/ \E f \in mode.prefetches : PrefetchMeta(f)
    \/ \E f \in mode.prefetches : PrefetchUnpin(f)
    \/ \E f \in mode.prefetches : PrefetchUsed(f)
    \/ \E k \in mode.keys : ForceRemove(k)

Spec == Init /\ [][Next]_vars

\* Threads, pool workers and the event loop keep running.
PutStep(p) ==
    \/ InsertPutTask(p) \/ Reserve(p) \/ EvictAndReserve(p) \/ NoCandidates(p) \/ OpenFile(p)
    \/ WriteFile(p) \/ InsertKey(p) \/ RemovePutTask(p)
GetStep(g) ==
    \/ GetBlocking(g) \/ GetAlloc(g) \/ GetRead(g) \/ GetMeta(g) \/ GetUsed(g) \/ UnpinKey(g)
PrefetchStep(f) ==
    \/ PrefetchLock(f) \/ PrefetchAlloc(f) \/ PrefetchStart(f) \/ PrefetchRead(f)
    \/ PrefetchMeta(f) \/ PrefetchUnpin(f) \/ PrefetchUsed(f)
FairSpec == /\ Spec
            /\ \A p \in Puts : WF_vars(PutStep(p))
            /\ \A g \in Gets : WF_vars(GetStep(g))
            /\ \A f \in Prefetches : WF_vars(PrefetchStep(f))

-----------------------------------------------------------------------------
(* Properties *)

\* Every variable has its type.
TypeOK ==
    /\ mode \in Modes
    /\ dict \in Seq(Keys) /\ pinCount \in [Keys -> Int]
    /\ file \in [Keys -> {"absent", "partial", "whole"}]
    /\ cacheSize \in 0..mode.maxCacheSize /\ putTasks \in [Keys -> Nat] /\ leaked \in Nat
    /\ lock \in {"free", "lost"} \cup Prefetches
    /\ badRead \in BOOLEAN

\* One thread stores and nothing is removed by force.
OneWriter == ~mode.many /\ ~mode.remove

\* Every key of the dictionary has its whole file on disk: otherwise a hit
\* loads garbage, and an eviction of the key raises in the middle of a store.
FileBacked == OneWriter => \A k \in Keys : InDict(k) => file[k] = "whole"

\* current_cache_size is the size of what is on disk or on its way there.
BudgetExact ==
    OneWriter => cacheSize = Len(dict) + Cardinality(PutPhase({"queued", "write", "insert_key"}))

\* The files never take more than max_cache_size, whatever puts, evictions and
\* removals of the same key overlap.
DiskBounded == Cardinality({k \in Keys : file[k] # "absent"}) <= mode.maxCacheSize

\* A key that was found and pinned is read whole, and no reader raises.
ReadsWhole == OneWriter => ~badRead

\* When no request is under way no key is pinned, so all can be evicted: the
\* synchronous path gives back every pin.  (A key that is removed by force while it
\* is pinned and stored again gets back a pin it does not have.)
PinsReturned ==
    (OneWriter /\ mode.prefetches = {} /\ \A g \in Gets : get[g].pc = "idle")
        => \A k \in Keys : pinCount[k] = 0

\* The chunks on disk as a whole: a hit is backed by its file, a pinned chunk is
\* read whole and pins are given back.
ChunksBacked == FileBacked /\ ReadsWhole /\ PinsReturned

\* The size budget as a whole.
BudgetKept == TypeOK /\ BudgetExact /\ DiskBounded

\* A prefetch that waits for a CPU buffer, with disk_lock taken and the event
\* loop blocked, gets it ("okay to busy loop because stores will clear") when the
\* puts under way and the prefetch itself never need all of the buffers: a get
\* that holds one needs neither the lock nor the loop to release it.
PrefetchReturns ==
    \A f \in Prefetches :
        []<>(OneWriter /\ Cardinality(mode.puts) + Len(prefetch[f].keys) <= mode.buffers
                => prefetch[f].pc \notin {"alloc", "next"})
=============================================================================
