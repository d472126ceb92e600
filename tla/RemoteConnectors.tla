-------------------------- MODULE RemoteConnectors --------------------------
(***************************************************************************)
(* RemoteBackend and its connectors: one engine that puts chunks and loads *)
(* a prompt's chunks (lookup, then a prefetch or a blocking batched get),  *)
(* another engine that puts the same chunks, and the remote store.  A      *)
(* connector is the sequence of requests its put and its get make: another *)
(* coroutine, the other engine or the store's eviction may come between    *)
(* any two of them.  A chunk's content is its key; a buffer of the CPU     *)
(* pool holds a content, and is reused as soon as it is free.              *)
(***************************************************************************)
EXTENDS Integers, Sequences, FiniteSets, FiniteSetsExt

CONSTANTS
    NumKeys,     \* chunks of the prompt, 1..NumKeys in order
    Modes        \* connectors, configurations and faults: see ModeType

Keys == 1..NumKeys
None == 0        \* no such entry
Torn == -1       \* an entry of which only a part was written
Kinds == {"redis", "cluster", "sentinel", "valkey", "eic", "fs", "lm", "s3",
          "infinistore", "sagemaker", "mooncake"}
\* drop: the store evicts; error: a request fails; timeout: the engine's or the
\* connector's timeout expires; mla: a worker other than 0 of an MLA model.
Faults == {"drop", "error", "timeout", "mla", "remove"}
\* bufs: buffers of the CPU pool, held of them by an earlier load; meta:
\* save_chunk_meta; via: how the chunks are loaded; puts: the puts that may be made,
\* by engine; had: stored before.
ModeType == [kind: Kinds, bufs: Nat \ {0}, held: Nat, meta: BOOLEAN, via: {"prefetch", "blocking"},
             puts: SUBSET ({"us", "peer"} \X Keys), had: SUBSET Keys,
             workers: Nat, others: Nat, may: SUBSET Faults]

ASSUME ConnectorAssumption ==
    NumKeys \in Nat \ {0} /\ \A m \in Modes : m \in ModeType

VARIABLES
    mode,
    meta, data,  \* the store: metadata and content, by chunk
    lag,         \* sentinel: what the replica has
    tmp, fd,     \* fs: the temporary file; where a writer's descriptor points
    sizes,       \* s3: object_size_cache, -1 where there is no entry
    fails,       \* s3: connection_failures; from 3 on connection_disabled
    tokens,      \* infinistore: recv_queue
    jobs,        \* sagemaker: other requests' lookups that occupy a worker
    mem, free,   \* the CPU pool: content of each buffer, free buffers
    put,         \* coroutines of put
    putTasks,    \* RemoteBackend.put_tasks
    load, pos,   \* the load: its phase, the chunk its lookup is at
    get,         \* coroutines of get
    answer, given,   \* what the load returned; the buffers the engine was given
    live,        \* history: chunks in the store at some time since it began
    seen, late, holed   \* history: faults met; chunks whose buffer or lease was
                        \* given up too early; a hole in an answer was closed up

store == <<meta, data, lag, tmp, fd, sizes, fails, tokens, jobs>>
loading == <<load, pos, get, answer, given, holed>>
vars == <<mode, store, mem, free, put, putTasks, loading, live, seen, late>>

May(f) == f \in mode.may
\* Bound: one eviction and one failing request, but for S3, which counts to three.
Again(f) == May(f) /\ (f \in seen => mode.kind = "s3" /\ f = "error")
Is(kinds) == mode.kind \in kinds
Bufs == 1..mode.bufs

-----------------------------------------------------------------------------
(* The connectors: the requests of their put and get.                       *)

RedisPut == <<"data", "meta">>
RedisGet == <<"meta", "alloc", "data">>
ClusterPut == <<"data", "meta">>
ClusterGet == <<"meta", "alloc", "data">>
SentinelPut == <<"data", "meta">>            \* to the master
SentinelGet == <<"meta", "alloc", "data">>   \* from a replica
ValkeyPut == <<"data", "meta">>              \* a batch that is not atomic
ValkeyGet == <<"both", "alloc", "copy">>     \* one mget
EICPut == <<"meta", "data">>                 \* one mset; an entry may fail alone
EICGet == <<"meta", "alloc", "data">>
FSPut == <<"tmp", "fill", "publish">>
FSGet == <<"open", "alloc", "data">>
LMPut == <<"whole">>
LMGet == <<"both", "alloc", "copy">>
S3Put == <<"upload">>
S3Get == <<"size", "alloc", "data">>
InfinistorePut == <<"whole">>
InfinistoreGet == <<"token", "both", "alloc", "copy", "untoken">>
SageMakerPut == <<"keep">>                   \* 409 when the entry exists
SageMakerGet == <<"lease", "alloc", "copy", "unlease">>
MooncakePut == <<"whole">>                   \* from the buffer, in a thread
MooncakeGet == IF mode.via = "blocking" THEN <<"alloc", "data">> ELSE <<"unsupported">>

PutProgram ==
    CASE Is({"redis"}) -> RedisPut [] Is({"cluster"}) -> ClusterPut
      [] Is({"sentinel"}) -> SentinelPut [] Is({"valkey"}) -> ValkeyPut
      [] Is({"eic"}) -> EICPut [] Is({"fs"}) -> FSPut [] Is({"lm"}) -> LMPut
      [] Is({"s3"}) -> S3Put [] Is({"infinistore"}) -> InfinistorePut
      [] Is({"sagemaker"}) -> SageMakerPut [] OTHER -> MooncakePut

GetProgram ==
    CASE Is({"redis"}) -> RedisGet [] Is({"cluster"}) -> ClusterGet
      [] Is({"sentinel"}) -> SentinelGet [] Is({"valkey"}) -> ValkeyGet
      [] Is({"eic"}) -> EICGet [] Is({"fs"}) -> FSGet [] Is({"lm"}) -> LMGet
      [] Is({"s3"}) -> S3Get [] Is({"infinistore"}) -> InfinistoreGet
      [] Is({"sagemaker"}) -> SageMakerGet [] OTHER -> MooncakeGet

\* Connectors that keep metadata and content under two keys of the store.
TwoKeys == Is({"redis", "cluster", "sentinel", "valkey", "eic"})
\* Connectors whose get runs as a job of AsyncPQExecutor, out of reach of the
\* cancellation of the caller.
Executor ==
    \/ Is({"redis", "cluster", "valkey", "eic"})
    \/ Is({"sagemaker", "s3"}) /\ mode.via = "prefetch"
\* Connectors with a batched_get.
Batched == Is({"s3", "mooncake", "eic", "sagemaker"})
\* support_batched_put: such puts do not enter put_tasks.
BatchedPut == Is({"redis", "cluster", "mooncake", "sagemaker"})
\* batched_get_non_blocking that drops the Nones instead of stopping there.
Filters == Is({"redis", "cluster", "eic", "s3", "sagemaker"})
\* Connectors that gather their gets without return_exceptions.
Gathers == Is({"redis", "cluster", "eic", "sagemaker"})

\* A success resets the count, but what is disabled stays so.
Disabled == mode.kind = "s3" /\ fails >= 3
Reset == IF Disabled THEN fails ELSE 0

Init ==
    /\ mode \in Modes
    /\ meta = [k \in Keys |-> k \in mode.had]
    /\ data = [k \in Keys |-> IF k \in mode.had THEN k ELSE None]
    /\ lag = [k \in Keys |-> [meta |-> meta[k], data |-> data[k]]]
    /\ tmp = [k \in Keys |-> None]
    /\ fd = [i \in {"us", "peer"} |-> [k \in Keys |-> "none"]]
    /\ sizes = [k \in Keys |-> -1]
    /\ fails = 0 /\ tokens = 1 /\ jobs = 0
    /\ mem = [b \in Bufs |-> None]
    /\ given = {b \in Bufs : b <= mode.held} /\ free = Bufs \ given
    /\ put = [i \in {"us", "peer"} |-> [k \in Keys |-> [pc |-> 0, buf |-> 0, own |-> FALSE]]]
    /\ putTasks = {}
    /\ load = "idle" /\ pos = 1
    /\ get = [k \in Keys |-> [pc |-> 1, buf |-> 0, val |-> None, out |-> "idle"]]
    /\ answer = <<>>
    /\ live = {} /\ seen = {} /\ late = {} /\ holed = FALSE

\* What a read of the store finds: the master, or the replica of a sentinel.
\* The prefetch of an MLA worker asks for its own key, which nobody stores.
Absent == May("mla") /\ mode.via = "prefetch"
MetaOf(k) == ~Absent /\ IF mode.kind = "sentinel" THEN lag[k].meta ELSE meta[k]
DataOf(k) ==
    IF Absent THEN None ELSE IF mode.kind = "sentinel" THEN lag[k].data ELSE data[k]

-----------------------------------------------------------------------------
(* RemoteBackend.submit_put_task, batched_submit_put_task and the puts.     *)

\* The engine has filled buffers with the chunks; the connection holds them.  The
\* other engine has a pool of its own: its buffer is 0, of which no one cares.
\* A connector with batched_put is given all chunks of a store at once.
FirstFree(n) == {b \in free : Cardinality({c \in free : c < b}) < n}
BufferOf(i, k, ks) ==
    IF i = "peer" THEN 0
    ELSE CHOOSE b \in free : Cardinality({c \in free : c < b}) = Cardinality({j \in ks : j < k})
Submit(i, ks) ==
    /\ ks # {} /\ \A k \in ks : put[i][k].pc = 0 /\ <<i, k>> \notin putTasks
    /\ ~(i = "us" /\ May("mla"))
    /\ i = "us" => Cardinality(ks) <= Cardinality(free)
    /\ put' = [put EXCEPT ![i] = [k \in Keys |->
                  IF k \in ks THEN [pc |-> 1, buf |-> BufferOf(i, k, ks), own |-> i = "us"]
                  ELSE @[k]]]
    /\ mem' = [b \in Bufs |->
                 IF i = "us" /\ \E k \in ks : BufferOf(i, k, ks) = b
                 THEN CHOOSE k \in ks : BufferOf(i, k, ks) = b ELSE mem[b]]
    /\ free' = IF i = "us" THEN free \ FirstFree(Cardinality(ks)) ELSE free
    /\ putTasks' = IF BatchedPut THEN putTasks ELSE putTasks \cup {<<i, k>> : k \in ks}
    /\ UNCHANGED <<mode, store, loading, seen, late>>

PutsOf(i) == {k \in Keys : <<i, k>> \in mode.puts}
SubmitPut(i, k) == ~BatchedPut /\ k \in PutsOf(i) /\ Submit(i, {k})
SubmitBatch(i) == BatchedPut /\ Submit(i, PutsOf(i))

\* InstrumentedRemoteConnector.put, batched_put: the buffers are given up
\* whatever happened; put_callback.
GiveUp(i, ks) ==
    /\ free' = free \cup {put[i][k].buf : k \in {j \in ks : put[i][j].own}}
    /\ putTasks' = putTasks \ {<<i, k>> : k \in ks}
Disowned(p) == [pc |-> p.pc, buf |-> p.buf, own |-> FALSE]
Over(p) == [pc |-> -1, buf |-> p.buf, own |-> FALSE]
EndPut(i, k) ==
    /\ put' = [put EXCEPT ![i][k] = Over(@)]
    /\ GiveUp(i, {k})

Running(i, k) == put[i][k].pc \in 1..Len(PutProgram)
PutStep(i, k) == IF Running(i, k) THEN PutProgram[put[i][k].pc] ELSE "none"
Content(i, k) == IF put[i][k].buf = 0 THEN k ELSE mem[put[i][k].buf]

\* After the last request of the put it ends.
PutAdvance(i, k) ==
    IF put[i][k].pc = Len(PutProgram)
    THEN EndPut(i, k)
    ELSE put' = [put EXCEPT ![i][k].pc = @ + 1] /\ UNCHANGED <<free, putTasks>>

PutData(i, k) ==
    /\ PutStep(i, k) = "data"
    /\ data' = [data EXCEPT ![k] = Content(i, k)]
    /\ PutAdvance(i, k)
    /\ UNCHANGED <<mode, meta, lag, tmp, fd, sizes, fails, tokens, jobs, mem,
                   loading, seen, late>>

PutMeta(i, k) ==
    /\ PutStep(i, k) = "meta"
    /\ meta' = [meta EXCEPT ![k] = TRUE]
    /\ PutAdvance(i, k)
    /\ UNCHANGED <<mode, data, lag, tmp, fd, sizes, fails, tokens, jobs, mem,
                   loading, seen, late>>

\* LMCacheServer, infinistore, mooncake: the entry is replaced as a whole.
PutWhole(i, k) ==
    /\ PutStep(i, k) = "whole"
    /\ data' = [data EXCEPT ![k] = Content(i, k)]
    /\ meta' = [meta EXCEPT ![k] = TRUE]
    /\ PutAdvance(i, k)
    /\ UNCHANGED <<mode, lag, tmp, fd, sizes, fails, tokens, jobs, mem, loading,
                   seen, late>>

\* HyperPod answers 409 for an entry it has, which counts as success.
PutKeep(i, k) ==
    /\ PutStep(i, k) = "keep"
    /\ data' = IF data[k] = None THEN [data EXCEPT ![k] = Content(i, k)] ELSE data
    /\ meta' = [meta EXCEPT ![k] = TRUE]
    /\ PutAdvance(i, k)
    /\ UNCHANGED <<mode, lag, tmp, fd, sizes, fails, tokens, jobs, mem, loading,
                   seen, late>>

\* S3: an upload is visible when complete; the size is remembered.
PutUpload(i, k) ==
    /\ PutStep(i, k) = "upload"
    /\ IF i = "us" /\ Disabled
       THEN UNCHANGED <<data, meta, sizes, fails>>
       ELSE /\ data' = [data EXCEPT ![k] = Content(i, k)]
            /\ meta' = [meta EXCEPT ![k] = TRUE]
            /\ sizes' = IF i = "us" THEN [sizes EXCEPT ![k] = 1] ELSE sizes
            /\ fails' = IF i = "us" THEN Reset ELSE fails
    /\ PutAdvance(i, k)
    /\ UNCHANGED <<mode, lag, tmp, fd, tokens, jobs, mem, loading, seen, late>>

\* FSConnector.put opens the temporary file of the key for writing: one path
\* for all writers, so that another writer's file is truncated.
PutTmp(i, k) ==
    /\ PutStep(i, k) = "tmp"
    /\ tmp' = [tmp EXCEPT ![k] = Torn]
    /\ fd' = [fd EXCEPT ![i][k] = "tmp"]
    /\ PutAdvance(i, k)
    /\ UNCHANGED <<mode, meta, data, lag, sizes, fails, tokens, jobs, mem, loading,
                   seen, late>>

\* The content goes where the descriptor points: another writer may have renamed
\* the file, or replaced the renamed one, in which case it is lost.
PutFill(i, k) ==
    /\ PutStep(i, k) = "fill"
    /\ tmp' = IF fd[i][k] = "tmp" THEN [tmp EXCEPT ![k] = Content(i, k)] ELSE tmp
    /\ data' = IF fd[i][k] = "file" THEN [data EXCEPT ![k] = Content(i, k)] ELSE data
    /\ fd' = [fd EXCEPT ![i][k] = "closed"]
    /\ PutAdvance(i, k)
    /\ UNCHANGED <<mode, meta, lag, sizes, fails, tokens, jobs, mem, loading, seen,
                   late>>

\* os.replace; FileNotFoundError ends the put with an exception.
PutPublish(i, k) ==
    /\ PutStep(i, k) = "publish"
    /\ IF tmp[k] = None
       THEN UNCHANGED <<data, meta, tmp, fd>>
       ELSE /\ data' = [data EXCEPT ![k] = tmp[k]]
            /\ meta' = [meta EXCEPT ![k] = TRUE]
            /\ tmp' = [tmp EXCEPT ![k] = None]
            /\ fd' = [j \in DOMAIN fd |-> [fd[j] EXCEPT ![k] =
                        IF @ = "tmp" THEN "file" ELSE IF @ = "file" THEN "lost" ELSE @]]
    /\ EndPut(i, k)
    /\ UNCHANGED <<mode, lag, sizes, fails, tokens, jobs, mem, loading, seen, late>>

\* A request of the put fails: the put ends, its earlier requests stand.  An
\* entry of EIC's mset or of valkey's batch may fail alone.  S3 counts the failure; fs removes
\* the temporary file, whoever is writing it.  Redis gathers the puts of a batch and
\* gives up all its buffers at the first exception, though the other puts go on.
Siblings(i, k) ==
    IF Is({"redis", "cluster"}) THEN {j \in Keys \ {k} : Running(i, j)} ELSE {}
PutFails(i, k) ==
    /\ Again("error")
    /\ Running(i, k)
    /\ seen' = seen \cup {"error"}
    /\ fails' = IF mode.kind = "s3" /\ i = "us" THEN fails + 1 ELSE fails
    /\ tmp' = IF mode.kind = "fs" THEN [tmp EXCEPT ![k] = None] ELSE tmp
    /\ fd' = [j \in DOMAIN fd |-> [fd[j] EXCEPT ![k] =
                IF mode.kind = "fs" /\ @ = "tmp" THEN "lost" ELSE @]]
    /\ \/ Is({"eic", "valkey"}) /\ PutAdvance(i, k) /\ UNCHANGED late
       \/ /\ ~Is({"eic"})
          /\ put' = [put EXCEPT ![i] = [j \in Keys |->
                        IF j = k THEN Over(@[j])
                        ELSE IF j \in Siblings(i, k) THEN Disowned(@[j]) ELSE @[j]]]
          /\ GiveUp(i, {k} \cup Siblings(i, k))
          /\ late' = IF i = "us" THEN late \cup Siblings(i, k) ELSE late
    /\ UNCHANGED <<mode, meta, data, lag, sizes, tokens, jobs, mem, loading>>

\* Mooncake: wait_for gives up and the buffer is given back; the thread goes on
\* and reads the buffer, whatever is in it by then.
PutTimesOut(k) ==
    /\ May("timeout") /\ mode.kind = "mooncake"
    /\ Running("us", k) /\ put["us"][k].own
    /\ put' = [put EXCEPT !["us"][k] = Disowned(@)]
    /\ GiveUp("us", {k})
    /\ late' = late \cup {k}
    /\ UNCHANGED <<mode, store, mem, loading, seen>>

-----------------------------------------------------------------------------
(* RemoteBackend.batched_async_contains, contains.                          *)

Begin ==
    /\ load = "idle"
    /\ load' = "lookup"
    /\ UNCHANGED <<mode, store, mem, free, put, putTasks, pos, get, answer, given, holed,
                   seen, late>>

\* A worker of the executor is free for the lease request of a lookup or a get,
\* which in the prefetch occupies one itself (HyperPod submits jobs from jobs).
LeaseWorker ==
    \/ mode.kind # "sagemaker"
    \/ jobs + (IF mode.via = "prefetch" THEN 1 ELSE 0) < mode.workers

\* exists: metadata, content, file, cached size or lease, as the connector does.
\* The keys are rewritten to worker 0's here, not in the prefetch.
ExistsIn(k) ==
    CASE Is({"eic", "fs", "lm", "infinistore", "mooncake", "sagemaker"}) -> data[k] # None
      [] Is({"s3"}) -> ~Disabled /\ IF sizes[k] = -1 THEN data[k] # None ELSE sizes[k] > 0
      [] Is({"sentinel"}) -> lag[k].meta
      [] OTHER -> meta[k]

\* S3 remembers what HEAD found, a miss too.
Remembered(k) ==
    IF mode.kind = "s3" /\ ~Disabled /\ sizes[k] = -1
    THEN [sizes EXCEPT ![k] = IF data[k] = None THEN 0 ELSE 1]
    ELSE sizes

\* batched_async_contains: one key after the other, up to the first miss.
Lookup ==
    /\ load = "lookup"
    /\ LeaseWorker
    /\ sizes' = Remembered(pos)
    /\ pos' = IF ExistsIn(pos) THEN pos + 1 ELSE pos
    /\ load' = IF ExistsIn(pos) /\ pos < NumKeys THEN "lookup"
               ELSE IF pos' = 1 THEN "done" ELSE "load"
    /\ get' = [k \in Keys |-> IF load' = "load" /\ k < pos'
                              THEN [get[k] EXCEPT !.out = "run"] ELSE get[k]]
    /\ UNCHANGED <<mode, meta, data, lag, tmp, fd, fails, tokens, jobs, mem, free,
                   put, putTasks, answer, given, holed, seen, late>>

\* Mutant: the lookup waits without a timeout.
LookupWaits == FALSE
\* wait_for in batched_async_contains; contains has no timeout.
LookupTimesOut ==
    /\ May("timeout") /\ load = "lookup" /\ mode.via = "prefetch"
    /\ load' = "done"
    /\ UNCHANGED <<mode, store, mem, free, put, putTasks, pos, get, answer, given, holed,
                   seen, late>>

-----------------------------------------------------------------------------
(* The gets.                                                                *)

Hits == 1..pos - 1
GetStep(k) == IF get[k].out = "run" THEN GetProgram[get[k].pc] ELSE "none"

\* The step is done: the next one, or the end.
GetAdvance(k, new) ==
    get' = [get EXCEPT ![k] =
              IF new.pc = Len(GetProgram) THEN [new EXCEPT !.out = "ok"]
              ELSE [new EXCEPT !.pc = @ + 1]]
\* The get returns None or raises; buf is what it still holds, 0 if given back.
GetEnd(k, out, buf) == get' = [get EXCEPT ![k].out = out, ![k].buf = buf]

quiet == <<mode, put, putTasks, load, pos, answer, given, holed>>

\* The metadata, or the file with its header.
GetMeta(k) ==
    /\ GetStep(k) \in {"meta", "open"}
    /\ IF MetaOf(k) /\ ~(mode.kind = "fs" /\ mode.meta /\ DataOf(k) = Torn)
       THEN GetAdvance(k, [get[k] EXCEPT !.val = IF mode.kind = "fs" THEN DataOf(k) ELSE None])
       ELSE GetEnd(k, "none", 0)
    /\ UNCHANGED <<quiet, store, mem, free, seen, late>>

\* S3: the size, from the cache or by HEAD; a HEAD that fails is a miss, and is
\* remembered as one.
GetSize(k) ==
    /\ GetStep(k) = "size"
    /\ sizes' \in {Remembered(k)} \cup
          (IF May("error") /\ sizes[k] = -1 THEN {[sizes EXCEPT ![k] = 0]} ELSE {})
    /\ IF ~Disabled /\ sizes'[k] = 1 THEN GetAdvance(k, get[k]) ELSE GetEnd(k, "none", 0)
    /\ UNCHANGED <<quiet, meta, data, lag, tmp, fd, fails, tokens, jobs, mem, free,
                   seen, late>>

\* The lm connector's calls on its socket block the event loop: its gets run one
\* after the other, each to its end.  Infinistore's has no await after its read.
InTurn(k) == mode.kind = "lm" => \A j \in 1..k - 1 : get[j].out \notin {"run", "asleep"}
Synchronous == Is({"lm", "infinistore"})
Uninterrupted(k) == Synchronous /\ GetStep(k) \in {"alloc", "copy", "untoken"}

\* Metadata and content in one answer.  Infinistore: the token goes back on a miss.
GetBoth(k) ==
    /\ GetStep(k) = "both"
    /\ InTurn(k)
    /\ IF MetaOf(k) THEN GetAdvance(k, [get[k] EXCEPT !.val = DataOf(k)])
       ELSE GetEnd(k, "none", 0)
    /\ tokens' = IF ~MetaOf(k) /\ mode.kind = "infinistore" THEN tokens + 1 ELSE tokens
    /\ UNCHANGED <<quiet, meta, data, lag, tmp, fd, sizes, fails, jobs, mem, free, seen,
                   late>>

\* HyperPod: the lease names the place of the content in shared memory.
GetLease(k) ==
    /\ GetStep(k) = "lease"
    /\ LeaseWorker
    /\ IF DataOf(k) = None THEN GetEnd(k, "none", 0)
       ELSE GetAdvance(k, [get[k] EXCEPT !.val = DataOf(k)])
    /\ UNCHANGED <<quiet, store, mem, free, seen, late>>

\* A lease has a TTL: once over, the place may be given to another chunk, and the
\* reader does not notice.
LeaseExpires(k) ==
    /\ May("timeout") /\ mode.kind = "sagemaker"
    /\ GetStep(k) \in {"alloc", "copy"}
    /\ \E j \in Keys \ {k} : get' = [get EXCEPT ![k].val = j]
    /\ late' = late \cup {k}
    /\ UNCHANGED <<quiet, store, mem, free, seen>>

\* Infinistore: a receive buffer.
GetToken(k) ==
    /\ GetStep(k) = "token"
    /\ tokens > 0
    /\ tokens' = tokens - 1
    /\ GetAdvance(k, get[k])
    /\ UNCHANGED <<quiet, meta, data, lag, tmp, fd, sizes, fails, jobs, mem, free,
                   seen, late>>

\* local_cpu_backend.allocate, busy_loop=True: without memory it sleeps and tries
\* again, for ever, in time.sleep on the event loop, which runs nothing meanwhile.
\* (A buffer that only the hot cache refers to is evicted there: it counts as free.)
Asleep == \E k \in Keys : get[k].out = "asleep"
GetAlloc(k) ==
    /\ GetStep(k) = "alloc"
    /\ IF free = {}
       THEN /\ get' = [get EXCEPT ![k].out = "asleep"]
            /\ UNCHANGED free
       ELSE /\ GetAdvance(k, [get[k] EXCEPT !.buf = Min(free)])
            /\ free' = free \ {Min(free)}
    /\ UNCHANGED <<quiet, store, mem, seen, late>>

\* Memory has come back.  A get that was cancelled during the sleep ends at its next
\* await, and its buffer is lost.
GetWake(k) ==
    /\ get[k].out = "asleep" /\ free # {}
    /\ IF load = "load" \/ Executor \/ Synchronous
       THEN GetAdvance(k, [get[k] EXCEPT !.buf = Min(free), !.out = "run"])
       ELSE GetEnd(k, "none", Min(free))
    /\ free' = free \ {Min(free)}
    /\ UNCHANGED <<quiet, store, mem, seen, late>>

Release(k) == free' = free \cup {get[k].buf}

\* Valkey, lm, HyperPod, infinistore: the content that was read is copied;
\* valkey may have found metadata without content, and gives the buffer back.
GetCopy(k) ==
    /\ GetStep(k) = "copy"
    /\ IF get[k].val = None
       THEN GetEnd(k, "none", 0) /\ Release(k) /\ UNCHANGED mem
       ELSE /\ mem' = [mem EXCEPT ![get[k].buf] = get[k].val]
            /\ GetAdvance(k, get[k])
            /\ UNCHANGED free
    /\ UNCHANGED <<quiet, store, seen, late>>

\* What a read into the buffer may find: a file is the one that was opened, or
\* what a writer has made of it since.
Readable(k) ==
    IF mode.kind = "fs" THEN {get[k].val, DataOf(k)} \ {None} ELSE {DataOf(k)}

\* The content, read into the buffer.  Redis deletes the metadata of a missing
\* content and, like EIC, forgets the buffer; the others give it back, as fs
\* does when the file is shorter than its header says.  Without that header
\* (save_chunk_meta off) a part of a chunk passes for a chunk.
GetData(k) ==
    /\ GetStep(k) = "data"
    /\ \E d \in Readable(k) :
         IF d = None \/ (d = Torn /\ mode.meta)
         THEN /\ IF Is({"redis", "cluster", "sentinel"})
                 THEN GetEnd(k, "repair", get[k].buf)
                 ELSE GetEnd(k, "none", IF mode.kind = "eic" THEN get[k].buf ELSE 0)
              /\ IF Is({"redis", "cluster", "sentinel", "eic"}) THEN UNCHANGED free
                 ELSE Release(k)
              /\ UNCHANGED <<mem, fails>>
         ELSE /\ mem' = [mem EXCEPT ![get[k].buf] = d]
              /\ GetAdvance(k, get[k])
              /\ fails' = Reset
              /\ UNCHANGED free
    /\ UNCHANGED <<quiet, meta, data, lag, tmp, fd, sizes, tokens, jobs, seen, late>>

\* Redis: the delete of the metadata, on the master.
GetRepair(k) ==
    /\ get[k].out = "repair"
    /\ meta' = [meta EXCEPT ![k] = FALSE]
    /\ get' = [get EXCEPT ![k].out = "none"]
    /\ UNCHANGED <<quiet, data, lag, tmp, fd, sizes, fails, tokens, jobs, mem, free,
                   seen, late>>

\* _release_lease; recv_queue.put_nowait.
GetRelease(k) ==
    /\ GetStep(k) \in {"unlease", "untoken"}
    /\ tokens' = IF GetStep(k) = "untoken" THEN tokens + 1 ELSE tokens
    /\ GetAdvance(k, get[k])
    /\ UNCHANGED <<quiet, meta, data, lag, tmp, fd, sizes, fails, jobs, mem, free,
                   seen, late>>

\* MooncakestoreConnector.get raises NotImplementedError.
GetUnsupported(k) ==
    /\ GetStep(k) = "unsupported"
    /\ GetEnd(k, "raise", 0)
    /\ UNCHANGED <<quiet, store, mem, free, seen, late>>

\* A request of the get fails.  fs and S3 catch it and give the buffer back (S3
\* counts it), EIC and HyperPod get a status, mooncake catches it for the batch;
\* the others raise, and a buffer already allocated is lost.
GetFails(k) ==
    /\ Again("error")
    /\ GetStep(k) \in {"meta", "open", "both", "data", "lease"}
    /\ seen' = seen \cup {"error"}
    /\ LET held == get[k].buf
           caught == Is({"fs", "s3", "mooncake"}) IN
         /\ GetEnd(k, IF caught \/ Is({"eic", "sagemaker", "infinistore"}) THEN "none"
                      ELSE "raise", IF caught THEN 0 ELSE held)
         /\ free' = IF caught THEN free \cup ({held} \ {0}) ELSE free
    /\ fails' = IF mode.kind = "s3" THEN fails + 1 ELSE fails
    /\ tokens' = IF mode.kind = "infinistore" THEN tokens + 1 ELSE tokens
    /\ UNCHANGED <<quiet, meta, data, lag, tmp, fd, sizes, jobs, mem, late>>

-----------------------------------------------------------------------------
(* The end of the load.                                                     *)

Ended == \A k \in Hits : get[k].out \in {"ok", "none", "raise"}
Ok(k) == get[k].out = "ok"
Raised == {k \in Hits : get[k].out = "raise"}
\* Mutant: every chunk that was read, whatever failed before it.
GoodAny == {k \in Hits : Ok(k)}
\* The chunks before the first that failed.
GoodPrefix == {k \in Hits : \A j \in 1..k : Ok(j)}
\* The result of a batched_get: a chunk or None at each position.
AtPosition(ks) ==
    [k \in Hits |-> IF k \in ks THEN mem[get[k].buf] ELSE None]
Ordered(ks) ==
    LET nth(n) == CHOOSE k \in ks : Cardinality({j \in ks : j <= k}) = n
    IN [n \in 1..Cardinality(ks) |-> mem[get[nth(n)].buf]]

\* The load returns the chunks ks, as the sequence res; drop are given back.
Return(ks, res, drop) ==
    /\ load' = "done"
    /\ answer' = res
    /\ given' = given \cup {get[k].buf : k \in ks}
    /\ free' = free \cup {get[k].buf : k \in drop}
    /\ get' = [k \in Keys |-> IF k \in Hits THEN [get[k] EXCEPT !.buf = IF k \in ks \cup drop
                                                    THEN 0 ELSE @] ELSE get[k]]
    /\ UNCHANGED <<mode, store, mem, put, putTasks, pos, seen, late>>

\* Mutant: the chunks after a failure are not given back.
ReturnPrefixKeeps ==
    /\ load = "load" /\ Ended /\ mode.via = "prefetch" /\ ~Filters
    /\ Return(GoodPrefix, Ordered(GoodPrefix), {})
    /\ UNCHANGED holed
\* RemoteConnector.batched_get_non_blocking: the prefix; the rest is given back.
ReturnPrefix ==
    /\ load = "load" /\ Ended /\ mode.via = "prefetch" /\ ~Filters
    /\ Return(GoodPrefix, Ordered(GoodPrefix), {k \in Hits : Ok(k)} \ GoodPrefix)
    /\ UNCHANGED holed

\* Its overrides: what is not None.  An exception empties the result, and the
\* buffers of the other gets are lost.
ReturnFiltered ==
    /\ load = "load" /\ Ended /\ mode.via = "prefetch" /\ Filters
    /\ LET oks == IF Gathers /\ Raised # {} THEN {} ELSE {k \in Hits : Ok(k)} IN
         /\ Return(oks, Ordered(oks), {})
         /\ holed' = (oks # {} /\ oks # 1..Cardinality(oks))

\* batched_get_blocking of a connector with batched_get: the result as it is, or
\* Nones if it raised. 
ReturnBatch ==
    /\ load = "load" /\ Ended /\ mode.via = "blocking" /\ Batched
    /\ LET oks == IF Raised # {} THEN {} ELSE {k \in Hits : Ok(k)} IN
         Return(oks, AtPosition(oks), {})
    /\ UNCHANGED holed

\* batched_get_blocking over single gets: after the first that raises the others
\* are cancelled and their results, if any, dropped.
ReturnEach ==
    /\ load = "load" /\ Ended /\ mode.via = "blocking" /\ ~Batched
    /\ LET oks == {k \in Hits : Ok(k) /\ \A j \in Raised : k < j} IN
         Return(oks, AtPosition(oks), {})
    /\ UNCHANGED holed

\* The timeout of batched_get_non_blocking and of batched_get_blocking: what has
\* been read is lost; gets that are jobs of the executor go on for nobody.  The
\* first is a wait_for of the event loop, the second of the engine's thread.
LoadTimesOut ==
    /\ May("timeout") /\ load = "load" /\ ~Ended
    /\ mode.via = "prefetch" => ~Asleep
    /\ load' = "done"
    /\ seen' = seen \cup {"timeout"}
    /\ get' = [k \in Keys |-> IF get[k].out = "run" /\ ~Executor /\ ~Uninterrupted(k)
                              THEN [get[k] EXCEPT !.out = "none"] ELSE get[k]]
    /\ UNCHANGED <<mode, store, mem, free, put, putTasks, pos, answer, given, holed, late>>

\* The engine has copied what it was given.  In a blocking load its thread waits.
Consume ==
    /\ given # {}
    /\ mode.via = "blocking" => load \in {"idle", "done"}
    /\ free' = free \cup given
    /\ given' = {}
    /\ UNCHANGED <<mode, store, mem, put, putTasks, load, pos, get, answer, holed, seen,
                   late>>

-----------------------------------------------------------------------------
(* The store.                                                               *)

\* Redis and its like evict one of the two keys; the others the whole entry.
Drop(k) ==
    /\ Again("drop") /\ (meta[k] \/ data[k] # None)
    /\ \E m, d \in BOOLEAN :
         /\ m \/ d
         /\ ~TwoKeys => m /\ d
         /\ meta' = [meta EXCEPT ![k] = @ /\ ~m]
         /\ data' = [data EXCEPT ![k] = IF d THEN None ELSE @]
    /\ fd' = [j \in DOMAIN fd |-> [fd[j] EXCEPT ![k] = IF @ = "file" THEN "lost" ELSE @]]
    /\ seen' = seen \cup {"drop"}
    /\ UNCHANGED <<mode, lag, tmp, sizes, fails, tokens, jobs, mem, free, put,
                   putTasks, loading, late>>

\* RemoteBackend.remove: only FSConnector implements it.
RemoveSync(k) ==
    /\ May("remove") /\ mode.kind = "fs" /\ data[k] # None
    /\ meta' = [meta EXCEPT ![k] = FALSE]
    /\ data' = [data EXCEPT ![k] = None]
    /\ fd' = [j \in DOMAIN fd |-> [fd[j] EXCEPT ![k] = IF @ = "file" THEN "lost" ELSE @]]
    /\ UNCHANGED <<mode, lag, tmp, sizes, fails, tokens, jobs, mem, free, put,
                   putTasks, loading, seen, late>>

\* Asynchronous replication, in the master's order: content before metadata.
Replicate(k) ==
    /\ mode.kind = "sentinel"
    /\ lag[k] # [meta |-> meta[k], data |-> data[k]]
    /\ \E d \in {data[k]}, m \in {meta[k], lag[k].meta} :
         /\ lag' = [lag EXCEPT ![k] = [meta |-> m, data |-> d]]
         /\ lag' # lag
    /\ UNCHANGED <<mode, meta, data, tmp, fd, sizes, fails, tokens, jobs, mem, free,
                   put, putTasks, loading, seen, late>>

\* HyperPod: another request's lookup takes a worker; it needs one more for its
\* lease request, so that lookups on every worker wait for each other for ever.
OtherLookup ==
    /\ mode.kind = "sagemaker"
    /\ jobs < mode.others /\ jobs < mode.workers
    /\ jobs' = jobs + 1
    /\ UNCHANGED <<mode, meta, data, lag, tmp, fd, sizes, fails, tokens, mem, free,
                   put, putTasks, loading, seen, late>>

OtherLookupEnds ==
    /\ mode.kind = "sagemaker"
    /\ jobs \in 1..mode.workers - 1
    /\ jobs' = jobs - 1
    /\ UNCHANGED <<mode, meta, data, lag, tmp, fd, sizes, fails, tokens, mem, free,
                   put, putTasks, loading, seen, late>>

-----------------------------------------------------------------------------

Stored == {k \in Keys : (IF mode.kind = "sentinel" THEN lag[k].data ELSE data[k]) = k}
Track == live' = IF load' = "idle" THEN {} ELSE live \cup Stored'

PutSteps(i, k) ==
    \/ PutData(i, k) \/ PutMeta(i, k) \/ PutWhole(i, k) \/ PutKeep(i, k)
    \/ PutUpload(i, k) \/ PutTmp(i, k) \/ PutFill(i, k) \/ PutPublish(i, k)
    \/ PutFails(i, k)
GetSteps(k) ==
    \/ GetMeta(k) \/ GetSize(k) \/ GetBoth(k) \/ GetLease(k) \/ GetToken(k)
    \/ GetAlloc(k) \/ GetCopy(k) \/ GetData(k) \/ GetRepair(k) \/ GetRelease(k)
    \/ GetUnsupported(k) \/ GetFails(k)
\* What an event loop that sleeps in allocate does not run; the thread of a mooncake
\* put that was given up goes on.
OwnSteps(k) ==
    \/ ~Asleep /\ (PutSteps("us", k) \/ GetSteps(k))
    \/ mode.kind = "mooncake" /\ ~put["us"][k].own /\ PutSteps("us", k)
    \/ GetWake(k)
LoadSteps ==
    \/ Lookup \/ LookupTimesOut \/ ReturnPrefix \/ ReturnFiltered
    \/ ReturnBatch \/ ReturnEach \/ LoadTimesOut \/ Consume
Environment ==
    \/ \E k \in Keys : Drop(k) \/ RemoveSync(k) \/ Replicate(k)
    \/ ~Asleep /\ (OtherLookup \/ OtherLookupEnds)

Next ==
    /\ \/ \E i \in {"us", "peer"} : SubmitBatch(i) \/ \E k \in Keys : SubmitPut(i, k)
       \/ \E k \in Keys : OwnSteps(k) \/ PutSteps("peer", k) \/ LeaseExpires(k)
       \/ ~Asleep /\ \E k \in Keys : PutTimesOut(k)
       \/ Begin \/ LoadSteps \/ Environment
    /\ Track

Spec == Init /\ [][Next]_vars
\* The event loop keeps running ready coroutines, each of which makes finitely
\* many steps; timeouts expire.
Scheduled ==
    \/ \E k \in Keys : OwnSteps(k) \/ PutSteps("peer", k)
    \/ LoadSteps
FairSpec == Spec /\ WF_vars(Scheduled /\ Track)

-----------------------------------------------------------------------------
(* Properties.                                                              *)

Lost ==
    Bufs \ (free \cup given
            \cup {put["us"][k].buf : k \in {j \in Keys : put["us"][j].own}}
            \cup {get[k].buf : k \in {j \in Keys :
                               get[j].out = "run" \/ (load = "load" /\ Ok(j))}})

\* Faults after which a connector has given back every buffer.
Survives ==
    CASE Is({"redis", "cluster", "sentinel", "eic"}) -> {}
      [] Is({"fs", "s3", "sagemaker", "mooncake", "infinistore"}) -> {"drop", "error"}
      [] OTHER -> {"drop"} \cup (IF mode.via = "prefetch" THEN {"error"} ELSE {})

\* A buffer of the pool is lost only if the load met a fault its connector does
\* not clean up after: fs, S3, HyperPod, mooncake and infinistore give back what
\* they allocated when the entry vanished or a request failed; redis and EIC lose it.
BuffersBack == Lost # {} => seen \ Survives # {}

\* What is stored under a key is that chunk, or for fs a part of it in the
\* making, whoever writes it at the same time; the exception are puts whose
\* buffer was given up before they had read it.
StoredRight == \A k \in Keys : data[k] \in {None, Torn, k} \/ k \in late

\* The load is given chunks up to the first it is not given.
FirstChunks ==
    LET n == Cardinality({i \in DOMAIN answer : \A j \in 1..i : answer[j] # None})
    IN SubSeq(answer, 1, n)
\* The store and the pool of buffers of a connector.
ConnectorSafe == StoredRight /\ BuffersBack

KV == INSTANCE KVStore WITH
        stored <- Stored, begun <- load # "idle", answer <- FirstChunks

\* Every connector implements KVStore: the answer to a load is a prefix of its
\* chunks, each whole, at its position and in the store at some time since the
\* load began, whatever the other engine and the store's eviction do in between;
\* unless a buffer or a lease was given up too early, or a connector that drops
\* the Nones of its answer met one before a chunk.
ImplementsKVStore ==
    KV!Init /\ [][KV!Next \/ late' # {} \/ holed']_<<Stored, live, load # "idle", FirstChunks>>

\* A load that sleeps for memory sleeps for ever: the pool has no room for its
\* chunks beside the puts, which cannot end while it sleeps, what an earlier load
\* holds if the engine's thread waits too, and what was lost.
Short ==
    \/ mode.bufs < NumKeys + Cardinality(PutsOf("us"))
                   + (IF mode.via = "blocking" THEN mode.held ELSE 0)
    \/ Lost # {}
Starved == Asleep /\ free = {} /\ Short

\* contains() has no timeout: it waits for ever for a worker of HyperPod's executor
\* once lookups that wait for each other have them all.
Unserved == load = "lookup" /\ mode.via = "blocking" /\ ~LeaseWorker

\* Every load is answered, and every put leaves put_tasks, also when lookups of
\* HyperPod wait for each other and when an earlier load holds the memory, unless a
\* load sleeps for ever on the event loop in a pool that is too small, or is a
\* blocking one that those lookups leave no worker.
Answered ==
    \/ <>[]Starved \/ <>[]Unserved
    \/ /\ []<>(load \in {"idle", "done"})
       /\ \A x \in {"us", "peer"} \X Keys : []<>(x \notin putTasks)
=============================================================================
