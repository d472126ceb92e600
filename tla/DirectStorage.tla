--------------------------- MODULE DirectStorage ---------------------------
(***************************************************************************)
(* The backends that stage chunks in a buffer of their own and move them   *)
(* to storage without the CPU: NixlStaticStorageBackend (a pool of files   *)
(* or objects opened in advance), NixlDynamicStorageBackend (one object    *)
(* per key) and GdsBackend (one data file and one metadata file per key).  *)
(* A put is submitted by an engine thread, which then drops its references *)
(* on the chunks, and is carried out by a coroutine of the event loop.     *)
(***************************************************************************)
EXTENDS Integers, Sequences, FiniteSets, SequencesExt, FiniteSetsExt, Functions

CONSTANTS
    Keys,
    Modes        \* configurations and bounds, as described at ModeType

\* The keys of a batch are those of consecutive prefixes of a prompt.
Batches == {ks \in Seq(Keys) : IsInjective(ks)}

\* pages: of the staging buffer; pool: nixl_pool_size; async: nixl_async_put;
\* presence: nixl_presence_cache; jobs: what the engine does.  may: "err" (a
\* transfer fails), "crash" (the process is started again), "drop" (somebody
\* else deletes objects or files).
ModeRecord ==
    [kind: {"static", "dynamic", "gds"}, pages: Nat, pool: Nat, async: BOOLEAN,
     presence: BOOLEAN, jobs: Seq([op: {"put", "get"}, keys: Batches]),
     may: SUBSET {"err", "crash", "drop"}]

\* GdsBackend writes each key in a coroutine of its own: its puts are of one key.
ModeType ==
    {m \in ModeRecord :
        m.kind = "gds" => \A i \in DOMAIN m.jobs :
            m.jobs[i].op = "put" => Len(m.jobs[i].keys) = 1}

VARIABLES
    mode,
    page,        \* the staging buffer: reference count and content
    pc,          \* of each job
    mine,        \* pages of a job, one for each of its keys
    want,        \* keys a get goes for
    held,        \* jobs whose caller holds references on their pages
    queue,       \* coroutines the event loop has still to start
    flying,      \* transfers under way
    progress,    \* progress_set, put_tasks
    key_dict, pins, pool, desc,          \* static: key -> descriptor, those left, contents
    store, metas, saving, presence, hot, \* objects or data files; metadata files
    \* History since the process started: wrong content returned; a page given
    \* out again before it was written; puts that raised; buffers of operations
    \* that raised; restarts.
    wrong, reused, broken, lost, restarts

static == <<key_dict, pins, pool, desc>>
files == <<store, metas, saving, presence, hot>>
history == <<wrong, reused, broken, lost, restarts>>
vars == <<mode, page, pc, mine, want, held, queue, flying, progress, static, files, history>>

Jobs == 1..Len(mode.jobs)
Op(j) == mode.jobs[j].op
Batch(j) == mode.jobs[j].keys
KeysOf(j) == IF Op(j) = "put" THEN ToSet(Batch(j)) ELSE want[j]
Pages == 1..mode.pages
FreePages == {p \in Pages : page[p].ref = 0}
Free == [ref |-> 0, has |-> "junk"]
None == [k \in {} |-> 0]
Kind(k) == mode.kind = k
Set(f, x, y) == [f EXCEPT ![x] = y]

Init ==
    /\ mode \in Modes
    /\ page = [p \in Pages |-> Free]
    /\ pc = [j \in Jobs |-> "new"] /\ mine = [j \in Jobs |-> None]
    /\ want = [j \in Jobs |-> {}] /\ held = {}
    /\ queue = <<>> /\ flying = {} /\ progress = {}
    /\ key_dict = None /\ pins = [k \in Keys |-> 0]
    /\ pool = 1..mode.pool /\ desc = [i \in 1..mode.pool |-> "junk"]
    /\ store = None /\ metas = {} /\ saving = {} /\ presence = {} /\ hot = {}
    /\ wrong = FALSE /\ reused = FALSE /\ broken = {} /\ lost = 0 /\ restarts = 0

-----------------------------------------------------------------------------
(* References on the pages of a job.                                        *)

RefDown(pg, ps) ==
    [p \in DOMAIN pg |-> IF p \in Range(ps) THEN [ref |-> pg[p].ref - 1, has |-> pg[p].has] ELSE pg[p]]
RefUp(pg, ps) ==
    [p \in DOMAIN pg |-> IF p \in Range(ps) THEN [ref |-> pg[p].ref + 1, has |-> pg[p].has] ELSE pg[p]]

\* One element of S, another one each, for the members of K.
Places(K, S) == CHOOSE f \in [K -> S] : IsInjective(f)

\* A free page for each key, with its content.
Alloc(pg, content) ==
    LET ps == Places(DOMAIN content, {p \in DOMAIN pg : pg[p].ref = 0})
    IN  [pages |-> ps,
         buf |-> [p \in DOMAIN pg |->
                     IF p \in Range(ps)
                     THEN [ref |-> 1, has |-> content[CHOOSE k \in DOMAIN ps : ps[k] = p]]
                     ELSE pg[p]]]

\* Pages that are given out although a queued put will still read them.
Reuses(ps) == \E j \in ToSet(queue) : Op(j) = "put" /\ Range(mine[j]) \cap Range(ps) # {}

-----------------------------------------------------------------------------
(* Puts.                                                                    *)

\* The engine has no page for a chunk: nothing is stored.
NoPage(j) ==
    /\ pc[j] = "new" /\ Op(j) = "put"
    /\ Cardinality(FreePages) < Cardinality(KeysOf(j))
    /\ pc' = Set(pc, j, "done")
    /\ UNCHANGED <<mode, page, mine, want, held, queue, flying, progress, static, files, history>>

\* The victims batched_submit_put_task removes: as many as descriptors lack
\* now, whatever the coroutines in the queue will still take.
Victims(n) ==
    LET lacking == n - Cardinality(pool)
        can == {k \in DOMAIN key_dict : pins[k] <= 0}
        count == IF lacking < Cardinality(can) THEN lacking ELSE Cardinality(can)
    IN  IF lacking <= 0 THEN {{}} ELSE kSubset(count, can)
\* remove: the descriptor goes back to the pool.
RemoveKeys(ks) ==
    /\ key_dict' = Restrict(key_dict, DOMAIN key_dict \ ks)
    /\ pool' = pool \cup {key_dict[k] : k \in ks}

\* Mutant: an asynchronous put takes no reference.
SubmitRefsNone == {}
\* Backends that hold a reference of their own until the chunk is written.
SubmitRefs == {k \in {"dynamic", "gds"} : k = "gds" \/ mode.async}

SubmitPut(j) ==
    LET got == Alloc(page, [k \in KeysOf(j) |-> k])
    IN  /\ pc[j] = "new" /\ Op(j) = "put"
        /\ Cardinality(FreePages) >= Cardinality(KeysOf(j))
        /\ pc' = Set(pc, j, "put") /\ mine' = Set(mine, j, got.pages)
        /\ held' = held \cup {j}
        /\ reused' = (reused \/ Reuses(got.pages))
        /\ page' = IF mode.kind \in SubmitRefs THEN RefUp(got.buf, got.pages) ELSE got.buf
        /\ IF Kind("static")
           THEN \E v \in Victims(Cardinality(KeysOf(j))) :
                  /\ RemoveKeys(v)
                  /\ IF v = {} /\ Cardinality(pool) < Cardinality(KeysOf(j))
                     THEN UNCHANGED <<queue, progress>>   \* nothing to evict: not stored
                     ELSE /\ queue' = Append(queue, j)
                          /\ progress' = progress \cup KeysOf(j)
           ELSE /\ queue' = Append(queue, j)
                /\ progress' = progress \cup KeysOf(j)
                /\ UNCHANGED <<key_dict, pool>>
        /\ UNCHANGED <<mode, want, flying, pins, desc, files, wrong, broken, lost, restarts>>

\* Mutant: the wait is for the keys to leave progress_set.
WaitsProgress(j) == Kind("dynamic") /\ ~mode.async /\ KeysOf(j) \cap progress # {}
\* A synchronous put of NixlDynamicStorageBackend waits for its coroutine.
Waits(j) == Kind("dynamic") /\ ~mode.async /\ (j \in ToSet(queue) \/ j \in flying)
\* StorageManager.batched_put drops the references of the engine; not if the
\* backend has raised.
Release(j) ==
    /\ pc[j] = "put" /\ j \in held /\ ~Waits(j)
    /\ held' = held \ {j}
    /\ IF Kind("dynamic") /\ ~mode.async /\ j \in broken
       THEN lost' = lost + Cardinality(KeysOf(j)) /\ UNCHANGED page
       ELSE page' = RefDown(page, mine[j]) /\ UNCHANGED lost
    /\ UNCHANGED <<mode, pc, mine, want, queue, flying, progress, static, files, wrong,
                   reused, broken, restarts>>

PutEnds(j) ==
    /\ pc[j] = "put" /\ j \notin held /\ j \notin ToSet(queue) /\ j \notin flying
    /\ pc' = Set(pc, j, "done")
    /\ UNCHANGED <<mode, page, mine, want, held, queue, flying, progress, static, files, history>>

Turn(j) == queue # <<>> /\ Head(queue) = j /\ queue' = Tail(queue)
MayFail == IF "err" \in mode.may THEN BOOLEAN ELSE {TRUE}
Contents(j) == [k \in DOMAIN mine[j] |-> page[mine[j][k]].has]

\* NixlStaticStorageBackend.mem_to_storage.  The first key that is stored
\* already, or for which no descriptor is left, fails an assertion: the keys
\* before it are published and never written, and its descriptor is lost.
Refused(j) ==
    SelectInSeq([i \in DOMAIN Batch(j) |-> i],
        LAMBDA i : i > Cardinality(pool) \/ Batch(j)[i] \in DOMAIN key_dict)
Popped(ks) == Places(ks, pool)
UpTo(j, n) == {Batch(j)[i] : i \in 1..n}
AddKeys(ks, at) ==
    key_dict' = [k \in DOMAIN key_dict \cup ks |-> IF k \in ks THEN at[k] ELSE key_dict[k]]
\* The loop starts no other coroutine during post_blocking, gets included: the
\* transfer is one step.  A page that the engine gives out again meanwhile is
\* treated as one given out just before it (reused); what is not explored is a
\* lookup or the choice of a victim between the publication and the transfer.
StaticWrite(j) ==
    LET stop == Refused(j)
        at == Popped(IF stop = 0 THEN KeysOf(j)
                     ELSE UpTo(j, IF stop > Cardinality(pool) THEN stop - 1 ELSE stop))
    IN  /\ Turn(j) /\ Kind("static") /\ Op(j) = "put"
        /\ pool' = pool \ Range(at)
        /\ IF stop # 0
           THEN /\ AddKeys(UpTo(j, stop - 1), at)
                /\ broken' = broken \cup {j}
                /\ UNCHANGED <<desc, progress>>
           ELSE /\ AddKeys(KeysOf(j), at)
                /\ \E ok \in MayFail :
                      IF ok
                      THEN /\ desc' = [d \in DOMAIN desc |->
                                  IF d \in Range(at)
                                  THEN Contents(j)[CHOOSE k \in KeysOf(j) : at[k] = d]
                                  ELSE desc[d]]
                           /\ progress' = progress \ KeysOf(j)
                           /\ UNCHANGED broken
                      ELSE broken' = broken \cup {j} /\ UNCHANGED <<desc, progress>>
        /\ UNCHANGED <<mode, page, pc, mine, want, held, flying, pins, files, wrong, reused,
                       lost, restarts>>

\* The coroutine of the other two starts a transfer or a thread.
StartWrite(j) ==
    /\ Turn(j) /\ ~Kind("static")
    /\ flying' = flying \cup {j}
    /\ UNCHANGED <<mode, page, pc, mine, want, held, progress, static, files, history>>

Written(j) ==
    [k \in DOMAIN store \cup KeysOf(j) |->
        IF k \in KeysOf(j) THEN Contents(j)[k] ELSE store[k]]
Remembers == Kind("dynamic") /\ mode.presence

\* The transfer is done.  GdsBackend publishes the key and then saves the
\* metadata file in a task of its own.
EndWrite(j) ==
    /\ j \in flying /\ flying' = flying \ {j}
    /\ store' = Written(j)
    /\ progress' = progress \ KeysOf(j)
    /\ presence' = IF Remembers THEN presence \cup KeysOf(j) ELSE presence
    /\ IF Kind("gds") THEN hot' = hot \cup KeysOf(j) /\ saving' = saving \cup KeysOf(j)
       ELSE UNCHANGED <<hot, saving>>
    /\ page' = IF mode.kind \in SubmitRefs THEN RefDown(page, mine[j]) ELSE page
    /\ UNCHANGED <<mode, pc, mine, want, held, queue, static, metas, history>>

\* The transfer fails: the keys stay in progress; GdsBackend keeps its
\* reference too.
FailWrite(j) ==
    /\ j \in flying /\ "err" \in mode.may /\ flying' = flying \ {j}
    /\ broken' = broken \cup {j}
    /\ IF Kind("dynamic") /\ mode.async
       THEN page' = RefDown(page, mine[j]) /\ UNCHANGED lost
       ELSE lost' = (IF Kind("gds") THEN lost + Cardinality(KeysOf(j)) ELSE lost) /\ UNCHANGED page
    /\ UNCHANGED <<mode, pc, mine, want, held, queue, progress, static, files, wrong, reused,
                   restarts>>

SaveMetadata(k) ==
    /\ k \in saving /\ saving' = saving \ {k}
    /\ metas' = metas \cup {k}
    /\ UNCHANGED <<mode, page, pc, mine, want, held, queue, flying, progress, static, store,
                   presence, hot, history>>

-----------------------------------------------------------------------------
(* Gets: contains with pin, the read, the use, unpin.                       *)

\* contains.  GdsBackend looks for a metadata file; the presence cache answers
\* for the object store; a key being written is not there yet (dynamic).
HasKey(k) ==
    CASE Kind("static") -> k \in DOMAIN key_dict
      [] Kind("dynamic") -> k \notin progress /\ (k \in presence \/ k \in DOMAIN store)
      [] Kind("gds") -> k \in hot \/ k \in metas
Found(j) ==
    {Batch(j)[i] : i \in {i \in DOMAIN Batch(j) : \A h \in 1..i : HasKey(Batch(j)[h])}}
Lookup(j) ==
    LET ks == Found(j)
    IN  /\ pc[j] = "new" /\ Op(j) = "get"
        /\ want' = Set(want, j, ks)
        /\ IF Kind("static")
           THEN pins' = [k \in Keys |-> IF k \in ks THEN pins[k] + 1 ELSE pins[k]]
           ELSE UNCHANGED pins
        /\ hot' = IF Kind("gds") THEN hot \cup ks ELSE hot
        /\ presence' = IF Remembers THEN presence \cup (ks \cap DOMAIN store) ELSE presence
        /\ IF ks = {} THEN pc' = Set(pc, j, "done") /\ UNCHANGED queue
           ELSE /\ pc' = Set(pc, j, "read")
                /\ queue' = IF Kind("static") THEN Append(queue, j) ELSE queue
        /\ UNCHANGED <<mode, page, mine, held, flying, progress, key_dict, pool, desc, store,
                       metas, saving, history>>

\* Of the keys, those that are still there; the allocation of their pages.
ReadContent(k) == IF Kind("static") THEN desc[key_dict[k]] ELSE store[k]
Present(j) == {k \in want[j] :
    CASE Kind("static") -> k \in DOMAIN key_dict
      [] Kind("dynamic") -> TRUE
      [] Kind("gds") -> k \in hot}
Reading(j) == pc[j] = "read" /\ IF Kind("static") THEN Turn(j) ELSE UNCHANGED queue
Fits(j) == Cardinality(FreePages) >= Cardinality(Present(j))

\* The transfer fills one page per key.
Read(j) ==
    LET ks == Present(j)
        got == Alloc(page, [k \in ks |-> ReadContent(k)])
    IN  /\ Reading(j) /\ Fits(j)
        /\ Kind("static") \/ ks \subseteq DOMAIN store
        /\ page' = got.buf /\ mine' = Set(mine, j, got.pages) /\ want' = Set(want, j, ks)
        /\ reused' = (reused \/ Reuses(got.pages))
        /\ wrong' = (wrong \/ \E k \in ks : ReadContent(k) # k)
        /\ presence' = IF Remembers THEN presence \cup ks ELSE presence
        /\ pc' = Set(pc, j, "use")
        /\ UNCHANGED <<mode, held, flying, progress, static, store, metas, saving, hot,
                       broken, lost, restarts>>

\* The keys that get the pages there are: the first ones.
FirstOf(j) == {ks \in kSubset(Cardinality(FreePages), Present(j)) :
    \A i \in DOMAIN Batch(j) : \A h \in 1..(i - 1) :
        Batch(j)[i] \in ks /\ Batch(j)[h] \in Present(j) => Batch(j)[h] \in ks}
\* No page for a chunk: the static backend fails an assertion and keeps the
\* pages it has; the dynamic one frees them; GdsBackend loads what fits.
ReadNoPage(j) ==
    /\ Reading(j) /\ ~Fits(j)
    /\ \E ks \in FirstOf(j) :
          CASE Kind("static") ->
                 LET got == Alloc(page, [k \in ks |-> "junk"])
                 IN  /\ page' = got.buf /\ lost' = lost + Cardinality(ks)
                     /\ reused' = (reused \/ Reuses(got.pages))
                     /\ mine' = Set(mine, j, None) /\ UNCHANGED <<want, wrong>>
            [] Kind("dynamic") ->
                 mine' = Set(mine, j, None) /\ UNCHANGED <<page, want, wrong, lost, reused>>
            [] Kind("gds") ->
                 LET got == Alloc(page, [k \in ks |-> store[k]])
                 IN  /\ ks \subseteq DOMAIN store
                     /\ page' = got.buf /\ mine' = Set(mine, j, got.pages)
                     /\ wrong' = (wrong \/ \E k \in ks : store[k] # k)
                     /\ reused' = (reused \/ Reuses(got.pages))
                     /\ want' = Set(want, j, ks) /\ UNCHANGED lost
    /\ pc' = Set(pc, j, "use")
    /\ UNCHANGED <<mode, held, flying, progress, static, files, broken, restarts>>

Missing(ks) == ~Kind("static") /\ ~(ks \subseteq DOMAIN store)
\* The transfer ends in ERR, or GdsBackend cannot open a file: the exception
\* takes the pages with it.
ReadRaises(j) ==
    LET got == Alloc(page, [k \in Present(j) |-> "junk"])
    IN  /\ Reading(j) /\ Fits(j) /\ Present(j) # {}
        /\ IF Kind("gds") THEN Missing(Present(j)) ELSE "err" \in mode.may
        /\ page' = got.buf /\ lost' = lost + Cardinality(Present(j))
        /\ reused' = (reused \/ Reuses(got.pages))
        /\ mine' = Set(mine, j, None) /\ pc' = Set(pc, j, "use")
        /\ UNCHANGED <<mode, want, held, flying, progress, static, files, wrong, broken, restarts>>
\* The agent of the dynamic backend raises nixlBackendError: the pages are
\* freed and the presence cache forgets the keys.
ReadRejected(j) ==
    /\ Kind("dynamic") /\ Reading(j) /\ Fits(j)
    /\ "err" \in mode.may \/ Missing(want[j])
    /\ presence' = presence \ want[j]
    /\ mine' = Set(mine, j, None) /\ pc' = Set(pc, j, "use")
    /\ UNCHANGED <<mode, page, want, held, flying, progress, static, store, metas, saving, hot,
                   history>>
\* Some reads of GdsBackend return less than the size: their pages are freed,
\* and a key whose read failed leaves hot_cache (its metadata file brings it
\* back).
ReadPartly(j) ==
    /\ Kind("gds") /\ Reading(j) /\ Fits(j) /\ "err" \in mode.may /\ ~Missing(Present(j))
    /\ \E bad \in SUBSET Present(j) \ {{}} : \E failed \in SUBSET bad :
          LET ks == Present(j) \ bad
              got == Alloc(page, [k \in ks |-> store[k]])
          IN  /\ hot' = hot \ failed
              /\ page' = got.buf /\ mine' = Set(mine, j, got.pages) /\ want' = Set(want, j, ks)
              /\ wrong' = (wrong \/ \E k \in ks : store[k] # k)
    /\ pc' = Set(pc, j, "use")
    /\ UNCHANGED <<mode, held, flying, progress, static, store, metas, saving, presence, reused,
                   broken, lost, restarts>>

\* The engine copies the pages to the GPU, drops them, and unpins.
Use(j) ==
    /\ pc[j] = "use"
    /\ page' = RefDown(page, mine[j])
    /\ pc' = Set(pc, j, "done")
    /\ IF Kind("static")
       THEN pins' = [k \in Keys |-> IF k \in want[j] /\ k \in DOMAIN key_dict
                                    THEN pins[k] - 1 ELSE pins[k]]
       ELSE UNCHANGED pins
    /\ UNCHANGED <<mode, mine, want, held, queue, flying, progress, key_dict, pool, desc,
                   files, history>>

-----------------------------------------------------------------------------
(* Faults.                                                                  *)

\* The process starts again: only objects and files are left, and
\* _scan_metadata reads those of GdsBackend; the pool is opened anew.
Restart ==
    /\ "crash" \in mode.may /\ restarts = 0 /\ restarts' = 1
    /\ page' = [p \in Pages |-> Free]
    /\ pc' = [j \in Jobs |-> IF pc[j] = "new" THEN "new" ELSE "done"]
    /\ mine' = [j \in Jobs |-> None] /\ want' = [j \in Jobs |-> {}]
    /\ held' = {} /\ queue' = <<>> /\ flying' = {}
    /\ progress' = {} /\ saving' = {} /\ presence' = {} /\ hot' = {}
    /\ key_dict' = None /\ pins' = [k \in Keys |-> 0]
    /\ pool' = 1..mode.pool /\ desc' = [i \in 1..mode.pool |-> "junk"]
    /\ wrong' = FALSE /\ reused' = FALSE /\ broken' = {} /\ lost' = 0
    /\ UNCHANGED <<mode, store, metas>>
ScanMetadata(k) ==
    /\ Kind("gds") /\ restarts = 1 /\ k \in metas /\ k \notin hot
    /\ hot' = hot \cup {k}
    /\ UNCHANGED <<mode, page, pc, mine, want, held, queue, flying, progress, static, store,
                   metas, saving, presence, history>>
Drop(k) ==
    /\ "drop" \in mode.may /\ k \in DOMAIN store
    /\ store' = Restrict(store, DOMAIN store \ {k})
    /\ UNCHANGED <<mode, page, pc, mine, want, held, queue, flying, progress, static, metas,
                   saving, presence, hot, history>>

Step(j) ==
    \/ NoPage(j) \/ SubmitPut(j) \/ Release(j) \/ PutEnds(j) \/ StaticWrite(j) \/ StartWrite(j)
    \/ EndWrite(j) \/ FailWrite(j) \/ Lookup(j) \/ Read(j) \/ ReadNoPage(j) \/ ReadRaises(j)
    \/ ReadRejected(j) \/ ReadPartly(j) \/ Use(j)
Next ==
    \/ \E j \in Jobs : Step(j)
    \/ \E k \in Keys : SaveMetadata(k) \/ ScanMetadata(k) \/ Drop(k)
    \/ Restart
Spec == Init /\ [][Next]_vars
\* The event loop, its threads, the agent and the engine all go on.
FairSpec == Spec /\ WF_vars(\E j \in Jobs : Step(j))

-----------------------------------------------------------------------------
(* Properties.                                                              *)

Quiet == \A j \in Jobs : pc[j] = "done"
\* A get returns the content of the key it asked for, and a metadata file never
\* comes before its data file.  Known exceptions are the static pool: its puts
\* hold no reference, so that a page can be given out again before the
\* coroutine reads it, and a put that raises leaves keys without content.
GotRight ==
    /\ wrong => Kind("static") /\ (reused \/ broken # {})
    /\ "drop" \notin mode.may => metas \subseteq DOMAIN store

\* When all is quiet every page is free, every descriptor is in the pool or
\* names one key, no key is in progress and none is pinned: whatever batches
\* were interleaved, unless an operation raised.
NothingLeaked ==
    Quiet /\ broken = {} /\ lost = 0 =>
        /\ FreePages = Pages
        /\ progress = {}
        /\ \A k \in DOMAIN key_dict : pins[k] = 0
        /\ Cardinality(pool) + Cardinality(DOMAIN key_dict) = mode.pool
        /\ pool \cup Range(key_dict) = 1..mode.pool

\* The pages and descriptors as a whole.
DirectSafe == GotRight /\ NothingLeaked

\* Every put and every get ends.
AllEnd == []<>Quiet
=============================================================================
