------------------------------ MODULE MCStorage ------------------------------
(* The storage backends behind the hot cache: the remote backend with its    *)
(* connectors, the local disk, and the NIXL and GDS backends.  A behaviour   *)
(* is one of one part; the state of the others stays as it is.               *)
EXTENDS RemoteConnectors

CONSTANTS
    Parts,                                      \* which of them to run
    k1, k2, k3, p1, p2, g1, g2, f1,
    DiskKeys, Puts, Gets, Prefetches, Disks,    \* of LocalDiskBackend
    DirectKeys, Directs                         \* of DirectStorage

VARIABLES
    part,
    disk, dict, pinCount, file, cacheSize, diskPuts, putting, getting, prefetch, lock, leaked,
    badRead,
    direct, page, pc, mine, want, held, queue, flying, progress, key_dict, pins, pool, desc,
    objects, metas, saving, presence, hot, wrong, reused, broken, lost, restarts

diskVars == <<disk, dict, pinCount, file, cacheSize, diskPuts, putting, getting, prefetch, lock,
              leaked, badRead>>
directVars == <<direct, page, pc, mine, want, held, queue, flying, progress, key_dict, pins, pool,
                desc, objects, metas, saving, presence, hot, wrong, reused, broken, lost, restarts>>

LD == INSTANCE LocalDiskBackend WITH
        Keys <- DiskKeys, Modes <- Disks, mode <- disk, putTasks <- diskPuts,
        put <- putting, get <- getting
DS == INSTANCE DirectStorage WITH
        Keys <- DirectKeys, Modes <- Directs, mode <- direct, store <- objects

ASSUME DiskAssumption ==
    /\ Disks \subseteq LD!ModeType
    /\ IsFiniteSet(Puts) /\ IsFiniteSet(Gets) /\ IsFiniteSet(Prefetches)
ASSUME DirectAssumption == Directs \subseteq DS!ModeType

MCInit ==
    /\ part \in Parts
    /\ (IF part = "remote" THEN TRUE ELSE mode = CHOOSE m \in Modes : TRUE) /\ Init
    /\ (IF part = "disk" THEN TRUE ELSE disk = CHOOSE m \in Disks : TRUE) /\ LD!Init
    /\ (IF part = "direct" THEN TRUE ELSE direct = CHOOSE m \in Directs : TRUE) /\ DS!Init
Remote(A) == part = "remote" /\ A /\ UNCHANGED <<part, diskVars, directVars>>
Disk(A) == part = "disk" /\ A /\ UNCHANGED <<part, vars, directVars>>
Direct(A) == part = "direct" /\ A /\ UNCHANGED <<part, vars, diskVars>>
MCVars == <<part, vars, diskVars, directVars>>
MCSpec == MCInit /\ [][Remote(Next) \/ Disk(LD!Next) \/ Direct(DS!Next)]_MCVars

\* The fairness of RemoteConnectors, LocalDiskBackend and DirectStorage.
MCFairSpec ==
    /\ MCSpec
    /\ WF_MCVars(Remote(Scheduled /\ Track) \/ Direct(\E j \in DS!Jobs : DS!Step(j)))
    /\ \A p \in Puts : WF_MCVars(Disk(LD!PutStep(p)))
    /\ \A g \in Gets : WF_MCVars(Disk(LD!GetStep(g)))
    /\ \A f \in Prefetches : WF_MCVars(Disk(LD!PrefetchStep(f)))

Base == [kind |-> "redis", bufs |-> 2, held |-> 0, meta |-> TRUE, via |-> "prefetch", puts |-> {},
         had |-> {1, 2}, workers |-> 2, others |-> 0, may |-> {}]
Both == {<<"us", 1>>, <<"us", 2>>, <<"peer", 1>>}

\* Every connector, loading by prefetch or batched get: an eviction, against a put
\* by the other engine; a failing request, against a put of its own.
FaultModes ==
    {[Base EXCEPT !.kind = x, !.via = v, !.puts = {<<"peer", 1>>}, !.may = {"drop"}] :
        x \in Kinds, v \in {"prefetch", "blocking"}}
    \cup {[Base EXCEPT !.kind = x, !.via = v, !.puts = {<<"us", 1>>}, !.may = {"error"}] :
        x \in Kinds, v \in {"prefetch", "blocking"}}
\* Two writers of one chunk, two chunks in a batch, little memory.
WriterModes ==
    {[Base EXCEPT !.kind = x, !.puts = Both, !.had = {}] :
        x \in {"redis", "valkey", "eic", "fs", "s3", "sagemaker"}}
    \cup {[Base EXCEPT !.kind = "fs", !.puts = {<<"us", 1>>, <<"peer", 1>>}, !.may = {x}] :
        x \in {"remove", "error"}}
\* An earlier load holds one or both buffers that this one needs.
HeldModes ==
    {[Base EXCEPT !.kind = x, !.held = h, !.via = v, !.may = {"timeout"}] :
        x \in {"fs", "infinistore", "valkey"}, h \in {1, 2}, v \in {"prefetch", "blocking"}}
    \cup {[Base EXCEPT !.kind = "redis", !.held = 1, !.bufs = 3, !.puts = {<<"us", 1>>}]}
    \cup {[Base EXCEPT !.kind = "s3", !.held = 1, !.via = "blocking"]}
\* Timeouts; lookups that fill HyperPod's executor; an MLA worker; enough failures
\* for S3 to disable itself.
TimeoutModes ==
    {[Base EXCEPT !.kind = x, !.puts = {<<"us", 1>>}, !.may = {"timeout"}, !.bufs = b] :
        x \in {"valkey", "fs", "infinistore", "lm", "sagemaker", "mooncake"}, b \in {1, 2}}
    \cup {[Base EXCEPT !.kind = "sagemaker", !.may = {"timeout"}, !.others = 2, !.via = v] :
        v \in {"prefetch", "blocking"}}
    \cup {[Base EXCEPT !.kind = "redis", !.may = {"mla"}]}
    \cup {[Base EXCEPT !.kind = "s3", !.may = {"error"}, !.puts = {<<"us", 1>>, <<"us", 2>>}]}
    \cup {[Base EXCEPT !.kind = "mooncake", !.may = {"timeout"}, !.puts = {<<"us", 1>>, <<"us", 2>>},
            !.had = {}, !.via = "blocking", !.bufs = 1]}
AllModes == FaultModes \cup WriterModes \cup HeldModes \cup TimeoutModes

\* Two puts, a get and a prefetch of two chunks on a disk that is too small.
Busy == [keys |-> {k1, k2, k3}, puts |-> {p1, p2}, gets |-> {g1}, prefetches |-> {f1},
         requests |-> {<<k1, k2>>}, maxCacheSize |-> 2, buffers |-> 3, workers |-> 2,
         maxPins |-> 1, reput |-> FALSE, many |-> FALSE, remove |-> FALSE]

\* Also two synchronous gets; all races on a disk with room for one chunk; and
\* buffers so few that a prefetch has to wait, for two chunks or for one.
SafeDisks == {
    Busy,
    [Busy EXCEPT !.keys = {k1, k2}, !.maxCacheSize = 1, !.gets = {g1, g2}, !.prefetches = {}],
    [Busy EXCEPT !.keys = {k1, k2}, !.requests = {<<k1>>}, !.maxCacheSize = 1,
                 !.reput = TRUE, !.many = TRUE, !.remove = TRUE],
    [Busy EXCEPT !.keys = {k1, k2}, !.puts = {p1}, !.gets = {g1, g2}, !.requests = {<<k1>>},
                 !.maxPins = 2],
    [Busy EXCEPT !.keys = {k1, k2}, !.puts = {p1}, !.requests = {<<k1>>}, !.maxCacheSize = 3,
                 !.buffers = 2]}

\* A stored key is stored again.
ReputDisks == {[Busy EXCEPT !.gets = {}, !.prefetches = {}, !.reput = TRUE]}

Put(ks) == [op |-> "put", keys |-> ks]
Get(ks) == [op |-> "get", keys |-> ks]
M(kind, pages, descs, async, pres, todo, faults) ==
    [kind |-> kind, pages |-> pages, pool |-> descs, async |-> async, presence |-> pres,
     jobs |-> todo, may |-> faults]

\* A pool of two descriptors shared by batches that overlap; a buffer of two
\* pages; objects deleted by others; files and a restart.
AllDirects ==
    {M("static", 4, 2, FALSE, FALSE, <<Put(<<"a", "b">>), Put(<<"c">>), Get(<<"a", "b">>)>>, {}),
     M("static", 2, 3, FALSE, FALSE, <<Put(<<"a">>), Put(<<"b">>), Get(<<"a">>)>>, {"err"}),
     M("static", 3, 3, FALSE, FALSE, <<Put(<<"a", "b">>), Put(<<"c", "b">>), Get(<<"c">>)>>, {}),
     M("dynamic", 3, 0, TRUE, TRUE, <<Put(<<"a", "b">>), Put(<<"a">>), Get(<<"a", "b">>)>>, {"err"}),
     M("dynamic", 2, 0, FALSE, TRUE, <<Put(<<"a">>), Get(<<"a", "b">>), Get(<<"a">>)>>, {"drop", "err"}),
     M("dynamic", 3, 0, TRUE, FALSE, <<Put(<<"a">>), Put(<<"b">>), Get(<<"a", "b">>)>>, {}),
     M("gds", 3, 0, FALSE, FALSE, <<Put(<<"a">>), Put(<<"a">>), Get(<<"a">>)>>, {"crash"}),
     M("gds", 2, 0, FALSE, FALSE, <<Put(<<"a">>), Put(<<"b">>), Get(<<"a", "b">>)>>, {"drop", "err"})}
-----------------------------------------------------------------------------
(* Properties.                                                               *)

\* local_disk_backend.py: every key of the dictionary has its whole file, so
\* that a hit loads the chunk and an eviction finds what it unlinks.
FileBacked == LD!FileBacked

\* local_disk_backend.py: a hit is backed by its file, a pinned chunk is read
\* whole and pins are given back, with puts, gets, prefetches and evictions of
\* the same keys under way.
ChunksBacked == LD!ChunksBacked

\* current_cache_size counts what is on disk or on its way there, and the files
\* never exceed max_cache_size.
BudgetKept == LD!BudgetKept

\* A prefetch that busy-waits for a buffer on the event loop gets it.
PrefetchReturns == LD!PrefetchReturns

\* nixl_storage_backend.py, gds_backend.py: a get returns what was put under its
\* key, and pages, descriptors and pins are given back.
DirectSafe == DS!DirectSafe

\* Every put and get of the NIXL and GDS backends ends.
DirectEnds == []<>(part # "direct" \/ DS!Quiet)
=============================================================================
