--------------------------- MODULE VLLMConnector ---------------------------
(***************************************************************************)
(* The vLLM connector over the cache engine: a scheduler that looks up and *)
(* pins the chunks of a request, trackers that turn scheduler outputs into *)
(* load and save work, and a worker that retrieves chunks into the paged   *)
(* KV cache before the forward pass and stores new chunks after it.        *)
(* The vLLM scheduler itself (prefix cache, preemption, recomputation of   *)
(* blocks reported as invalid) is external and modelled as it calls these. *)
(***************************************************************************)
EXTENDS Integers, Sequences, FiniteSets, SequencesExt, FiniteSetsExt, Functions

CONSTANT Modes   \* configurations and bounds, as described at ModeType

\* C: chunk_size; B: block size; plen, total: tokens of each prompt, and of the
\* finished request; share: tokens all prompts begin with; budget: tokens of a
\* request per step; partial: save_unfull_chunk; decode: save_decode_cache;
\* layer: use_layerwise; warm: vLLM prefix cache hits; bumps: bound of the
\* preemptions and failed block allocations; cap: chunks the store holds.
ModeType ==
    [C: Nat \ {0}, B: Nat \ {0}, plen: Seq(Nat \ {0}), total: Seq(Nat), share: Nat,
     budget: Nat \ {0}, role: {"kv_both", "kv_producer", "kv_consumer"},
     partial: BOOLEAN, decode: BOOLEAN, layer: BOOLEAN, warm: SUBSET Nat,
     bumps: Nat, cap: Nat,
     may: SUBSET {"fail", "evict", "force", "sick", "freeze", "abort", "late"}]

ASSUME VLLMAssumption == Modes \subseteq ModeType

VARIABLES
    mode,
    \* The vLLM scheduler: state of a request, its tokens, how many are
    \* computed, which set of blocks it has, and whether each computed token's
    \* KV in those blocks is right.
    st, ntok, comp, epoch, kv,
    bumps,
    batch,       \* requests of this step: [r, n, kind]
    fin,         \* finished requests not told to the connector yet
    \* The connector, scheduler side.
    status,      \* reqs_status of the lookup client; -1: none
    spec,        \* load_specs: [v, l, can]
    trk,         \* _request_trackers
    \* The worker side.
    phase, at, meta, invalid,
    \* The cache engine: chunks with whether their content is right and their
    \* pin count; lookup_pins; lookups answered after the client gave up.
    cache, pinned, pend, sick, frozen,
    crashed,     \* "no", or where the engine has raised
    \* History: a load missed chunks; a lookup
    \* timed out; a waiting request was aborted.
    lost, late, aborted

vllm == <<st, ntok, comp, epoch, kv, bumps, batch, fin>>
sched == <<status, spec, trk>>
worker == <<phase, at, meta, invalid>>
engine == <<cache, pinned, pend>>
health == <<sick, frozen>>
history == <<lost, late, aborted>>
vars == <<mode, vllm, sched, worker, engine, health, crashed, history>>

C == mode.C
B == mode.B
Reqs == 1..Len(mode.plen)
NoSpec == [v |-> 0, l |-> -1, can |-> FALSE]
NoTracker == [len |-> -1, good |-> 0, saved |-> 0, blk |-> <<>>, dec |-> FALSE]
CeilDiv(a, b) == (a + b - 1) \div b
Floor(n) == (n \div C) * C
Lower(a, b) == IF a < b THEN a ELSE b
Upper(a, b) == IF a < b THEN b ELSE a
Running == crashed = "no"
Sched == Running /\ phase = "sched"

Init ==
    /\ mode \in Modes
    /\ st = [r \in Reqs |-> "waiting"]
    /\ ntok = mode.plen
    /\ comp = [r \in Reqs |-> 0] /\ epoch = [r \in Reqs |-> 0]
    /\ kv = [r \in Reqs |-> <<>>]
    /\ bumps = 0 /\ batch = <<>> /\ fin = {}
    /\ status = [r \in Reqs |-> -1]
    /\ spec = [r \in Reqs |-> NoSpec]
    /\ trk = [r \in Reqs |-> NoTracker]
    /\ phase = "sched" /\ at = 1 /\ meta = <<>> /\ invalid = [r \in Reqs |-> {}]
    /\ cache = [k \in {} |-> 0] /\ pinned = [r \in Reqs |-> <<>>] /\ pend = {}
    /\ sick = FALSE /\ frozen = FALSE /\ crashed = "no"
    /\ lost = FALSE /\ late = FALSE /\ aborted = FALSE

-----------------------------------------------------------------------------
(* TokenDatabase.process_tokens.                                            *)

\* A chunk's key is a hash of every token up to its end: shared prefixes have
\* one key, and tokens in another order (good = FALSE) have another.
Key(r, e, good) ==
    [who |-> IF good /\ e <= mode.share THEN 0 ELSE r, end |-> e, good |-> good]

\* The chunks of n tokens from the given one on, as starts and ends.
ProcessTokens(n, falses) ==
    LET count == IF mode.partial THEN CeilDiv(n, C) ELSE n \div C
    IN  [i \in 1..Upper(0, count - falses \div C) |->
            LET k == falses \div C + i
            IN  [s |-> (k - 1) * C, e |-> Lower(k * C, n)]]

\* The chunks before the first the store does not hold.
HitPrefix(r, chunks) ==
    LET miss == SelectInSeq(chunks, LAMBDA c : Key(r, c.e, TRUE) \notin DOMAIN cache)
    IN  IF miss = 0 THEN chunks ELSE SubSeq(chunks, 1, miss - 1)
HitEnd(hits) == IF hits = <<>> THEN 0 ELSE Last(hits).e
KeysOf(r, chunks) == [i \in DOMAIN chunks |-> Key(r, chunks[i].e, TRUE)]

-----------------------------------------------------------------------------
(* LMCacheEngine.lookup with pin, behind the lookup client and server.      *)

Pin(keys) ==
    [k \in DOMAIN cache |-> IF k \in ToSet(keys) THEN [cache[k] EXCEPT !.pins = @ + 1]
                                                  ELSE cache[k]]
\* MemoryObj.unpin sets a negative count back to zero.
Unpin(c, keys) ==
    [k \in DOMAIN c |->
        [c[k] EXCEPT !.pins = Upper(0, @ - Cardinality({i \in DOMAIN keys : keys[i] = k}))]]

Found(r) == IF sick THEN <<>> ELSE HitPrefix(r, ProcessTokens(ntok[r], 0))
\* One location: lookup_pins[lookup_id] is replaced; per layer it is extended.
LookupAndPin(r) ==
    LET keys == KeysOf(r, Found(r))
    IN  /\ cache' = Pin(keys)
        /\ pinned' = IF keys = <<>> THEN pinned
                     ELSE IF mode.layer THEN [pinned EXCEPT ![r] = @ \o keys]
                     ELSE [pinned EXCEPT ![r] = keys]

\* The server answers a lookup whose client has timed out.
LateLookup(r) ==
    /\ Running /\ r \in pend
    /\ pend' = pend \ {r}
    /\ LookupAndPin(r)
    /\ UNCHANGED <<mode, vllm, sched, worker, health, crashed, history>>

\* The answer kept from an earlier try, a lookup, or one that times out.
Ask(r, how) ==
    \/ how = "kept" /\ status[r] # -1 /\ UNCHANGED <<cache, pinned, pend, late>>
    \/ how = "asked" /\ status[r] = -1 /\ LookupAndPin(r) /\ UNCHANGED <<pend, late>>
    \/ /\ how = "late" /\ status[r] = -1 /\ "late" \in mode.may /\ r \notin pend
       /\ pend' = pend \cup {r} /\ late' = TRUE
       /\ UNCHANGED <<cache, pinned>>
Matched(r, how) == CASE how = "kept" -> status[r]
                     [] how = "asked" -> HitEnd(Found(r))
                     [] how = "late" -> 0

\* Mutant: a full hit leaves no token to compute.
NumExternalAll(r, l, v) == Upper(0, l - v)
\* A full hit leaves the last token to vLLM, for its logits.
NumExternal(r, l, v) == Upper(0, IF l = ntok[r] THEN l - v - 1 ELSE l - v)

-----------------------------------------------------------------------------
(* The scheduler.                                                           *)

InBatch(r) == \E i \in DOMAIN batch : batch[i].r = r
Item(r, n, kind) == [r |-> r, n |-> n, kind |-> kind]

\* get_num_new_matched_tokens, the allocation of blocks, update_state_after_alloc.
ScheduleWaiting(r, v, how) ==
    LET l == Matched(r, how)
        ext == NumExternal(r, l, v)
        n == Lower(mode.budget, ntok[r] - v - ext)
    IN  /\ Sched /\ st[r] = "waiting" /\ v \in mode.warm /\ v < ntok[r] /\ n > 0
        /\ Ask(r, how)
        /\ status' = [status EXCEPT ![r] = -1]
        /\ spec' = [spec EXCEPT ![r] = [v |-> v, l |-> l, can |-> ext # 0]]
        /\ st' = [st EXCEPT ![r] = "running"]
        /\ comp' = [comp EXCEPT ![r] = v + ext]
        /\ epoch' = [epoch EXCEPT ![r] = @ + 1]
        /\ kv' = [kv EXCEPT ![r] = [i \in 1..(v + ext) |-> i <= v]]
        /\ batch' = Append(batch, Item(r, n, IF epoch[r] = 0 THEN "new" ELSE "resumed"))
        /\ UNCHANGED <<mode, ntok, bumps, fin, trk, worker, health, crashed,
                       lost, aborted>>

\* The same, without room for the blocks: the request goes on waiting, and the
\* client keeps the answer, unless the lookup has timed out.
ScheduleFails(r, v, how) ==
    LET l == Matched(r, how)
    IN  /\ Sched /\ st[r] = "waiting" /\ v \in mode.warm /\ v < ntok[r]
        /\ bumps < mode.bumps /\ bumps' = bumps + 1
        /\ Ask(r, how)
        /\ status' = IF how = "asked" THEN [status EXCEPT ![r] = l] ELSE status
        /\ spec' = [spec EXCEPT ![r] = [v |-> v, l |-> l, can |-> FALSE]]
        /\ UNCHANGED <<mode, st, ntok, comp, epoch, kv, batch, fin, trk, worker, health,
                       crashed, lost, aborted>>

ScheduleRunning(r) ==
    /\ Sched /\ st[r] = "running" /\ ~InBatch(r)
    /\ batch' = Append(batch, Item(r, Lower(mode.budget, ntok[r] - comp[r]), "run"))
    /\ UNCHANGED <<mode, st, ntok, comp, epoch, kv, bumps, fin, sched, worker, engine,
                   health, crashed, history>>

\* The blocks of a running request are taken away.
Preempt(r) ==
    /\ Sched /\ st[r] = "running" /\ ~InBatch(r)
    /\ bumps < mode.bumps /\ bumps' = bumps + 1
    /\ st' = [st EXCEPT ![r] = "waiting"]
    /\ comp' = [comp EXCEPT ![r] = 0]
    /\ kv' = [kv EXCEPT ![r] = <<>>]
    /\ UNCHANGED <<mode, ntok, epoch, batch, fin, sched, worker, engine, health, crashed,
                   history>>

\* request_finished of an aborted request: without async loading the connector
\* does nothing, and of a waiting request it keeps pins, answer and load spec.
Abort(r) ==
    /\ Sched /\ "abort" \in mode.may /\ st[r] # "done" /\ ~InBatch(r)
    /\ st' = [st EXCEPT ![r] = "done"]
    /\ fin' = fin \cup {r}
    /\ aborted' = (aborted \/ st[r] = "waiting")
    /\ UNCHANGED <<mode, ntok, comp, epoch, kv, bumps, batch, sched, worker, engine,
                   health, crashed, lost, late>>

-----------------------------------------------------------------------------
(* build_connector_meta: the trackers, and what the worker has to do.       *)

NumBlocks(b) == CeilDiv(comp[b.r] + b.n, B)
Fresh(b, count) == [i \in 1..count |-> epoch[b.r]]

\* RequestTracker.from_new_request
FromNewRequest(b) ==
    [len |-> comp[b.r] + b.n, good |-> comp[b.r] + b.n, saved |-> Upper(0, spec[b.r].l),
     blk |-> Fresh(b, NumBlocks(b)), dec |-> FALSE]

\* RequestTracker.update of a running request: the new tokens are appended,
\* also when vLLM has gone back to recompute some.
Extend(t, b) ==
    [t EXCEPT !.len = @ + b.n,
              !.good = IF t.len = comp[b.r] /\ t.good = t.len THEN @ + b.n ELSE @,
              !.blk = @ \o Fresh(b, NumBlocks(b) - Len(t.blk)),
              !.dec = @ \/ b.n = 1]

\* Mutant: a preempted request keeps the blocks it had.
ReplaceKeepsBlocks(t, b) ==
    LET sp == spec[b.r]
        len == Lower(Upper(Upper(sp.l, sp.v) + b.n, sp.l), ntok[b.r])
    IN  [t EXCEPT !.len = len, !.good = len, !.saved = sp.l, !.dec = @ \/ b.n = 1,
                  !.blk = @ \o Fresh(b, NumBlocks(b) - Len(t.blk))]
\* RequestTracker.update of a preempted request.
Replace(t, b) ==
    LET sp == spec[b.r]
        len == Lower(Upper(Upper(sp.l, sp.v) + b.n, sp.l), ntok[b.r])
    IN  [len |-> len, good |-> len, saved |-> sp.l, blk |-> Fresh(b, NumBlocks(b)),
         dec |-> t.dec \/ b.n = 1]

Tracked(b) ==
    CASE b.kind = "new" -> FromNewRequest(b)
      [] b.kind = "run" -> Extend(trk[b.r], b)
      [] b.kind = "resumed" -> Replace(trk[b.r], b)

\* from_request_tracker: whether to save, and the tokens to save.
SkipSave(t) ==
    \/ mode.role = "kv_consumer"
    \/ t.saved > 0 /\ t.len < CeilDiv(t.saved + 1, C) * C
    \/ t.dec /\ ~mode.decode
LastPrefill(r, t) == t.len >= mode.plen[r]
ToSave(r, t) == IF LastPrefill(r, t) /\ mode.partial THEN t.len ELSE Floor(t.len)
FromRequestTracker(r, t, sp) ==
    [r |-> r, n |-> ToSave(r, t), good |-> t.good, last |-> LastPrefill(r, t),
     skip |-> t.saved, can |-> ~SkipSave(t), blk |-> t.blk,
     load |-> IF sp.can THEN sp ELSE NoSpec]
\* Nothing is sent of a request with nothing to save and no load spec.
HasMeta(t, sp) == ~SkipSave(t) \/ sp # NoSpec
AfterMeta(r, t) == IF SkipSave(t) THEN t ELSE [t EXCEPT !.saved = ToSave(r, t)]

\* The assertion on a preempted request.
ResumedWrong(b) ==
    b.kind = "resumed" /\ comp[b.r] # Upper(spec[b.r].l, spec[b.r].v)

BuildConnectorMeta ==
    LET told(b) == HasMeta(Tracked(b), spec[b.r])
        of(r) == CHOOSE b \in ToSet(batch) : b.r = r
    IN  /\ Sched /\ (batch # <<>> \/ fin # {})
        /\ fin' = {}
        /\ crashed' = IF \E i \in DOMAIN batch : ResumedWrong(batch[i]) THEN "resume" ELSE "no"
        /\ trk' = [r \in Reqs |-> IF r \in fin THEN NoTracker
                                  ELSE IF InBatch(r) THEN AfterMeta(r, Tracked(of(r)))
                                  ELSE trk[r]]
        /\ spec' = [r \in Reqs |-> IF InBatch(r) THEN NoSpec ELSE spec[r]]
        /\ meta' = LET sent == SelectSeq(batch, told)
                   IN  [i \in DOMAIN sent |->
                           FromRequestTracker(sent[i].r, Tracked(sent[i]), spec[sent[i].r])]
        /\ phase' = "load" /\ at' = 1
        /\ UNCHANGED <<mode, st, ntok, comp, epoch, kv, bumps, batch, status, invalid,
                       engine, health, history>>

-----------------------------------------------------------------------------
(* The worker: start_load_kv, the forward pass, wait_for_save.              *)

Loading == Running /\ phase = "load" /\ at <= Len(meta)
Saving == Running /\ phase = "save" /\ at <= Len(meta)
\* A token list longer than the slots of the tracked blocks fails an assertion.
SlotsMissing(m) == m.n > Len(m.blk) * B
Slot(m, i) == m.blk[(i - 1) \div B + 1] = epoch[m.r]
TokensOf(chunks) == UNION {(c.s + 1)..c.e : c \in ToSet(chunks)}

\* batched_to_gpu: the slots of the chunks take the chunks' content.
ToGPU(m, chunks) ==
    [kv EXCEPT ![m.r] = [i \in DOMAIN @ |->
        IF i \in TokensOf(chunks) /\ Slot(m, i)
        THEN \E c \in ToSet(chunks) : i \in (c.s + 1)..c.e /\ cache[Key(m.r, c.e, TRUE)].ok
        ELSE @[i]]]

ToLoad(m) == ProcessTokens(Lower(m.load.l, m.n), Floor(m.load.v))
\* record_failed_blocks, if fewer tokens came than vLLM lacks.
FailedBlocks(m, masked) ==
    LET wanted == (Floor(m.load.v) + 1)..m.load.l
    IN  IF Cardinality(masked) < m.load.l - m.load.v
        THEN {(i - 1) \div B : i \in wanted \ masked} ELSE {}

\* _process_tokens_internal: the chunks before the failed one count as
\* retrieved, but the last of them is dropped (end < last_failed_block_start).
StartLoadKV ==
    LET m == meta[at]
        chunks == ToLoad(m)
        here == HitPrefix(m.r, chunks)
    IN  /\ Loading /\ m.load # NoSpec /\ ~mode.layer /\ ~SlotsMissing(m)
        /\ \E got \in IF sick THEN {0}
                      ELSE IF "fail" \in mode.may THEN 0..Len(here) ELSE {Len(here)} :
              LET retrieved == SubSeq(chunks, 1, got)
                  written == IF got = Len(chunks) THEN chunks
                             ELSE SubSeq(chunks, 1, Upper(0, got - 1))
              IN  /\ kv' = ToGPU(m, written)
                  /\ invalid' = [invalid EXCEPT ![m.r] = FailedBlocks(m, TokensOf(retrieved))]
                  /\ lost' = (lost \/ got < Len(chunks))
        /\ at' = at + 1
        /\ UNCHANGED <<mode, st, ntok, comp, epoch, bumps, batch, fin, sched, phase, meta,
                       engine, health, crashed, late, aborted>>

\* retrieve_layer loads what the store still holds and reports nothing; an
\* unhealthy engine, or no chunk at all, ends its generator too early.
StartLoadLayer ==
    LET m == meta[at]
        here == HitPrefix(m.r, ToLoad(m))
    IN  /\ Loading /\ m.load # NoSpec /\ mode.layer /\ ~SlotsMissing(m)
        /\ kv' = ToGPU(m, here)
        /\ crashed' = IF sick \/ here = <<>> THEN "layer" ELSE "no"
        /\ lost' = (lost \/ here # ToLoad(m))
        /\ at' = at + 1
        /\ UNCHANGED <<mode, st, ntok, comp, epoch, bumps, batch, fin, sched, phase, meta,
                       invalid, engine, health, late, aborted>>

NothingToLoad ==
    /\ Loading /\ meta[at].load = NoSpec
    /\ at' = at + 1
    /\ UNCHANGED <<mode, vllm, sched, phase, meta, invalid, engine, health, crashed, history>>

\* The KV of a token is right if the KV of all before it is.
Forward ==
    /\ Running /\ phase = "load" /\ at > Len(meta)
    /\ kv' = [r \in Reqs |->
                 IF ~InBatch(r) THEN kv[r]
                 ELSE LET b == CHOOSE x \in ToSet(batch) : x.r = r
                          right == \A i \in DOMAIN kv[r] : kv[r][i]
                      IN  kv[r] \o [i \in 1..b.n |-> right]]
    /\ phase' = "save" /\ at' = 1
    /\ UNCHANGED <<mode, st, ntok, comp, epoch, bumps, batch, fin, sched, meta, invalid,
                   engine, health, crashed, history>>

\* Whether wait_for_save, or save_kv_layer at its first layer, stores a request.
SkipLeading(m) == IF mode.layer /\ mode.role = "kv_producer" THEN 0 ELSE m.skip
Stores(m) ==
    /\ mode.role # "kv_consumer"
    /\ m.can \/ (mode.role = "kv_producer" /\ ~mode.layer)
    /\ SkipLeading(m) # m.n \/ (mode.layer /\ mode.role = "kv_producer")
ToStore(m) ==
    LET n == IF m.last THEN m.n ELSE Floor(m.n)
        all == ProcessTokens(n, Floor(Lower(SkipLeading(m), n)))
        key(c) == Key(m.r, c.e, c.e <= m.good)
    IN  IF mode.layer THEN SelectSeq(all, LAMBDA c : key(c) \notin DOMAIN cache) ELSE all

Unpinned(c) == {k \in DOMAIN c : c[k].pins = 0}
\* batched_from_gpu
FromGPU(m, c) ==
    \A i \in (c.s + 1)..c.e : i <= Len(kv[m.r]) /\ kv[m.r][i] /\ Slot(m, i)

\* store: allocate, evicting, until nothing can be evicted; then batched_put,
\* which leaves the chunks it holds as they are.
Put(c0, m, chunks) ==
    LET room == Upper(0, mode.cap - Cardinality(DOMAIN c0))
        count == Lower(Len(chunks), room + Cardinality(Unpinned(c0)))
        puts == SubSeq(chunks, 1, count)
        key(c) == Key(m.r, c.e, c.e <= m.good)
    IN  \E victims \in kSubset(Upper(0, count - room), Unpinned(c0)) :
          LET kept == DOMAIN c0 \ victims
          IN  cache' = [k \in kept \cup {key(c) : c \in ToSet(puts)} |->
                  IF k \in kept THEN c0[k]
                  ELSE [ok |-> \E c \in ToSet(puts) : key(c) = k /\ FromGPU(m, c), pins |-> 0]]

\* wait_for_save of one request.
WaitForSave ==
    LET m == meta[at]
        c0 == Unpin(cache, pinned[m.r])
    IN  /\ Saving /\ ~mode.layer /\ mode.role # "kv_consumer"
        /\ ~(Stores(m) /\ SlotsMissing(m))
        /\ pinned' = [pinned EXCEPT ![m.r] = <<>>]
        /\ IF Stores(m) /\ ~sick /\ ~frozen THEN Put(c0, m, ToStore(m)) ELSE cache' = c0
        /\ at' = at + 1
        /\ UNCHANGED <<mode, vllm, sched, phase, meta, invalid, pend, health, crashed, history>>

\* store_layer of one request.  Unhealthy, its generator ends at once; frozen,
\* it ends one step before wait_for_save asks for the last.  The generators of a
\* step's requests advance together and may all find a shared chunk missing and
\* store it (cache_engine.py:589, 671); the later put of the same KV changes
\* nothing, so each request is one step.
SaveLayer ==
    LET m == meta[at]
    IN  /\ Saving /\ mode.layer /\ mode.role # "kv_consumer"
        /\ ~(Stores(m) /\ SlotsMissing(m))
        /\ crashed' = IF Stores(m) /\ (sick \/ frozen) THEN "layer" ELSE "no"
        /\ IF Stores(m) /\ ~sick /\ ~frozen THEN Put(cache, m, ToStore(m)) ELSE UNCHANGED cache
        /\ at' = at + 1
        /\ UNCHANGED <<mode, vllm, sched, phase, meta, invalid, pinned, pend, health, history>>

\* A consumer returns before it unpins.
SaveNothing ==
    /\ Saving /\ mode.role = "kv_consumer"
    /\ at' = at + 1
    /\ UNCHANGED <<mode, vllm, sched, phase, meta, invalid, engine, health, crashed, history>>

\* The assertion on the slot mapping, before a load and before a save.
SlotAssertion ==
    /\ \/ Loading /\ meta[at].load # NoSpec
       \/ Saving /\ Stores(meta[at])
    /\ SlotsMissing(meta[at])
    /\ crashed' = "slots"
    /\ UNCHANGED <<mode, vllm, sched, worker, engine, health, history>>

\* Mutant: the layer-wise path returns without unpinning.
LayersUnpinNone == UNCHANGED <<cache, pinned>>
\* The layer-wise path unpins the requests of the step when all are stored.
LayersUnpin ==
    IF mode.layer /\ mode.role # "kv_consumer"
    THEN LET rs == {meta[i].r : i \in DOMAIN meta}
             keys == FlattenSeq([r \in Reqs |-> IF r \in rs THEN pinned[r] ELSE <<>>])
         IN  /\ cache' = Unpin(cache, keys)
             /\ pinned' = [r \in Reqs |-> IF r \in rs THEN <<>> ELSE pinned[r]]
    ELSE UNCHANGED <<cache, pinned>>

\* vLLM takes the outputs: a request with invalid blocks goes back to the first.
UpdateFromOutput ==
    LET b(r) == CHOOSE x \in ToSet(batch) : x.r = r
        back(r) == InBatch(r) /\ invalid[r] # {}
        to(r) == IF ~InBatch(r) THEN comp[r]
                 ELSE IF back(r) THEN Lower(comp[r], Min(invalid[r]) * B)
                 ELSE comp[r] + b(r).n
        whole(r) == InBatch(r) /\ ~back(r) /\ to(r) = ntok[r]
    IN  /\ Running /\ phase = "save" /\ at > Len(meta)
        /\ LayersUnpin
        /\ comp' = [r \in Reqs |-> to(r)]
        /\ kv' = [r \in Reqs |-> SubSeq(kv[r], 1, to(r))]
        /\ ntok' = [r \in Reqs |-> IF whole(r) /\ ntok[r] < mode.total[r]
                                   THEN ntok[r] + 1 ELSE ntok[r]]
        /\ st' = [r \in Reqs |-> IF whole(r) /\ ntok[r] = mode.total[r] THEN "done" ELSE st[r]]
        /\ fin' = fin \cup {r \in Reqs : whole(r) /\ ntok[r] = mode.total[r]}
        /\ batch' = <<>> /\ meta' = <<>> /\ at' = 1 /\ phase' = "sched"
        /\ invalid' = [r \in Reqs |-> {}]
        /\ UNCHANGED <<mode, epoch, bumps, sched, pend, health, crashed, history>>

-----------------------------------------------------------------------------
(* Other users of the store, and its health.                                *)

Evict(k) ==
    /\ Running /\ k \in DOMAIN cache
    /\ "force" \in mode.may \/ ("evict" \in mode.may /\ cache[k].pins = 0)
    /\ cache' = Restrict(cache, DOMAIN cache \ {k})
    /\ UNCHANGED <<mode, vllm, sched, worker, pinned, pend, health, crashed, history>>

Turn ==
    /\ Running
    /\ \/ "sick" \in mode.may /\ sick' = ~sick /\ UNCHANGED frozen
       \/ "freeze" \in mode.may /\ frozen' = ~frozen /\ UNCHANGED sick
    /\ UNCHANGED <<mode, vllm, sched, worker, engine, crashed, history>>

Schedule ==
    \/ \E r \in Reqs, v \in mode.warm, how \in {"kept", "asked", "late"} :
          ScheduleWaiting(r, v, how)
    \/ \E r \in Reqs : ScheduleRunning(r)
Work ==
    \/ BuildConnectorMeta \/ StartLoadKV \/ StartLoadLayer \/ NothingToLoad \/ Forward
    \/ WaitForSave \/ SaveLayer \/ SaveNothing \/ SlotAssertion \/ UpdateFromOutput
Next ==
    \/ Schedule \/ Work
    \/ \E r \in Reqs, v \in mode.warm, how \in {"kept", "asked", "late"} :
          ScheduleFails(r, v, how)
    \/ \E r \in Reqs : LateLookup(r) \/ Preempt(r) \/ Abort(r)
    \/ \E k \in DOMAIN cache : Evict(k)
    \/ Turn

Spec == Init /\ [][Next]_vars
\* The engine core goes on with its steps.
FairSpec == Spec /\ WF_vars(Schedule \/ Work)

-----------------------------------------------------------------------------
(* Properties.                                                              *)

\* While no load has missed a chunk: the KV of every computed token of a running
\* request is right (start_load_kv has filled what get_num_new_matched_tokens
\* promised), every stored chunk holds the KV of its tokens, and the tracker
\* names exactly the request's tokens and present blocks, preemptions included.
KVRight == \A r \in Reqs : Sched /\ st[r] = "running" /\ ~InBatch(r) =>
               \A i \in DOMAIN kv[r] : kv[r][i]
StoredRight == \A k \in DOMAIN cache : k.good => cache[k].ok
TrackerExact ==
    \A r \in Reqs : Sched /\ st[r] = "running" /\ ~InBatch(r) =>
        /\ trk[r].len = comp[r] /\ trk[r].good = comp[r]
        /\ trk[r].blk = [i \in 1..CeilDiv(comp[r], B) |-> epoch[r]]
ServedRight == ~lost /\ Running => KVRight /\ StoredRight /\ TrackerExact

\* A pin taken by a lookup is held for a request that still waits or is in the
\* step under way: wait_for_save returns all others.  Known exceptions are a
\* consumer, a waiting request that is aborted, and a lookup that timed out.
PinsReturned ==
    mode.role # "kv_consumer" /\ ~late /\ ~aborted /\ Running =>
        \A k \in DOMAIN cache : cache[k].pins > 0 =>
            \E r \in Reqs : /\ k \in ToSet(pinned[r])
                            /\ st[r] = "waiting" \/ InBatch(r)

\* The assertions and generators of the adapter fail only where its bookkeeping
\* is known to be off: the slot mapping after a rollback of a failed load, the
\* preempted request after a full hit, layer by layer when the engine is
\* unhealthy or frozen or has lost chunks.
CrashExplained ==
    /\ crashed = "slots" => lost
    /\ crashed = "resume" =>
          \E i \in DOMAIN batch : /\ batch[i].kind = "resumed"
                                  /\ comp[batch[i].r] = ntok[batch[i].r] - 1
    /\ crashed = "layer" => mode.layer /\ (sick \/ frozen \/ lost)

\* The adapter keeps its books: pins and trackers.
BooksKept == PinsReturned /\ CrashExplained

\* Every request is served, or the engine has raised: a full hit, a rollback or
\* a preemption leaves something to schedule.
Served == []<>(crashed # "no" \/ \A r \in Reqs : st[r] = "done")
=============================================================================
