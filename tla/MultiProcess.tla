---------------------------- MODULE MultiProcess ----------------------------
(***************************************************************************)
(* The multi-process server: MPCacheEngine over MPStorageManager, reached  *)
(* through MessageQueueServer and MessageQueueClient by the vLLM scheduler *)
(* and by one worker per tensor-parallel rank.  A request is looked up     *)
(* (which locks what is found), its hits are retrieved by every worker,    *)
(* its other chunks stored by every worker, and reported by get_finished   *)
(* so that vLLM may free its GPU blocks.                                   *)
(*                                                                         *)
(* The server receives one message at a time and hands it to a thread      *)
(* pool; a handler only enqueues its copies on the worker's CUDA stream,   *)
(* followed by a host function: commit of a store, unlock of a retrieve.   *)
(* An answer carries the event recorded between the two.                   *)
(***************************************************************************)
EXTENDS Integers, Sequences, FiniteSets, SequencesExt, FiniteSetsExt

CONSTANTS
    Requests, Chunks,
    Modes          \* configurations and bounds, as described at ModeType

\* ws: world_size; cap: chunks the CPU buffer holds; pool: max_workers; prompt:
\* the chunks of each request, in order; had: chunks stored before; may: what
\* else may happen: "ttl" (a lock is 300 s old), "clear", "http", "leave" (a
\* worker shuts down early), "abort" (a request is given up), "batch" (vLLM
\* submits the operations of several requests as one), "steps" (a request's
\* chunks are stored in several steps, as with chunked prefill).
Extra == {"ttl", "clear", "http", "leave", "abort", "batch", "steps"}
ModeType == [ws: Nat \ {0}, cap: Nat, pool: Nat \ {0}, may: SUBSET Extra,
             prompt: [Requests -> Seq(Chunks)], had: SUBSET Chunks]

ASSUME ModeAssumption == \A m \in Modes : m \in ModeType

VARIABLES
    mode,
    phase,       \* vLLM's view of a request
    hits,        \* chunks check_lookup_result promised the request
    sent,        \* chunks of the request handed to stores, by worker
    todo,        \* workers yet to be given the request's retrieve, or its end
    busy,        \* workers whose get_finished is yet to return the request
    storeF, retrF,          \* store_futures, retrieve_futures of a worker
    finishedS, previously,  \* finished_stores, previously_finished
    uids,        \* request_counter, by client
    outbox,      \* client -> server: input_queue and DEALER socket
    inbox,       \* server -> client: output_queue and ROUTER socket
    answered,    \* resolved MessagingFutures: client, uid, result
    pool,        \* the thread pool: queued and running handlers, in order
    ctx,         \* gpu_contexts: the registered workers
    stream,      \* CUDA stream of each worker
    committed,   \* _commited_memory_objects, oldest first
    reserved,    \* _reserved_keys
    pools,       \* _reserved_memory_object_pools: handle -> keys
    used,        \* memory objects the allocator has handed out
    locks,       \* LockManager._locks
    \* History: stores that raised, requests reported by a worker while a store
    \* of theirs had not finished, retrieves of promised chunks that failed.
    raised, early, broken

Workers == 0..mode.ws - 1
Scheduler == -1
StorageKeys == Chunks \X Workers
client == <<phase, hits, sent, todo, busy, storeF, retrF, finishedS, previously>>
wire == <<uids, outbox, inbox, answered>>
storage == <<committed, reserved, pools, used, locks>>
history == <<raised, early, broken>>
vars == <<mode, client, wire, pool, ctx, stream, storage, history>>

NoLock == [n |-> 0, old |-> FALSE]
Prefix(s, n) == SubSeq(s, 1, n)
Prompt(r) == mode.prompt[r]

\* _block_hashes_to_keys: the keys of one worker.
WorkerKeys(cs, w) == [i \in 1..Len(cs) |-> <<cs[i], w>>]
\* ipc_keys_to_storage_keys: a key without worker id stands for all workers.
AllWorkerKeys(cs) ==
    [i \in 1..Len(cs) * mode.ws |-> <<cs[((i - 1) \div mode.ws) + 1], (i - 1) % mode.ws>>]

Init ==
    /\ mode \in Modes
    /\ phase = [r \in Requests |-> "new"]
    /\ hits = [r \in Requests |-> 0]
    /\ sent = [r \in Requests |-> [w \in Workers |-> 0]]
    /\ todo = [r \in Requests |-> {}]
    /\ busy = [r \in Requests |-> {}]
    /\ storeF = [w \in Workers |-> [r \in {} |-> <<>>]]
    /\ retrF = [w \in Workers |-> [r \in {} |-> <<>>]]
    /\ finishedS = [w \in Workers |-> {}]
    /\ previously = [w \in Workers |-> {}]
    /\ uids = [c \in Workers \cup {Scheduler} |-> 0]
    /\ outbox = [c \in Workers \cup {Scheduler} |-> <<>>]
    /\ inbox = [c \in Workers \cup {Scheduler} |-> <<>>]
    /\ answered = {}
    /\ pool = <<>>
    /\ ctx = Workers
    /\ stream = [w \in Workers |-> <<>>]
    /\ committed = AllWorkerKeys(SetToSeq(mode.had))
    /\ reserved = {}
    /\ pools = [h \in {} |-> {}]
    /\ used = Cardinality(mode.had) * mode.ws
    /\ locks = [k \in StorageKeys |-> NoLock]
    /\ raised = {} /\ early = {} /\ broken = FALSE

-----------------------------------------------------------------------------
(* MessageQueueClient and MessageQueueServer.                               *)

\* submit_request: the future is known by the client and the uid.
Submit(c, type, rs, keys) ==
    /\ uids' = [uids EXCEPT ![c] = @ + 1]
    /\ outbox' = [outbox EXCEPT ![c] =
          Append(@, [type |-> type, cl |-> c, uid |-> uids[c], rs |-> rs, keys |-> keys])]
    /\ UNCHANGED <<inbox, answered>>

Respond(t, result) ==
    inbox' = [inbox EXCEPT ![t.cl] = Append(@, [uid |-> t.uid, result |-> result])]

Result(c, uid) == {a \in answered : a.cl = c /\ a.uid = uid}

\* _main_loop of the server: one message; UNREGISTER runs in the loop itself,
\* the other handlers of this model go to the pool.
Receive(c) ==
    /\ outbox[c] # <<>>
    /\ LET t == Head(outbox[c]) IN
         IF t.type = "unregister"
         THEN ctx' = ctx \ {c} /\ Respond(t, TRUE) /\ UNCHANGED pool
         ELSE pool' = Append(pool, t @@ [pc |-> "start", i |-> 1, mask |-> <<>>])
              /\ UNCHANGED <<ctx, inbox>>
    /\ outbox' = [outbox EXCEPT ![c] = Tail(@)]
    /\ UNCHANGED <<mode, client, uids, answered, stream, storage, history>>

\* _main_loop of the client: the answer resolves the future of its uid.
Deliver(c) ==
    /\ inbox[c] # <<>>
    /\ answered' = answered \cup {[cl |-> c] @@ Head(inbox[c])}
    /\ inbox' = [inbox EXCEPT ![c] = Tail(@)]
    /\ UNCHANGED <<mode, client, uids, outbox, pool, ctx, stream, storage, history>>

\* The pool runs its first max_workers entries.
Running(j) == j \in 1..Len(pool) /\ j <= mode.pool
Goto(j, pc) == pool' = [pool EXCEPT ![j].pc = pc]
Leave(j) == pool' = RemoveAt(pool, j)

\* _notify_response: an exception is logged; nothing is sent to the client.
Raise(j) ==
    /\ Leave(j)
    /\ raised' = raised \cup {<<pool[j].cl, pool[j].uid>>}
    /\ UNCHANGED <<mode, client, wire, ctx, stream, early, broken>>

-----------------------------------------------------------------------------
(* LockManager and LRUCachePolicyWithLock.                                  *)

Lock(l, k) == [l EXCEPT ![k] = [n |-> @.n + 1, old |-> FALSE]]
Unlock(l, k) == [l EXCEPT ![k] = IF @.n <= 1 THEN NoLock ELSE [@ EXCEPT !.n = @ - 1]]
IsLocked(k) == locks[k].n > 0 /\ ~locks[k].old

\* get_evict_candidates, without its limit.  (No object of the manager is ever
\* referenced twice or pinned: can_evict holds.)
Candidates == SelectSeq(committed, LAMBDA k : ~IsLocked(k))

Expire(k) ==
    /\ "ttl" \in mode.may
    /\ locks[k].n > 0 /\ ~locks[k].old
    /\ locks' = [locks EXCEPT ![k].old = TRUE]
    /\ UNCHANGED <<mode, client, wire, pool, ctx, stream, committed, reserved, pools, used,
                   history>>

-----------------------------------------------------------------------------
(* MPCacheEngine.store.                                                     *)

\* batched_allocate asks for one block of n chunks: it needs room, and with
\* some of the buffer in use the room may be in pieces.
MayFit(u, n) == u + n <= mode.cap
MayFail(u, n) == ~MayFit(u, n) \/ (n > 1 /\ u > 0)

Reserving(j) == Running(j) /\ pool[j].type = "store"
Handle(t) == <<t.cl, t.uid>>
Wanted(t) == {t.keys[i] : i \in {i \in 1..Len(t.mask) : t.mask[i]}}

\* _reserved_keys.add, for a key that is new.
ToReserve(k, new) == IF new THEN {k} ELSE {}

\* The assertion on the worker's context, then the first turn of reserve's loop:
\* one key per turn, each under the buffer lock of its own.
ReserveKey(j) ==
    /\ Reserving(j) /\ pool[j].pc = "start" /\ pool[j].i <= Len(pool[j].keys)
    /\ pool[j].i > 1 \/ pool[j].cl \in ctx
    /\ LET k == pool[j].keys[pool[j].i]
           new == k \notin reserved /\ k \notin Range(committed)
       IN /\ pool' = [pool EXCEPT ![j].i = @ + 1, ![j].mask = Append(@, new)]
          /\ reserved' = reserved \cup ToReserve(k, new)
    /\ UNCHANGED <<mode, client, wire, ctx, stream, committed, pools, used, locks, history>>

NotRegistered(j) ==
    /\ Running(j) /\ pool[j].type \in {"store", "retrieve"}
    /\ pool[j].pc = "start" /\ pool[j].i = 1 /\ pool[j].cl \notin ctx
    /\ Raise(j) /\ UNCHANGED storage

\* Nothing to allocate: an empty pool, and on to the copies.
ReserveNone(j) ==
    /\ Reserving(j) /\ pool[j].pc = "start"
    /\ pool[j].i = Len(pool[j].keys) + 1 /\ Wanted(pool[j]) = {}
    /\ pools' = pools @@ (Handle(pool[j]) :> {})
    /\ Goto(j, "copy")
    /\ UNCHANGED <<mode, client, wire, ctx, stream, committed, reserved, used, locks, history>>

\* The first batched_allocate, under the allocator lock only.
Allocate(j) ==
    /\ Reserving(j) /\ pool[j].pc = "start"
    /\ pool[j].i = Len(pool[j].keys) + 1 /\ Wanted(pool[j]) # {}
    /\ LET n == Cardinality(Wanted(pool[j])) IN
         \/ MayFit(used, n) /\ used' = used + n /\ Goto(j, "confirm")
         \/ MayFail(used, n) /\ UNCHANGED used /\ Goto(j, "evict")
    /\ UNCHANGED <<mode, client, wire, ctx, stream, committed, reserved, pools, locks, history>>

\* The eviction loop, under both locks: n candidates a turn (or the ones left)
\* until the allocation succeeds or no candidate is left.  is_locked forgets a
\* lock that has expired; the reserved keys stay reserved when it fails.
Evicted(turns, n) == Prefix(Candidates, Min({turns * n, Len(Candidates)}))
EvictAllocate(j) ==
    /\ Reserving(j) /\ pool[j].pc = "evict"
    /\ LET n == Cardinality(Wanted(pool[j]))
           last == (Len(Candidates) + n - 1) \div n
       IN \E turns \in 0..last :
            LET gone == Range(Evicted(turns, n))
                left == used - Cardinality(gone)
            IN /\ committed' = SelectSeq(committed, LAMBDA k : k \notin gone)
               /\ locks' = [k \in StorageKeys |-> IF locks[k].old THEN NoLock ELSE locks[k]]
               /\ \/ /\ turns > 0 /\ MayFit(left, n)
                     /\ \A t \in 1..turns - 1 : MayFail(used - Len(Evicted(t, n)), n)
                     /\ used' = left + n /\ Goto(j, "confirm")
                     /\ UNCHANGED <<mode, client, wire, ctx, stream, history>>
                  \/ /\ turns = last
                     /\ \A t \in 1..last : MayFail(used - Len(Evicted(t, n)), n)
                     /\ used' = left /\ Raise(j)
    /\ UNCHANGED <<reserved, pools>>

\* _confirm_reserve_objects.
Confirm(j) ==
    /\ Reserving(j) /\ pool[j].pc = "confirm"
    /\ pools' = pools @@ (Handle(pool[j]) :> Wanted(pool[j]))
    /\ Goto(j, "copy")
    /\ UNCHANGED <<mode, client, wire, ctx, stream, committed, reserved, used, locks, history>>

\* The copies of the new chunks, the event, and the commit, on the stream of a
\* worker that must still be registered; then the answer.
StoreCopies(j) ==
    /\ Reserving(j) /\ pool[j].pc = "copy"
    /\ IF pool[j].cl \in ctx
       THEN LET t == pool[j] IN
            /\ stream' = [stream EXCEPT ![t.cl] = Append(@,
                  [op |-> "commit", copied |-> FALSE, handle |-> Handle(t), rs |-> t.rs,
                   reads |-> {}, keys |-> {}, uid |-> t.uid])]
            /\ Respond(t, TRUE) /\ Leave(j)
            /\ UNCHANGED <<mode, client, uids, outbox, answered, ctx, history>>
       ELSE Raise(j)
    /\ UNCHANGED storage

-----------------------------------------------------------------------------
(* MPCacheEngine.retrieve, lookup and clear.                                *)

\* All of the keys or none: each is touched (up to the first one missing), the
\* copies go on the stream with on_retrieve_finished behind them, whatever
\* happened.  now: keys unlocked by the handler itself.
RetrieveUnlocking(j, now) ==
    /\ Running(j) /\ pool[j].type = "retrieve" /\ pool[j].cl \in ctx
    /\ LET t == pool[j]
           ks == Range(t.keys)
           ok == ks \subseteq Range(committed)
           n == IF ok THEN Len(t.keys)
                ELSE Min({i \in 1..Len(t.keys) : t.keys[i] \notin Range(committed)}) - 1
           hit == Prefix(t.keys, n)
       IN /\ committed' = SelectSeq(committed, LAMBDA k : k \notin Range(hit)) \o hit
          /\ stream' = [stream EXCEPT ![t.cl] = Append(@,
                [op |-> "unlock", copied |-> ~ok, handle |-> Handle(t), rs |-> t.rs,
                 reads |-> IF ok THEN ks ELSE {}, keys |-> ks \ now, uid |-> t.uid])]
          /\ locks' = FoldSet(LAMBDA k, l : Unlock(l, k), locks, now)
          /\ Respond(t, ok) /\ Leave(j)
          /\ broken' = (broken \/ ~ok)
    /\ UNCHANGED <<mode, client, uids, outbox, answered, ctx, reserved, pools, used, raised,
                   early>>

\* Mutant: the keys are unlocked when the handler returns, not on the stream.
RetrieveUnlocksNow(j) == RetrieveUnlocking(j, Range(pool[j].keys))

Retrieve(j) == RetrieveUnlocking(j, {})

\* found_count // world_size, after every key of the prefix found was locked.
FoundCount(n) == n \div mode.ws

Lookup(j) ==
    /\ Running(j) /\ pool[j].type = "lookup"
    /\ LET t == pool[j]
           missing == {i \in 1..Len(t.keys) : t.keys[i] \notin Range(committed)}
           n == IF missing = {} THEN Len(t.keys) ELSE Min(missing) - 1
       IN /\ locks' = FoldSet(LAMBDA i, l : Lock(l, t.keys[i]), locks, 1..n)
          /\ Respond(t, Min({FoundCount(n), Len(t.keys)}))
    /\ Leave(j)
    /\ UNCHANGED <<mode, client, uids, outbox, answered, ctx, stream, committed, reserved,
                   pools, used, history>>

\* clear: every object is given back, the reserved ones too; locks stay.
Clear ==
    /\ "clear" \in mode.may /\ (committed # <<>> \/ reserved # {})
    /\ used' = used - Len(committed)
                 - FoldSet(LAMBDA h, s : s + Cardinality(pools[h]), 0, DOMAIN pools)
    /\ committed' = <<>> /\ reserved' = {} /\ pools' = [h \in {} |-> {}]
    /\ UNCHANGED <<mode, client, wire, pool, ctx, stream, locks, history>>

-----------------------------------------------------------------------------
(* The CUDA streams.                                                        *)

\* The copies of the first entry are done: so is its event.
CopyDone(w) ==
    /\ stream[w] # <<>> /\ ~stream[w][1].copied
    /\ stream' = [stream EXCEPT ![w][1].copied = TRUE]
    /\ UNCHANGED <<mode, client, wire, pool, ctx, storage, history>>

\* commit as a host function: an unknown handle raises; a key that is no longer
\* reserved raises after the objects were entered.
Commit(w) ==
    /\ stream[w] # <<>> /\ stream[w][1].op = "commit" /\ stream[w][1].copied
    /\ LET h == stream[w][1].handle IN
         IF h \notin DOMAIN pools
         THEN UNCHANGED <<committed, reserved, pools>>
         ELSE /\ committed' = SelectSeq(committed, LAMBDA k : k \notin pools[h])
                                \o SetToSeq(pools[h])
              /\ reserved' = reserved \ pools[h]
              /\ pools' = [x \in DOMAIN pools \ {h} |-> pools[x]]
    /\ stream' = [stream EXCEPT ![w] = Tail(@)]
    /\ UNCHANGED <<mode, client, wire, pool, ctx, used, locks, history>>

OnRetrieveFinished(w) ==
    /\ stream[w] # <<>> /\ stream[w][1].op = "unlock" /\ stream[w][1].copied
    /\ locks' = FoldSet(LAMBDA k, l : Unlock(l, k), locks, stream[w][1].keys)
    /\ stream' = [stream EXCEPT ![w] = Tail(@)]
    /\ UNCHANGED <<mode, client, wire, pool, ctx, committed, reserved, pools, used, history>>

-----------------------------------------------------------------------------
(* The HTTP front end, in a thread of its own.                              *)

\* get_memory_objects: a key that is reserved but not committed raises.
HttpGet(k) ==
    /\ "http" \in mode.may /\ k \in Range(committed)
    /\ committed' = Append(SelectSeq(committed, LAMBDA x : x # k), k)
    /\ UNCHANGED <<mode, client, wire, pool, ctx, stream, reserved, pools, used, locks, history>>

-----------------------------------------------------------------------------
(* The vLLM scheduler's adapter.                                            *)

SubmitLookup(r) ==
    /\ phase[r] = "new"
    /\ phase' = [phase EXCEPT ![r] = "lookup"]
    /\ hits' = [hits EXCEPT ![r] = uids[Scheduler]]    \* lookup_futures[r]
    /\ Submit(Scheduler, "lookup", <<r>>, AllWorkerKeys(Prompt(r)))
    /\ UNCHANGED <<mode, sent, todo, busy, storeF, retrF, finishedS, previously, pool, ctx, stream,
                   storage, history>>

\* check_lookup_result and cleanup_lookup_result.
CheckLookup(r) ==
    /\ phase[r] = "lookup"
    /\ \E a \in Result(Scheduler, hits[r]) :
         /\ hits' = [hits EXCEPT ![r] = a.result]
         /\ phase' = [phase EXCEPT ![r] = IF a.result > 0 THEN "load" ELSE "run"]
         /\ answered' = answered \ {a}
         /\ sent' = [sent EXCEPT ![r] = [w \in Workers |-> a.result]]
    /\ todo' = [todo EXCEPT ![r] = Workers]
    /\ busy' = [busy EXCEPT ![r] = Workers]
    /\ UNCHANGED <<mode, storeF, retrF, finishedS, previously, uids, outbox, inbox, pool, ctx,
                   stream, storage, history>>

\* A request given up before its lookup is answered: the future is forgotten,
\* the locks stay until they expire.
Abort(r) ==
    /\ "abort" \in mode.may /\ phase[r] = "lookup"
    /\ phase' = [phase EXCEPT ![r] = "gone"]
    /\ UNCHANGED <<mode, hits, sent, todo, busy, storeF, retrF, finishedS, previously, wire, pool,
                   ctx, stream, storage, history>>

-----------------------------------------------------------------------------
(* The vLLM workers' adapter.                                               *)

Batches(S) == {rs \in SeqOf(S, IF "batch" \in mode.may THEN Cardinality(S) ELSE 1) :
                 rs # <<>> /\ IsInjective(rs)}
Tracked(f, r, uid, rs) == [x \in DOMAIN f \cup {r} |->
                             IF x = r THEN [uid |-> uid, rs |-> rs] ELSE f[x]]

\* submit_retrieve_request and batched_submit_retrieve_requests: the future is
\* kept under the first request.
SubmitRetrieve(w) ==
    \E rs \in Batches({r \in Requests : phase[r] = "load" /\ w \in todo[r]}) :
      /\ Submit(w, "retrieve", rs,
                FlattenSeq([i \in 1..Len(rs) |-> WorkerKeys(Prefix(Prompt(rs[i]), hits[rs[i]]), w)]))
      /\ retrF' = [retrF EXCEPT ![w] = Tracked(@, rs[1], uids[w], rs)]
      /\ todo' = [r \in Requests |-> todo[r] \ (IF r \in Range(rs) THEN {w} ELSE {})]
      /\ UNCHANGED <<mode, phase, hits, sent, busy, storeF, finishedS, previously, pool, ctx, stream,
                     storage, history>>

Unsent(r, w) == SubSeq(Prompt(r), sent[r][w] + 1, Len(Prompt(r)))

\* submit_store_request and batched_submit_store_requests: an entry of an
\* earlier step under the same first request is overwritten.
SubmitStore(w) ==
    \E rs \in Batches({r \in Requests : phase[r] = "run" /\ Unsent(r, w) # <<>>}) :
    \E part \in IF "steps" \in mode.may THEN BOOLEAN ELSE {FALSE} :
      LET Part(r) == IF part THEN Prefix(Unsent(r, w), 1) ELSE Unsent(r, w) IN
      /\ Submit(w, "store", rs,
                FlattenSeq([i \in 1..Len(rs) |-> WorkerKeys(Part(rs[i]), w)]))
      /\ storeF' = [storeF EXCEPT ![w] = Tracked(@, rs[1], uids[w], rs)]
      /\ sent' = [r \in Requests |->
            IF r \in Range(rs) THEN [sent[r] EXCEPT ![w] = @ + Len(Part(r))] ELSE sent[r]]
      /\ UNCHANGED <<mode, phase, hits, todo, busy, retrF, finishedS, previously, pool, ctx, stream,
                     storage, history>>

\* vLLM's engine ends a request: every worker is told in its next get_finished.
EngineFinishes(r) ==
    /\ phase[r] = "run"
    /\ \A w \in Workers : Unsent(r, w) = <<>>
    /\ phase' = [phase EXCEPT ![r] = "done"]
    /\ todo' = [todo EXCEPT ![r] = Workers]
    /\ busy' = [busy EXCEPT ![r] = Workers]
    /\ UNCHANGED <<mode, hits, sent, storeF, retrF, finishedS, previously, wire, pool, ctx,
                   stream, storage, history>>

\* CUDAMessagingFuture.query: answered, and the event on the stream has passed.
Done(w, f) ==
    /\ Result(w, f.uid) # {}
    /\ \A i \in 1..Len(stream[w]) : stream[w][i].uid = f.uid => stream[w][i].copied
Members(w, f) == UNION {Range(f[r].rs) : r \in {x \in DOMAIN f : Done(w, f[x])}}
Without(f, S) == [r \in DOMAIN f \ S |-> f[r]]

\* A store of r by w that vLLM has submitted and whose copies are not done.
Storing(w, r) ==
    \/ \E i \in 1..Len(outbox[w]) : outbox[w][i].type = "store" /\ r \in Range(outbox[w][i].rs)
    \/ \E i \in 1..Len(pool) : pool[i].type = "store" /\ pool[i].cl = w /\ r \in Range(pool[i].rs)
    \/ \E i \in 1..Len(stream[w]) : /\ stream[w][i].op = "commit" /\ ~stream[w][i].copied
                                    /\ r \in Range(stream[w][i].rs)

\* Mutant: the stores still under way are not looked at.
HasStoreFinished(w, r, done) == r \in done

\* A finished request the adapter knows a store of: reported when that is done.
HasStore(w, r, done) == r \in done \/ r \in DOMAIN Without(storeF[w], done)

\* Mutant: a finished request whose store is under way is not remembered.
AwaitedDone(w, F, done) == previously[w] \cup (F \cap done)

\* previously_finished, with the finished requests that have a store.
Awaited(w, F, done) == previously[w] \cup {r \in F : HasStore(w, r, done)}

\* get_finished and _update_and_get_finished_store.  A finished future takes all
\* of its requests out of the tracking dictionaries, an entry of another future
\* under one of them included.
GetFinished(w) ==
    /\ w \in ctx
    /\ LET F == {r \in Requests : phase[r] = "done" /\ w \in todo[r]}
           now == Members(w, storeF[w])
           loaded == Members(w, retrF[w])
           done == finishedS[w] \cup now
           prev == Awaited(w, F, done)
           ret == {r \in F : ~HasStore(w, r, done)} \cup (done \cap prev)
           ended == loaded \cup ret
           Left(r) == busy[r] \ {w}
       IN /\ F # {} \/ now # {} \/ loaded # {}
          /\ storeF' = [storeF EXCEPT ![w] = Without(@, now)]
          /\ retrF' = [retrF EXCEPT ![w] = Without(@, loaded)]
          /\ finishedS' = [finishedS EXCEPT ![w] = done \ prev]
          /\ previously' = [previously EXCEPT ![w] = prev \ done]
          /\ todo' = [r \in Requests |-> todo[r] \ (IF r \in F THEN {w} ELSE {})]
          /\ busy' = [r \in Requests |-> IF r \in ended THEN Left(r) ELSE busy[r]]
          /\ phase' = [r \in Requests |->
                CASE r \in loaded /\ phase[r] = "load" /\ Left(r) = {} -> "run"
                  [] r \in ret /\ phase[r] = "done" /\ Left(r) = {} -> "freed"
                  [] OTHER -> phase[r]]
          /\ early' = early \cup {r \in ret : Storing(w, r)}
          /\ answered' = {a \in answered :
                a.cl = w => \E f \in Range(storeF'[w]) \cup Range(retrF'[w]) : f.uid = a.uid}
    /\ UNCHANGED <<mode, hits, sent, uids, outbox, inbox, pool, ctx, stream, storage, raised,
                   broken>>

\* shutdown: the caller waits for the answer, then closes its client.
Shutdown(w) ==
    /\ "leave" \in mode.may /\ w \in ctx
    /\ \A i \in 1..Len(outbox[w]) : outbox[w][i].type # "unregister"
    /\ Submit(w, "unregister", <<>>, <<>>)
    /\ UNCHANGED <<mode, client, pool, ctx, stream, storage, history>>

-----------------------------------------------------------------------------
\* The loops of client and server; the threads of the pool; the CUDA streams;
\* what vLLM does in a step of a worker and of the scheduler.
LoopStep == \E c \in Workers \cup {Scheduler} : Receive(c) \/ Deliver(c)
PoolStep ==
    \E j \in 1..Len(pool) :
        \/ ReserveKey(j) \/ NotRegistered(j) \/ ReserveNone(j) \/ Allocate(j)
        \/ EvictAllocate(j) \/ Confirm(j) \/ StoreCopies(j) \/ Retrieve(j) \/ Lookup(j)
StreamStep == \E w \in Workers : CopyDone(w) \/ Commit(w) \/ OnRetrieveFinished(w)
WorkerStep == \E w \in Workers : SubmitRetrieve(w) \/ SubmitStore(w) \/ GetFinished(w)
SchedulerStep == \E r \in Requests : SubmitLookup(r) \/ CheckLookup(r) \/ EngineFinishes(r)

Next ==
    \/ LoopStep \/ PoolStep \/ StreamStep \/ WorkerStep \/ SchedulerStep
    \/ \E k \in StorageKeys : Expire(k) \/ HttpGet(k)
    \/ Clear
    \/ \E w \in Workers : Shutdown(w)
    \/ \E r \in Requests : Abort(r)

Spec == Init /\ [][Next]_vars

\* All of these go on; vLLM calls get_finished in every step.
Fairness ==
    /\ WF_vars(LoopStep) /\ WF_vars(PoolStep) /\ WF_vars(StreamStep)
    /\ WF_vars(WorkerStep) /\ WF_vars(SchedulerStep)
FairSpec == Spec /\ Fairness

-----------------------------------------------------------------------------
Undisturbed == mode.may \cap {"ttl", "clear", "leave"} = {}

\* No memory object is given back while a copy queued on a CUDA stream reads or
\* writes it: a retrieve's objects stay committed and a store's stay reserved
\* until the event, although retrieve() itself neither references nor locks
\* them and relies on the lookup's lock, which on_retrieve_finished drops.
CopySafe ==
    Undisturbed =>
      \A w \in Workers : \A i \in 1..Len(stream[w]) :
        LET e == stream[w][i] IN
        ~e.copied => /\ e.reads \subseteq Range(committed)
                     /\ e.op = "commit" => e.handle \in DOMAIN pools

\* What a lookup promised is there when every worker retrieves it ("the KV cache
\* that is being looked up is guaranteed to be retrieved", LockManager), with
\* stores evicting in between, unless the lock expired or the cache was cleared.
LoadDelivers == Undisturbed => ~broken

\* get_finished returns a request only when no store of it is queued, running or
\* copying: vLLM then frees the GPU blocks the copy would read.  It does for
\* requests that are stored in one operation of their own.
FinishedMeansStored == mode.may \cap {"batch", "steps"} = {} => early = {}

\* A reserved key is one a store in progress will commit, and a pool of reserved
\* objects has its commit ahead of it, as long as no store has raised.
ReservedCommitted ==
    (Undisturbed /\ raised = {}) =>
      /\ \A k \in reserved :
           \/ \E i \in 1..Len(pool) : pool[i].type = "store" /\ k \in Wanted(pool[i])
           \/ \E h \in DOMAIN pools : k \in pools[h]
      /\ \A h \in DOMAIN pools :
           \/ \E i \in 1..Len(pool) : Handle(pool[i]) = h
           \/ \E w \in Workers : \E i \in 1..Len(stream[w]) : stream[w][i].handle = h

\* What the adapter promises vLLM: promised chunks are there, a finished request
\* is stored, and a reservation leads to a commit.
AdapterSafe == LoadDelivers /\ FinishedMeansStored /\ ReservedCommitted

\* Every request ends: its lookup is answered, its retrieves and stores are
\* reported by all workers and vLLM may free its blocks, unless a handler raised
\* (then nothing is sent and the request waits for ever) or a worker left.
Ended == \/ "leave" \in mode.may \/ raised # {}
         \/ \A r \in Requests : phase[r] \in {"freed", "gone"}
AllFreed == []<>Ended
=============================================================================
