----------------------------- MODULE AsyncLookup -----------------------------
(***************************************************************************)
(* Asynchronous lookup and prefetch (enable_async_loading): the scheduler  *)
(* asks every worker how much of a prompt is cached, each worker prefetches*)
(* what it finds into CPU buffers, and the request is scheduled with the   *)
(* smallest answer; each worker then loads from the prefetched buffers.    *)
(*   - LMCacheAsyncLookupClient (scheduler thread and response thread) and *)
(*     LMCacheAsyncLookupServer (lmcache_async_lookup_client.py);          *)
(*   - StorageManager.async_lookup_and_prefetch and its done callback,     *)
(*     EventManager (storage_manager.py, event_manager.py);                *)
(*   - LMCacheEngine.cleanup_memory_objs and the asynchronous retrieve     *)
(*     (cache_engine.py);                                                  *)
(*   - the calls of the vLLM connector that drive them                     *)
(*     (vllm_v1_adapter.py); the vLLM scheduler itself is external.        *)
(* Tokens are counted in chunks.  A request may be preempted and looked up *)
(* again under the same id: `attempt` tells its lookups apart, the code    *)
(* does not.                                                               *)
(***************************************************************************)
EXTENDS Integers, Sequences, FiniteSets, SequencesExt, FiniteSetsExt

CONSTANTS
    Reqs, Workers,
    MaxAttempts,   \* bound on the lookups of one request
    Modes          \* what may happen to the requests, as described at ModeType

\* reqs: the requests that are looked up, at most `attempts` times each.
\* plans: hit chunks per storage tier that a worker may find.
\* partial: a tier may load fewer chunks than it promised.
\* fail: a loading task may raise.          timeout: lookup_timeout_ms may pass.
\* abort: requests may be aborted.          skip: vLLM may have computed hit
\* tokens itself.
ModeType == [reqs: SUBSET Reqs, attempts: 1..MaxAttempts, plans: SUBSET Seq(Nat \ {0}),
             partial: BOOLEAN, fail: BOOLEAN, timeout: BOOLEAN, abort: BOOLEAN,
             skip: BOOLEAN]

NotFound == -1     \* no entry in reqs_status
Ongoing == -2      \* reqs_status is None

VARIABLES
    mode,            \* what may happen, never changed
    req,             \* the request in vLLM: waiting, running, finished, aborted
    attempt,         \* lookups sent for each request so far
    promise,         \* load_spec.lmcache_cached_tokens when scheduled
    toLoad,          \* workers that have yet to start_load_kv for the request
    reqsStatus, firstLookupTime, resForEachWorker, abortedLookups,
    toWorker,        \* PUSH socket to each worker
    toScheduler,     \* PUSH socket from each worker
    lookup,          \* per worker and lookup: its coroutine and future
    buffers,         \* per worker and lookup: references to prefetched buffers
    events,          \* per worker: the LOADING event of each request id
    shortLoads       \* requests that found fewer chunks than promised

schedVars == <<req, attempt, promise, toLoad>>
clientVars == <<reqsStatus, firstLookupTime, resForEachWorker, abortedLookups>>
workerVars == <<lookup, buffers, events>>
vars == <<mode, schedVars, clientVars, toWorker, toScheduler, workerVars, shortLoads>>

LookupIds == Reqs \X (1..MaxAttempts)
NoLookup == [phase |-> "none", expected |-> <<>>, actual |-> <<>>]
NoEvent == [status |-> "NOT_FOUND", attempt |-> 0]

Init ==
    /\ mode \in Modes
    /\ req = [r \in Reqs |-> "waiting"]
    /\ attempt = [r \in Reqs |-> 0]
    /\ promise = [r \in Reqs |-> 0]
    /\ toLoad = [r \in Reqs |-> {}]
    /\ reqsStatus = [r \in Reqs |-> NotFound]
    /\ firstLookupTime = [r \in Reqs |-> "unset"]
    /\ resForEachWorker = [r \in Reqs |-> <<>>]
    /\ abortedLookups = {}
    /\ toWorker = [w \in Workers |-> <<>>]
    /\ toScheduler = [w \in Workers |-> <<>>]
    /\ lookup = [w \in Workers |-> [l \in LookupIds |-> NoLookup]]
    /\ buffers = [w \in Workers |-> [l \in LookupIds |-> 0]]
    /\ events = [w \in Workers |-> [r \in Reqs |-> NoEvent]]
    /\ shortLoads = {}

SumSeq(s) == FoldSeq(LAMBDA x, acc : x + acc, 0, s)

-----------------------------------------------------------------------------
(* Scheduler: get_num_new_matched_tokens and update_state_after_alloc *)

Msg(t, r, a) == [type |-> t, req |-> r, attempt |-> a]

\* _cleanup_finished_aborted_lookups, at the start of every lookup_cache: the
\* aborted lookups that have an answer; the rest keep waiting for one.
FinishedAborted == {l \in abortedLookups : reqsStatus[l] >= 0}
Send(msgs) ==
    /\ abortedLookups' = abortedLookups \ FinishedAborted
    /\ toWorker' = [w \in Workers |->
          toWorker[w] \o SetToSeq({Msg("cleanup", l, 0) : l \in FinishedAborted}) \o msgs]
Cleared(s, none) == [r \in Reqs |-> IF r \in FinishedAborted THEN none ELSE s[r]]

\* The first lookup_cache (-1) is followed by lookup().
FirstLookup(r) ==
    /\ r \in mode.reqs /\ req[r] = "waiting" /\ reqsStatus[r] = NotFound
    /\ attempt[r] < mode.attempts
    /\ attempt' = [attempt EXCEPT ![r] = @ + 1]
    /\ Send(<<Msg("lookup", r, attempt'[r])>>)
    /\ reqsStatus' = [Cleared(reqsStatus, NotFound) EXCEPT ![r] = Ongoing]
    /\ firstLookupTime' = [Cleared(firstLookupTime, "unset") EXCEPT ![r] = "set"]
    /\ UNCHANGED <<mode, req, promise, toLoad, resForEachWorker, toScheduler, workerVars, shortLoads>>

\* The answer n goes to vLLM, which has `computed` chunks itself, and which may
\* or may not schedule the request now.  clear_lookup_status forgets it.
Answer(r, n, computed, scheduled, left) ==
    /\ IF scheduled
       THEN /\ req' = [req EXCEPT ![r] = "running"]
            /\ promise' = [promise EXCEPT ![r] = n]
            /\ toLoad' = [toLoad EXCEPT ![r] = IF n > computed THEN Workers ELSE {}]
            /\ reqsStatus' = [Cleared(reqsStatus, NotFound) EXCEPT ![r] = NotFound]
            /\ firstLookupTime' = [Cleared(firstLookupTime, "unset") EXCEPT ![r] = "unset"]
       ELSE /\ reqsStatus' = Cleared(reqsStatus, NotFound)
            /\ firstLookupTime' = [Cleared(firstLookupTime, "unset") EXCEPT ![r] = left]
            /\ UNCHANGED <<req, promise, toLoad>>
    /\ Send(<<>>)
    /\ UNCHANGED <<mode, attempt, resForEachWorker, toScheduler, workerVars, shortLoads>>

PollHit(r, computed, scheduled) ==
    /\ req[r] = "waiting" /\ reqsStatus[r] >= 0
    /\ mode.skip \/ computed = 0
    /\ Answer(r, reqsStatus[r], computed, scheduled, firstLookupTime[r])

\* Still ongoing: None before the timeout, 0 once it has passed.  The time of
\* the first lookup is popped with the 0, so that the next call raises.
PollOngoing(r) ==
    /\ req[r] = "waiting" /\ reqsStatus[r] = Ongoing /\ firstLookupTime[r] = "set"
    /\ Answer(r, 0, 0, FALSE, "set")
PollTimeout(r, scheduled) ==
    /\ req[r] = "waiting" /\ reqsStatus[r] = Ongoing /\ firstLookupTime[r] = "due"
    /\ Answer(r, 0, 0, scheduled, "unset")
PollRaises(r) ==
    /\ req[r] = "waiting" /\ reqsStatus[r] = Ongoing /\ firstLookupTime[r] = "unset"
    /\ Answer(r, 0, 0, FALSE, "unset")

TimeoutPasses(r) ==
    /\ mode.timeout /\ firstLookupTime[r] = "set"
    /\ firstLookupTime' = [firstLookupTime EXCEPT ![r] = "due"]
    /\ UNCHANGED <<mode, schedVars, reqsStatus, resForEachWorker, abortedLookups, toWorker,
                   toScheduler, workerVars, shortLoads>>

\* request_finished; an aborted request cancels its lookup.
Leave(r, how) ==
    /\ how = "finished" => req[r] = "running"
    /\ how = "aborted" => mode.abort /\ r \in mode.reqs /\ req[r] \in {"waiting", "running"}
    /\ toLoad[r] = {}
    /\ req' = [req EXCEPT ![r] = how]
    /\ abortedLookups' = IF how = "aborted" THEN abortedLookups \cup {r} ELSE abortedLookups
    /\ UNCHANGED <<mode, attempt, promise, toLoad, reqsStatus, firstLookupTime, resForEachWorker,
                   toWorker, toScheduler, workerVars, shortLoads>>

\* vLLM preempts the request: it waits, and is looked up, again.
Preempt(r) ==
    /\ req[r] = "running" /\ toLoad[r] = {} /\ attempt[r] < mode.attempts
    /\ req' = [req EXCEPT ![r] = "waiting"]
    /\ UNCHANGED <<mode, attempt, promise, toLoad, clientVars, toWorker, toScheduler,
                   workerVars, shortLoads>>

-----------------------------------------------------------------------------
(* Worker: process_requests_from_scheduler and async_lookup_and_prefetch *)

RecvLookup(w) ==
    LET m == Head(toWorker[w]) IN
    /\ toWorker[w] # <<>> /\ m.type = "lookup"
    /\ toWorker' = [toWorker EXCEPT ![w] = Tail(@)]
    /\ lookup' = [lookup EXCEPT ![w][<<m.req, m.attempt>>].phase = "queued"]
    /\ UNCHANGED <<mode, schedVars, clientVars, toScheduler, buffers, events, shortLoads>>

\* cleanup_memory_objs: pops a DONE event.  Its result holds (key, object)
\* pairs, and ref_count_down() on a pair raises AttributeError, which is caught
\* and logged for each of them: no reference is given back.
RecvCleanup(w) ==
    LET m == Head(toWorker[w]) IN
    /\ toWorker[w] # <<>> /\ m.type = "cleanup"
    /\ toWorker' = [toWorker EXCEPT ![w] = Tail(@)]
    /\ events' = IF events[w][m.req].status = "DONE"
                 THEN [events EXCEPT ![w][m.req] = NoEvent] ELSE events
    /\ UNCHANGED <<mode, schedVars, clientVars, toScheduler, lookup, buffers, shortLoads>>

\* The tiers are asked in order; with no hit the answer is 0 and no event is
\* made, otherwise the loading tasks are started and the event is registered
\* under the request id, replacing one that is there.
LookupTiers(w, l, plan) ==
    /\ lookup[w][l].phase = "queued"
    /\ IF plan = <<>>
       THEN /\ lookup' = [lookup EXCEPT ![w][l].phase = "over"]
            /\ toScheduler' = [toScheduler EXCEPT ![w] = Append(@, [req |-> l[1], hits |-> 0])]
            /\ UNCHANGED events
       ELSE /\ lookup' = [lookup EXCEPT ![w][l] =
                  [phase |-> "loading", expected |-> plan, actual |-> <<>>]]
            /\ events' = [events EXCEPT ![w][l[1]] = [status |-> "ONGOING", attempt |-> l[2]]]
            /\ UNCHANGED toScheduler
    /\ UNCHANGED <<mode, schedVars, clientVars, toWorker, buffers, shortLoads>>

\* gather_with_keys returns: each tier loaded all, or a prefix, of its chunks.
LoadDone(w, l, actual) ==
    /\ lookup[w][l].phase = "loading"
    /\ Len(actual) = Len(lookup[w][l].expected)
    /\ \A i \in 1..Len(actual) : IF mode.partial THEN actual[i] <= lookup[w][l].expected[i]
                                 ELSE actual[i] = lookup[w][l].expected[i]
    /\ lookup' = [lookup EXCEPT ![w][l].phase = "loaded", ![w][l].actual = actual]
    /\ buffers' = [buffers EXCEPT ![w][l] = SumSeq(actual)]
    /\ UNCHANGED <<mode, schedVars, clientVars, toWorker, toScheduler, events, shortLoads>>

\* A loading task raises: gather raises too, and drops what others loaded.
LoadFail(w, l) ==
    /\ mode.fail /\ lookup[w][l].phase = "loading"
    /\ lookup' = [lookup EXCEPT ![w][l].phase = "failed"]
    /\ UNCHANGED <<mode, schedVars, clientVars, toWorker, toScheduler, buffers, events, shortLoads>>

Short(lk) == {i \in 1..Len(lk.actual) : lk.actual[i] < lk.expected[i]}

\* The chunks up to the first tier that came up short.
Prefix(lk) ==
    SumSeq(SubSeq(lk.actual, 1, IF Short(lk) = {} THEN Len(lk.actual) ELSE Min(Short(lk))))

\* ref_count_down() on the pairs of a later tier raises AttributeError.
GapRaises(lk) ==
    /\ Short(lk) # {}
    /\ \E i \in Min(Short(lk)) + 1 .. Len(lk.actual) : lk.actual[i] > 0

\* Mutant: the chunks of every tier are counted, the ones after a gap too.
PrefetchAllDoneCountsAll(w, l) ==
    LET lk == lookup[w][l] IN
    /\ lk.phase = "loaded"
    /\ lookup' = [lookup EXCEPT ![w][l].phase = "over"]
    /\ events' = [events EXCEPT ![w][l[1]].status = "DONE"]
    /\ toScheduler' = [toScheduler EXCEPT ![w] = Append(@, [req |-> l[1], hits |-> SumSeq(lk.actual)])]
    /\ UNCHANGED <<mode, schedVars, clientVars, toWorker, buffers, shortLoads>>

\* prefetch_all_done_callback: marks whatever event has the id DONE (KeyError
\* if there is none) and answers with the contiguous prefix, unless one of
\* its steps raises.
PrefetchAllDone(w, l) ==
    LET lk == lookup[w][l]
        found == events[w][l[1]].status # "NOT_FOUND"
    IN  /\ lk.phase \in {"loaded", "failed"}
        /\ lookup' = [lookup EXCEPT ![w][l].phase = IF @ = "failed" THEN "failedOver" ELSE "over"]
        /\ events' = IF found THEN [events EXCEPT ![w][l[1]].status = "DONE"] ELSE events
        /\ toScheduler' =
              IF found /\ lk.phase = "loaded" /\ ~GapRaises(lk)
              THEN [toScheduler EXCEPT ![w] = Append(@, [req |-> l[1], hits |-> Prefix(lk)])]
              ELSE toScheduler
        /\ UNCHANGED <<mode, schedVars, clientVars, toWorker, buffers, shortLoads>>

-----------------------------------------------------------------------------
(* Response thread of the client, and the load on each worker *)

ProcessResponseReplaces(w) ==
    LET m == Head(toScheduler[w]) IN
    /\ toScheduler[w] # <<>>
    /\ toScheduler' = [toScheduler EXCEPT ![w] = Tail(@)]
    /\ resForEachWorker' = [resForEachWorker EXCEPT ![m.req] = <<m.hits>>]
    /\ UNCHANGED <<mode, schedVars, reqsStatus, firstLookupTime, abortedLookups, toWorker, workerVars, shortLoads>>

\* Answers are collected by request id; the last one gives the minimum.
ProcessResponse(w) ==
    LET m == Head(toScheduler[w])
        all == Append(resForEachWorker[m.req], m.hits)
    IN  /\ toScheduler[w] # <<>>
        /\ toScheduler' = [toScheduler EXCEPT ![w] = Tail(@)]
        /\ IF Len(all) = Cardinality(Workers)
           THEN /\ resForEachWorker' = [resForEachWorker EXCEPT ![m.req] = <<>>]
                /\ reqsStatus' = [reqsStatus EXCEPT ![m.req] = Min(Range(all))]
           ELSE /\ resForEachWorker' = [resForEachWorker EXCEPT ![m.req] = all]
                /\ UNCHANGED reqsStatus
        /\ UNCHANGED <<mode, schedVars, firstLookupTime, abortedLookups, toWorker, workerVars, shortLoads>>

\* start_load_kv: pop_event asserts that the event is DONE; a future without a
\* result gives no chunk; otherwise all references of the result are given
\* back, those of the chunks that were not needed too.
Retrieve(w, r) ==
    LET e  == events[w][r]
        l  == <<r, e.attempt>>
        ok == e.status = "DONE" /\ lookup[w][l].phase \in {"loaded", "over"}
    IN  /\ w \in toLoad[r]
        /\ toLoad' = [toLoad EXCEPT ![r] = @ \ {w}]
        /\ events' = IF e.status = "DONE" THEN [events EXCEPT ![w][r] = NoEvent] ELSE events
        /\ buffers' = IF ok THEN [buffers EXCEPT ![w][l] = 0] ELSE buffers
        /\ shortLoads' = IF ok /\ Prefix(lookup[w][l]) >= promise[r]
                         THEN shortLoads ELSE shortLoads \cup {r}
        /\ UNCHANGED <<mode, req, attempt, promise, clientVars, toWorker, toScheduler, lookup>>

-----------------------------------------------------------------------------
\* What the tiers of a plan may load.
Actuals == UNION {[1..Len(p) -> UNION {0..p[i] : i \in 1..Len(p)}] : p \in mode.plans}

Next ==
    \/ \E r \in Reqs : FirstLookup(r)
    \/ \E r \in Reqs, s \in BOOLEAN : \E c \in 0..reqsStatus[r] : PollHit(r, c, s)
    \/ \E r \in Reqs : PollOngoing(r)
    \/ \E r \in Reqs, s \in BOOLEAN : PollTimeout(r, s)
    \/ \E r \in Reqs : PollRaises(r)
    \/ \E r \in Reqs : TimeoutPasses(r)
    \/ \E r \in Reqs, how \in {"finished", "aborted"} : Leave(r, how)
    \/ \E r \in Reqs : Preempt(r)
    \/ \E w \in Workers : RecvLookup(w)
    \/ \E w \in Workers : RecvCleanup(w)
    \/ \E w \in Workers, l \in LookupIds, p \in mode.plans : LookupTiers(w, l, p)
    \/ \E w \in Workers, l \in LookupIds, a \in Actuals : LoadDone(w, l, a)
    \/ \E w \in Workers, l \in LookupIds : LoadFail(w, l)
    \/ \E w \in Workers, l \in LookupIds : PrefetchAllDone(w, l)
    \/ \E w \in Workers : ProcessResponse(w)
    \/ \E w \in Workers, r \in Reqs : Retrieve(w, r)

Spec == Init /\ [][Next]_vars

\* The worker's threads and event loop, and the response thread, keep running;
\* loading tasks end.
WorkerStep(w) ==
    \/ RecvLookup(w) \/ RecvCleanup(w)
    \/ \E l \in LookupIds : \/ \E p \in mode.plans : LookupTiers(w, l, p)
                            \/ \E a \in Actuals : LoadDone(w, l, a)
                            \/ LoadFail(w, l)
                            \/ PrefetchAllDone(w, l)
FairSpec == Spec /\ \A w \in Workers : WF_vars(WorkerStep(w)) /\ WF_vars(ProcessResponse(w))

-----------------------------------------------------------------------------
(* Properties *)

\* Every variable has its type.
TypeOK ==
    /\ mode \in Modes
    /\ req \in [Reqs -> {"waiting", "running", "finished", "aborted"}]
    /\ attempt \in [Reqs -> 0..MaxAttempts]
    /\ promise \in [Reqs -> Nat] /\ toLoad \in [Reqs -> SUBSET Workers]
    /\ reqsStatus \in [Reqs -> Nat \cup {NotFound, Ongoing}]
    /\ firstLookupTime \in [Reqs -> {"unset", "set", "due"}]
    /\ \A r \in Reqs : Len(resForEachWorker[r]) < Cardinality(Workers)
    /\ abortedLookups \subseteq Reqs
    /\ buffers \in [Workers -> [LookupIds -> Nat]]
    /\ events \in [Workers -> [Reqs -> [status: {"NOT_FOUND", "ONGOING", "DONE"},
                                        attempt: 0..MaxAttempts]]]

\* A scheduled request finds on every worker the chunks its lookup promised:
\* "The number of retrieved tokens is less than the expected number of
\* tokens! This should not happen!", and pop_event's assertion does not fail.
LoadDelivers == shortLoads = {}

\* A cleanup never meets a lookup of the same request that is still loading
\* ("We wait for it to finish before cleanup"): it would be ignored and the
\* buffers that arrive later would stay.
CleanupAfterDone ==
    \A w \in Workers : \A i \in 1..Len(toWorker[w]) :
        toWorker[w][i].type = "cleanup" => events[w][toWorker[w][i].req].status # "ONGOING"

\* Prefetched buffers are never orphaned: those of a request that is looked up
\* once and not aborted belong to the event a retrieve will pop, whatever
\* timeouts, late answers and failed loads there are.
BuffersOwned ==
    \A w \in Workers, r \in Reqs :
        (buffers[w][<<r, 1>>] > 0 /\ attempt[r] = 1 /\ req[r] # "aborted")
            => events[w][r].status # "NOT_FOUND"

\* Every lookup is answered where tiers load what they promised: a request
\* that waits for its answer gets one, or leaves, or vLLM schedules it.
Answered == []<>(mode.partial \/ mode.fail \/ \A r \in Reqs : reqsStatus[r] # Ongoing)

\* Where every lookup hits on every worker and is used, also by a request that
\* is preempted and looked up again: when the requests are finished and the
\* sockets are empty, no worker holds a prefetched buffer.
AllUsed == /\ ~mode.partial /\ ~mode.fail /\ ~mode.timeout /\ ~mode.abort /\ ~mode.skip
           /\ <<>> \notin mode.plans
NothingLeft ==
    (/\ AllUsed
     /\ \A r \in mode.reqs : req[r] = "finished"
     /\ \A w \in Workers : toWorker[w] = <<>> /\ toScheduler[w] = <<>>
     /\ \A w \in Workers, l \in LookupIds : lookup[w][l].phase \in {"none", "over", "failedOver"})
    => \A w \in Workers, l \in LookupIds : buffers[w][l] = 0

\* What a lookup promises is loaded, and what was prefetched for it keeps an
\* owner and is given back.
LookupSafe == TypeOK /\ LoadDelivers /\ CleanupAfterDone /\ BuffersOwned /\ NothingLeft
=============================================================================
