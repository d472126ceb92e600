------------------------------ MODULE Service ------------------------------
(***************************************************************************)
(* The life of one LMCacheManager: the components it makes for its role,   *)
(* the health monitor (a PeriodicThread) that checks the remote backends   *)
(* and falls back on the local CPU, the offload server, and stop_services. *)
(* A store, a read from a remote backend and an offload request go on      *)
(* beside the monitor; the read runs on the event loop of the backends.    *)
(***************************************************************************)
EXTENDS Integers, Sequences, FiniteSets, SequencesExt

CONSTANTS
    Pages,       \* chunks the CPU allocator has room for
    MaxOffloads, \* requests to the offload server
    Confs        \* configurations, as described at ConfType

\* dp0: data_parallel_rank_local is 0; lookup: enable_scheduler_bypass_lookup;
\* policy: fallback_policy; hot: local_cpu; ping: support_ping() of the
\* connectors; irrec: making a connector may raise IrrecoverableException;
\* remotes: remote backends of the storage manager; faults: times one breaks,
\* comes back or loses a chunk; does: what happens.
ConfType ==
    [role: {"scheduler", "worker", "standalone"}, dp0: BOOLEAN, lookup: BOOLEAN,
     policy: {"recompute", "local_cpu"}, hot: BOOLEAN, ping: BOOLEAN, irrec: BOOLEAN,
     remotes: Nat, faults: Nat, does: SUBSET {"put", "get", "offload", "stop"}]

VARIABLES
    conf,
    started, ready,      \* start_services and post_init were called
    up,                  \* the remote stores that answer
    link,                \* the backends with a connection
    misses,              \* backends whose failed gets reached the threshold
    since,               \* failure_time of a check: "no", "fresh", "old"
    prev,                \* _previous_check_status
    healthy,             \* _healthy
    hm,                  \* the monitor's thread: where it is, which check, all_healthy
    skip,                \* StorageManager._bypassed_backends
    byCheck,             \* HealthMonitor._bypassed_backends
    orig,                \* _original_hot_cache
    use_hot, cached,     \* LocalCPUBackend.use_hot, entries of hot_cache
    putter, getter,      \* a store and a read under way
    osrv, offloads,      \* the offload server's thread, requests so far
    aux,                 \* what runs beside: API server thread, plugin processes
    stop, late, closed,  \* stop_services, threads that outlived their join, engine closed
    faults

remote == <<up, link, misses, faults>>
monitor == <<since, prev, healthy, hm, byCheck, orig>>
manager == <<conf, started, ready, aux, stop, late, closed>>
server == <<osrv, offloads>>
vars == <<remote, monitor, manager, server, skip, use_hot, cached, putter, getter>>

Remotes == 1..conf.remotes
NoPut == [at |-> "idle", local |-> FALSE, skipped |-> FALSE, early |-> FALSE]
NoGet == [at |-> "idle", from |-> 1, left |-> FALSE]

\* What the constructor makes for its role.
DpRank0 == IF conf.dp0 THEN {"api", "plugins"} ELSE {}
SchedulerComponents == {"lookup_client"} \cup (IF conf.lookup THEN {"engine"} ELSE {})
WorkerComponents == {"engine", "lookup_server", "offload"}
StandaloneComponents == {"engine", "api"}
Components ==
    CASE conf.role = "scheduler" -> SchedulerComponents \cup DpRank0
      [] conf.role = "worker" -> WorkerComponents \cup DpRank0
      [] conf.role = "standalone" -> StandaloneComponents
HasEngine == "engine" \in Components
\* LocalCPUBackend is there; a scheduler's storage manager has none.
HasCpu == HasEngine /\ conf.role # "scheduler"

Init ==
    /\ conf \in Confs
    /\ started = FALSE /\ ready = FALSE /\ aux = {}
    /\ up \in SUBSET Remotes /\ link = {} /\ misses = {}
    /\ since = [b \in Remotes |-> "no"] /\ prev = [b \in Remotes |-> TRUE]
    /\ healthy = TRUE /\ hm = [at |-> "none", i |-> 1, ok |-> TRUE]
    /\ byCheck = {} /\ orig = "none" /\ skip = {}
    /\ use_hot = conf.hot /\ cached = 0
    /\ putter = NoPut /\ getter = NoGet
    /\ osrv = IF "offload" \in Components THEN "recv" ELSE "none"
    /\ offloads = 0
    /\ stop = [k |-> 0, at |-> "idle"] /\ late = {} /\ closed = FALSE /\ faults = 0
-----------------------------------------------------------------------------
\* The CPU allocator.
InUse == cached + (IF putter.at # "idle" THEN 1 ELSE 0) + (IF getter.at = "read" THEN 1 ELSE 0)
            + (IF hm.at = "probe" THEN 1 ELSE 0)
\* A page is free or, with use_hot, one can be had by evicting an entry.
Room == InUse < Pages \/ (use_hot /\ cached > 0)
Evicted == IF InUse < Pages THEN cached ELSE cached - 1
\* The event loop is not caught in an allocation that spins.
LoopFree == getter.at # "alloc"

\* The value of use_hot a fallback saves.
Setting == CASE ~HasCpu -> "none" [] HasCpu /\ use_hot -> "on" [] HasCpu /\ ~use_hot -> "off"

\* clear() does nothing when use_hot is off.
Clear(on, n) == IF on THEN 0 ELSE n

ApiStart(a) == IF "api" \in Components THEN a \cup {"api"} ELSE a
LaunchPlugins(a) == IF "plugins" \in Components THEN a \cup {"plugins"} ELSE a

\* vLLM starts the services in the connector's constructor and calls
\* post_init when the KV caches are registered; the standalone service does
\* it the other way round.
StartServices ==
    /\ ~started /\ stop.k = 0 /\ (conf.role = "standalone" => ready)
    /\ started' = TRUE /\ aux' = LaunchPlugins(ApiStart(aux))
    /\ UNCHANGED <<remote, monitor, server, conf, ready, stop, late, closed, skip, use_hot,
                   cached, putter, getter>>

\* Without a check to run the monitor's thread is not started.
StartMonitor == hm' = [hm EXCEPT !.at = IF HasEngine /\ Remotes # {} THEN "wait" ELSE "none"]

PostInit ==
    /\ ~ready /\ stop.k = 0 /\ (conf.role # "standalone" => started)
    /\ ready' = TRUE
    /\ link' = IF HasEngine THEN up ELSE {}
    /\ StartMonitor
    /\ UNCHANGED <<up, misses, faults, since, prev, healthy, byCheck, orig, conf, started, aux,
                   stop, late, closed, server, skip, use_hot, cached, putter, getter>>

\* An API server told to exit ends, and a plugin may end, on its own.
AuxEnds(a) ==
    /\ a \in aux
    /\ a = "api" => stop.k > 4
    /\ aux' = aux \ {a}
    /\ UNCHANGED <<remote, monitor, server, conf, started, ready, stop, late, closed, skip,
                   use_hot, cached, putter, getter>>

\* A remote store breaks or comes back.
Flip(b) ==
    /\ faults < conf.faults /\ faults' = faults + 1
    /\ up' = IF b \in up THEN up \ {b} ELSE up \cup {b}
    /\ UNCHANGED <<link, misses, monitor, manager, server, skip, use_hot, cached, putter, getter>>
-----------------------------------------------------------------------------
(* The monitor's thread.                                                    *)
b0 == hm.i
Working == hm.at \in {"check", "since", "probe", "count", "on", "back"}

HmBegin ==
    /\ hm.at = "wait" /\ stop.k = 0
    /\ hm' = [at |-> "check", i |-> 1, ok |-> TRUE]
    /\ UNCHANGED <<remote, since, prev, healthy, byCheck, orig, manager, server, skip, use_hot,
                   cached, putter, getter>>

\* The stop event ends the wait between two rounds.
HmStopSeen ==
    /\ hm.at = "wait" /\ stop.k > 0 /\ hm' = [hm EXCEPT !.at = "ended"]
    /\ UNCHANGED <<remote, since, prev, healthy, byCheck, orig, manager, server, skip, use_hot,
                   cached, putter, getter>>

\* On to the next check; after the last one the round's verdict counts.
Advance(ok) ==
    IF hm.i < conf.remotes
    THEN /\ hm' = [at |-> "check", i |-> hm.i + 1, ok |-> ok]
         /\ UNCHANGED healthy
    ELSE /\ hm' = [hm EXCEPT !.at = "wait", !.ok = ok]
         /\ healthy' = ok

GoTo(at) == hm' = [hm EXCEPT !.at = at] /\ UNCHANGED healthy

\* Mutant: the setting saved at the first fallback is overwritten by later ones.
FallbackSavesAgain ==
    IF b0 \in byCheck THEN Advance(hm.ok) /\ UNCHANGED <<skip, byCheck, orig>>
    ELSE /\ orig' = Setting
         /\ skip' = skip \cup {b0} /\ byCheck' = byCheck \cup {b0}
         /\ GoTo("on")

\* _apply_local_cpu_fallback, up to the setting of use_hot.
Fallback ==
    IF b0 \in byCheck THEN Advance(hm.ok) /\ UNCHANGED <<skip, byCheck, orig>>
    ELSE /\ orig' = IF byCheck # {} THEN orig ELSE Setting
         /\ skip' = skip \cup {b0} /\ byCheck' = byCheck \cup {b0}
         /\ GoTo("on")

\* _recover_from_local_cpu_fallback, up to the restoring of use_hot.
Recover ==
    IF b0 \notin byCheck THEN Advance(hm.ok) /\ UNCHANGED <<skip, byCheck, orig>>
    ELSE /\ skip' = skip \ {b0} /\ byCheck' = byCheck \ {b0} /\ orig' = orig
         /\ IF byCheck = {b0} THEN GoTo("back") ELSE Advance(hm.ok)

\* What _run_all_checks does with the result of a check.
Judge(res) ==
    /\ prev' = [prev EXCEPT ![b0] = res]
    /\ CASE conf.policy = "local_cpu" /\ res /\ ~prev[b0] -> Recover
         [] conf.policy = "local_cpu" /\ ~res -> Fallback
         [] OTHER -> Advance(hm.ok /\ (conf.policy = "recompute" => res))
                        /\ UNCHANGED <<skip, byCheck, orig>>

Proceed(at) == GoTo(at) /\ UNCHANGED <<prev, skip, byCheck, orig>>

\* check(): _try_reinitialize_connection.
HmConnect ==
    /\ hm.at = "check"
    /\ IF b0 \in link \/ b0 \in up
       THEN link' = link \cup {b0} /\ Proceed("since")
       ELSE link' = link /\ Judge(FALSE)
    /\ UNCHANGED <<up, misses, faults, since, manager, server, use_hot, cached, putter, getter>>

\* init_connection raises IrrecoverableException: the thread ends for good.
HmIrrecoverable ==
    /\ hm.at = "check" /\ b0 \notin link /\ conf.irrec
    /\ hm' = [hm EXCEPT !.at = "dead"] /\ healthy' = FALSE
    /\ UNCHANGED <<remote, since, prev, byCheck, orig, manager, server, skip, use_hot, cached,
                   putter, getter>>

\* Within waiting_time_for_recovery (one round) the check fails; afterwards
\* it stores and reads a chunk, the page for which it waits for.
HmSince ==
    /\ hm.at = "since"
    /\ CASE since[b0] = "no" -> Proceed("count") /\ UNCHANGED <<since, cached>>
         [] since[b0] = "fresh" -> /\ since' = [since EXCEPT ![b0] = "old"]
                                   /\ Judge(FALSE) /\ UNCHANGED cached
         [] since[b0] = "old" /\ ~HasCpu -> Judge(FALSE) /\ UNCHANGED <<since, cached>>
         [] since[b0] = "old" /\ HasCpu -> /\ Room /\ cached' = Evicted
                                           /\ Proceed("probe") /\ UNCHANGED since
    /\ UNCHANGED <<remote, manager, server, use_hot, putter, getter>>

\* _put_and_get_check.  Its get counts like any other if it is what fails.
HmProbe ==
    /\ hm.at = "probe"
    /\ IF b0 \in up /\ LoopFree
       THEN since' = [since EXCEPT ![b0] = "no"] /\ Proceed("count") /\ UNCHANGED misses
       ELSE UNCHANGED since /\ Judge(FALSE) /\ misses' \in {misses, misses \cup {b0}}
    /\ UNCHANGED <<up, link, faults, manager, server, use_hot, cached, putter, getter>>

\* Mutant: the count of failed gets is read and not cleared.
HmCountKeeps ==
    /\ hm.at = "count" /\ misses' = misses
    /\ IF b0 \in misses
       THEN since' = [since EXCEPT ![b0] = "fresh"] /\ Judge(FALSE)
       ELSE since' = since /\ Judge(conf.ping => (b0 \in up /\ LoopFree))
    /\ UNCHANGED <<up, link, faults, manager, server, use_hot, cached, putter, getter>>

\* The failed gets of the interval, then the ping.
HmCount ==
    /\ hm.at = "count"
    /\ misses' = misses \ {b0}
    /\ IF b0 \in misses
       THEN since' = [since EXCEPT ![b0] = "fresh"] /\ Judge(FALSE)
       ELSE since' = since /\ Judge(conf.ping => (b0 \in up /\ LoopFree))
    /\ UNCHANGED <<up, link, faults, manager, server, use_hot, cached, putter, getter>>

HotOn ==
    /\ hm.at = "on"
    /\ use_hot' = (HasCpu \/ use_hot) /\ Advance(hm.ok)
    /\ UNCHANGED <<remote, since, prev, byCheck, orig, manager, server, skip, cached, putter, getter>>

\* use_hot is restored first; the hot cache is cleared if it was off.
HotBack ==
    /\ hm.at = "back"
    /\ use_hot' = IF orig = "none" THEN use_hot ELSE orig = "on"
    /\ cached' = IF orig = "off" THEN Clear(use_hot', cached) ELSE cached
    /\ orig' = "none" /\ Advance(hm.ok)
    /\ UNCHANGED <<remote, since, prev, byCheck, manager, server, skip, putter, getter>>

HealthMonitor ==
    HmBegin \/ HmStopSeen \/ HmConnect \/ HmSince \/ HmProbe \/ HmCount \/ HotOn \/ HotBack
-----------------------------------------------------------------------------
(* A store: StorageManager.batched_put goes through the backends, the local *)
(* CPU first; neither it nor LocalCPUBackend takes the monitor's lock.      *)
Serving == ready /\ HasCpu /\ stop.k = 0 /\ healthy

PutStart ==
    /\ "put" \in conf.does /\ Serving /\ putter.at = "idle" /\ Room
    /\ cached' = Evicted /\ putter' = [NoPut EXCEPT !.at = "cpu"]
    /\ UNCHANGED <<remote, monitor, manager, server, skip, use_hot, getter>>

\* batched_submit_put_task of LocalCPUBackend.  early: the fallback in force
\* when the store ends, if any, was not complete yet.
PutCpu ==
    /\ putter.at = "cpu"
    /\ putter' = [putter EXCEPT !.at = "remote", !.local = use_hot,
                                !.early = skip = {} \/ hm.at = "on"]
    /\ UNCHANGED <<remote, monitor, manager, server, skip, use_hot, cached, getter>>

\* The remote backends; a bypassed one is passed over.
PutRemotes ==
    /\ putter.at = "remote"
    /\ putter' = [putter EXCEPT !.at = "done", !.skipped = skip # {}]
    /\ UNCHANGED <<remote, monitor, manager, server, skip, use_hot, cached, getter>>

PutEnd ==
    /\ putter.at = "done"
    /\ cached' = IF putter.local THEN cached + 1 ELSE cached
    /\ putter' = NoPut
    /\ UNCHANGED <<remote, monitor, manager, server, skip, use_hot, getter>>
-----------------------------------------------------------------------------
(* A read from a remote backend: the connector allocates on the event loop, *)
(* in a loop that only ends with a page.                                    *)
GetStart(b) ==
    /\ "get" \in conf.does /\ Serving /\ getter.at = "idle" /\ b \in link \ skip
    /\ getter' = [NoGet EXCEPT !.at = "alloc", !.from = b]
    /\ UNCHANGED <<remote, monitor, manager, server, skip, use_hot, cached, putter>>

GetAlloc ==
    /\ getter.at = "alloc" /\ Room
    /\ cached' = Evicted /\ getter' = [getter EXCEPT !.at = "read"]
    /\ UNCHANGED <<remote, monitor, manager, server, skip, use_hot, putter>>

\* The caller gives up after blocking_timeout_secs; the coroutine goes on.
GetTimesOut ==
    /\ getter.at # "idle" /\ ~getter.left
    /\ getter' = [getter EXCEPT !.left = TRUE]
    /\ misses' \in {misses, misses \cup {getter.from}}
    /\ UNCHANGED <<up, link, faults, monitor, manager, server, skip, use_hot, cached, putter>>

\* A chunk that was read is also put into the hot cache.
GetRead ==
    /\ getter.at = "read" /\ getter' = NoGet
    /\ \/ /\ getter.from \in up
          /\ cached' = IF use_hot /\ ~getter.left THEN cached + 1 ELSE cached
          /\ UNCHANGED <<misses, faults>>
       \/ /\ getter.from \notin up \/ faults < conf.faults
          /\ faults' = IF getter.from \in up THEN faults + 1 ELSE faults
          /\ misses' \in {misses, misses \cup {getter.from}}
          /\ UNCHANGED cached
    /\ UNCHANGED <<up, link, monitor, manager, server, skip, use_hot, putter>>

Store == PutCpu \/ PutRemotes \/ PutEnd
Read == GetAlloc \/ GetRead
-----------------------------------------------------------------------------
(* The offload server: a REP socket, one request after the other.           *)
Unserved == <<remote, monitor, manager, skip, use_hot, cached, putter, getter>>
Running == stop.k < 2   \* running is reset when the manager closes the server

OffloadRecv ==
    /\ "offload" \in conf.does /\ osrv = "recv" /\ Running /\ offloads < MaxOffloads
    /\ osrv' = "store" /\ offloads' = offloads + 1
    /\ UNCHANGED Unserved

\* Before post_init there is no storage manager and store() raises: no reply.
OffloadStore ==
    /\ osrv = "store"
    /\ osrv' = CASE ~Running -> "ended" [] Running /\ ready -> "recv" [] Running /\ ~ready -> "owes"
    /\ UNCHANGED <<offloads, Unserved>>

\* recv on a REP socket that owes a reply raises ZMQError, and so may one
\* whose socket was closed: the loop is left.
OffloadRaises ==
    /\ osrv = "owes" \/ (osrv = "recv" /\ ~Running)
    /\ osrv' = "ended"
    /\ UNCHANGED <<offloads, Unserved>>
-----------------------------------------------------------------------------
(* stop_services: each component is closed in a thread of its own, which    *)
(* the executor's `with' waits for whether or not the timeout has passed.   *)
StopOrder ==
    <<"health", "offload", "plugins", "api", "lookup_server", "lookup_client", "engine">>
Closing == IF stop.k \in 1..Len(StopOrder) THEN StopOrder[stop.k] ELSE "none"
Present(c) == IF c = "health" THEN ready ELSE c \in Components
Stopped == stop.k > Len(StopOrder)

\* The thread of shutdown is the one that stores.
StopServices ==
    /\ "stop" \in conf.does /\ started /\ stop.k = 0 /\ putter.at = "idle"
    /\ stop' = [k |-> 1, at |-> "closing"]
    /\ UNCHANGED <<remote, monitor, server, conf, started, ready, aux, late, closed, skip, use_hot,
                   cached, putter, getter>>

NextClose == stop' = [stop EXCEPT !.k = @ + 1]
\* join(timeout): the thread has ended, or it is left behind.
Join(c, ended) ==
    \/ ended /\ late' = late
    \/ ~ended /\ late' = late \cup {c}

StopHealth == Join("health", hm.at \in {"none", "dead", "ended"})
CloseOffload == Join("offload", osrv = "ended")
\* Stopping the plugins and the API server waits for nothing.
StopPlugins(a) == a \ {"plugins"}

\* Every backend's close() is waited for without a limit, and a remote one
\* runs on the event loop; one without a connection only raises.
CloseBackends == link = {} \/ LoopFree

CloseComponent ==
    /\ stop.k > 0 /\ ~Stopped /\ Present(Closing)
    /\ CASE Closing = "health" -> StopHealth /\ UNCHANGED <<aux, closed>>
         [] Closing = "offload" -> CloseOffload /\ UNCHANGED <<aux, closed>>
         [] Closing = "plugins" -> aux' = StopPlugins(aux) /\ UNCHANGED <<late, closed>>
         [] Closing \in {"api", "lookup_server", "lookup_client"} -> UNCHANGED <<aux, late, closed>>
         [] Closing = "engine" -> CloseBackends /\ closed' = TRUE /\ UNCHANGED <<aux, late>>
    /\ NextClose
    /\ UNCHANGED <<remote, monitor, server, conf, started, ready, skip, use_hot, cached, putter,
                   getter>>

CloseAbsent ==
    /\ stop.k > 0 /\ ~Stopped /\ ~Present(Closing) /\ NextClose
    /\ UNCHANGED <<remote, monitor, server, conf, started, ready, aux, late, closed, skip, use_hot,
                   cached, putter, getter>>

Shutdown == CloseComponent \/ CloseAbsent
-----------------------------------------------------------------------------
Next ==
    \/ StartServices \/ PostInit \/ StopServices \/ Shutdown
    \/ HealthMonitor \/ HmIrrecoverable
    \/ PutStart \/ Store \/ Read \/ GetTimesOut
    \/ OffloadRecv \/ OffloadStore \/ OffloadRaises
    \/ \E b \in Remotes : Flip(b) \/ GetStart(b)
    \/ \E a \in aux : AuxEnds(a)

Spec == Init /\ [][Next]_vars
\* The monitor's thread, the stores and reads under way and stop_services go
\* on; nobody has to start, stop or repair anything.
FairSpec ==
    /\ Spec
    /\ WF_vars(HealthMonitor) /\ WF_vars(Store) /\ WF_vars(Read) /\ WF_vars(Shutdown)
-----------------------------------------------------------------------------
(* Between two rounds of the monitor the storage manager passes over exactly *)
(* the backends whose last check failed (fallback local_cpu), use_hot has    *)
(* its configured value when there are none and is on when there are some,   *)
(* and the engine is healthy unless a check failed under recompute; also     *)
(* after an IrrecoverableException, which leaves it unhealthy.               *)
FallbackExact ==
    hm.at \in {"none", "wait", "ended", "dead"} =>
        /\ skip = {b \in Remotes : conf.policy = "local_cpu" /\ ~prev[b]}
        /\ skip = byCheck
        /\ HasCpu => use_hot = (conf.hot \/ skip # {})
        /\ healthy = (hm.at # "dead" /\ (conf.policy = "recompute" => \A b \in Remotes : prev[b]))

(* A chunk whose store passed over a bypassed backend is in the hot cache,   *)
(* whatever the monitor did meanwhile, unless the store came to the local    *)
(* CPU backend before the fallback was complete.                             *)
SkippedIsKept ==
    putter.at = "done" /\ putter.skipped => putter.local \/ putter.early

(* When the engine is closed no round of the monitor and no offload request  *)
(* is under way, unless its thread outlived the time stop_services gives it. *)
ClosedIsQuiet ==
    closed => /\ Working => "health" \in late
              /\ osrv = "store" => "offload" \in late

\* No page, and nothing that will be evicted: the reader spins.
Stuck == getter.at = "alloc" /\ ~Room

(* Once the remote stores answer again, no backend stays bypassed and the    *)
(* engine becomes healthy, unless the monitor has died or a read spins on    *)
(* the event loop for a page, over and over; and stop_services ends unless   *)
(* a read spins.                                                             *)
Recovers ==
    /\ []<>(\/ ~ready \/ stop.k > 0 \/ hm.at = "dead" \/ up # Remotes
            \/ skip = {} /\ healthy
            \/ Stuck)
    /\ []<>(stop.k = 0 \/ Stopped \/ Stuck)

(* The fallback, the stores beside it and the shutdown.                      *)
ServiceSafe == FallbackExact /\ SkippedIsKept /\ ClosedIsQuiet

(* "Clear hot_cache if it was originally disabled": when the last backend    *)
(* has recovered and use_hot was off before, the hot cache is empty.         *)
RecoveryClears ==
    [][(hm.at = "back" /\ hm'.at # "back" /\ orig = "off") => cached' = 0]_vars
=============================================================================
