----------------------------- MODULE MCLifecycle -----------------------------
(* What starts, stops and recovers: the executors of the storage backends,   *)
(* the services of LMCacheManager with the HealthMonitor, and the scripts    *)
(* that run vLLM servers.  A behaviour is one of one part; the state of the  *)
(* other parts stays as it is.                                               *)
EXTENDS PQExecutor, TLC

CONSTANTS
    j1, j2, j3,
    Parts,                       \* which of "pq", "service" and "sweep" to run
    Pages, MaxOffloads, Confs,   \* of Service
    Plans, MaxSamples            \* of Sweep

VARIABLES
    part,
    conf, started, ready, up, link, misses, since, prev, healthy, hm, skip, byCheck, orig,
    use_hot, cached, putter, getter, osrv, offloads, aux, stop, late, closed, faults,
    plan, step, at, servers, orphan, disk, mon, run, rec, file, opened, past

serviceVars ==
    <<conf, started, ready, up, link, misses, since, prev, healthy, hm, skip, byCheck, orig,
      use_hot, cached, putter, getter, osrv, offloads, aux, stop, late, closed, faults>>
sweepVars == <<plan, step, at, servers, orphan, disk, mon, run, rec, file, opened, past>>

SV == INSTANCE Service
SW == INSTANCE Sweep

ASSUME ServiceAssumption == Confs \subseteq SV!ConfType
ASSUME SweepAssumption == Plans \subseteq SW!PlanType

Pick(p, S) == IF part = p THEN S ELSE {CHOOSE x \in S : TRUE}

MCInit ==
    /\ part \in Parts
    /\ mode \in Pick("pq", Modes) /\ Init
    /\ conf \in Pick("service", Confs)
    /\ up \in (IF part = "service" THEN SUBSET (1..conf.remotes) ELSE {{}}) /\ SV!Init
    /\ plan \in Pick("sweep", Plans) /\ SW!Init
PQ(A) == part = "pq" /\ A /\ UNCHANGED <<part, serviceVars, sweepVars>>
Srv(A) == part = "service" /\ A /\ UNCHANGED <<part, vars, sweepVars>>
Swp(A) == part = "sweep" /\ A /\ UNCHANGED <<part, vars, serviceVars>>
MCNext == PQ(Next) \/ Srv(SV!Next) \/ Swp(SW!Next)
MCVars == <<part, vars, serviceVars, sweepVars>>
MCSpec == MCInit /\ [][MCNext]_MCVars

\* The fairness of the parts: FairSpec of PQExecutor, of Service and of Sweep.
\* As only one part runs, one condition can state a fairness of each of them.
MCFairSpec ==
    /\ MCSpec
    /\ WF_MCVars(PQ(Shutdown) \/ Srv(SV!HealthMonitor) \/ Swp(SW!ScriptStep))
    /\ WF_MCVars(PQ(JoinDone) \/ Srv(SV!Store))
    /\ WF_MCVars(PQ(GatherDone) \/ Srv(SV!Read))
    /\ WF_MCVars(Srv(SV!Shutdown))
    /\ \A w \in Workers : WF_MCVars(PQ(WorkerStep(w)))

\* Three jobs of two priorities on two workers.
DiskPriority == (j1 :> 0) @@ (j2 :> 2) @@ (j3 :> 2)

\* The thread pool executor as LocalDiskWorker closes it, and both executors
\* without wait; the async executor with wait, as the connectors close it.
SafeModes == {m \in ModeType : ~m.onLoop /\ (m.wait => m.pool)}
AsyncWait == {m \in ModeType : ~m.pool /\ m.wait /\ ~m.late}

\* One or two remote backends.  What happens beside the monitor is spread over
\* the configurations to keep each of them small.
C(role, policy, hot, ping, remotes, does) ==
    [role |-> role, dp0 |-> FALSE, lookup |-> TRUE, policy |-> policy, hot |-> hot, ping |-> ping,
     irrec |-> FALSE, remotes |-> remotes, does |-> does,
     faults |-> IF "get" \in does THEN 1 ELSE 2]
AllConfs ==
    {C("worker", "local_cpu", h, TRUE, 2, {"put"}) : h \in BOOLEAN}
    \cup {C("worker", "local_cpu", FALSE, FALSE, 1, {"put", "get"}),
          C("worker", "local_cpu", FALSE, TRUE, 1, {"put", "get", "stop"}),
          C("worker", "recompute", TRUE, TRUE, 1, {"put", "get"}),
          C("worker", "recompute", FALSE, FALSE, 2, {"get"}),
          [C("worker", "recompute", TRUE, TRUE, 1, {"offload", "stop"}) EXCEPT !.dp0 = TRUE],
          [C("worker", "local_cpu", FALSE, TRUE, 2, {"stop"}) EXCEPT !.irrec = TRUE],
          [C("standalone", "recompute", TRUE, TRUE, 1, {"get", "stop"}) EXCEPT !.irrec = TRUE],
          C("scheduler", "local_cpu", TRUE, TRUE, 2, {"stop"}),
          [C("scheduler", "recompute", TRUE, TRUE, 1, {"stop"}) EXCEPT !.lookup = FALSE]}
\* A fallback with the hot cache off.
ColdConfs == {C("worker", "local_cpu", FALSE, TRUE, 1, {"put"})}

\* Every script; what may go wrong is spread over plans to keep them small.
P(script, configs, may) == [script |-> script, configs |-> configs, may |-> may]
AllPlans ==
    {P("vram", <<"native", "cachegen">>, {"slow_stop", "slow"}),
     P("vram", <<"cachegen", "cachegen">>, {"die", "late"}),
     P("sweep", <<"native", "cachegen">>, {"slow", "interrupt"}),
     P("quick", <<"native", "cachegen">>, {"slow", "slow_stop", "die"}),
     P("extended", <<"native", "cachegen">>, {"slow_stop"}),
     P("highfreq", <<"native", "cachegen">>, {"late"}),
     P("logs", <<"native", "cachegen">>, {"slow", "die"}),
     P("full", <<"native", "cachegen", "native">>, {"die", "slow", "interrupt"}),
     P("progress", <<"cachegen", "cachegen", "native">>, {"slow", "interrupt"}),
     P("progress", <<"cachegen", "native">>, {"chatty", "die", "interrupt"}),
     P("complete", <<"cachegen", "native">>, {"chatty", "slow"})}
-----------------------------------------------------------------------------
(* Properties.                                                               *)

\* LMCacheManager and HealthMonitor: between two rounds exactly the backends
\* whose check failed are bypassed, a chunk that a bypassed backend was not
\* given is in the hot cache, and the engine is closed with nothing under way.
ServiceSafe == SV!ServiceSafe

\* A remote store that answers again is used again, and stop_services ends.
Recovers == SV!Recovers

\* When the last backend has recovered and use_hot was off before, the hot
\* cache is empty ("Clear hot_cache if it was originally disabled").
RecoveryClears == SV!RecoveryClears

\* The sweep scripts: every result is of the server and the directory of its
\* configuration, and a written result survives an interrupted sweep.
SweepKeepsResults == SW!ResultsRight /\ SW!ProgressKept

\* Every sweep ends: no server, monitor thread or full pipe holds it for ever.
SweepEnds == []<>(part # "sweep" \/ step = "end")
=============================================================================
