--------------------------- MODULE LifecycleProofs ---------------------------
(***************************************************************************)
(* Proofs about the priority-queue executors, for any set of jobs and any  *)
(* finite set of workers; about LMCacheManager and its HealthMonitor, for  *)
(* any number of remote backends and any choice of roles; and about the    *)
(* scripts that run vLLM servers, for any list of configurations and any   *)
(* choice of what may go wrong.                                            *)
(***************************************************************************)
EXTENDS MCLifecycle, DictionaryProofs

-----------------------------------------------------------------------------
(* The executors: what join() waits for.                                    *)

\* A job whose submitter waits although no worker will ever run it: its worker
\* was cancelled inside it.
Abandoned ==
    {j \in Jobs : /\ doneFuture[j] = "pending" /\ j \notin queued
                  /\ \A w \in Workers : j \notin running[w]}

\* A worker awaits a job exactly while it runs one; the queue is finite, its
\* jobs are awaited by their submitters and none of them is being run.
WorkersRun ==
    /\ IsFiniteSet(queued)
    /\ \A j \in queued : doneFuture[j] = "pending"
    /\ \A w \in Workers :
          /\ worker[w] = "run" <=> running[w] # {}
          /\ \A j \in running[w] : doneFuture[j] # "none" /\ j \notin queued

\* Before _shutdown_async nothing is cancelled; after it there is a sentinel for
\* every worker that has not left, and one too many for each that was cancelled
\* inside a job: that sentinel keeps join() waiting.
SentinelsCover ==
    /\ shutdown \in {"no", "scheduled"} =>
          /\ sentinels = 0 /\ toCancel = {} /\ Abandoned = {} /\ Alive = Workers
    /\ shutdown \notin {"no", "scheduled"} => sentinels >= Cardinality(Alive)
    /\ Abandoned # {} => sentinels > Cardinality(Alive)

\* join() has returned only when nothing was left, and nothing comes after it.
JoinedEmpty ==
    shutdown \in {"joined", "gather", "returned"} /\ Wait /\ ~LateSubmits => unfinished = 0

PoolInv == TypeOK /\ CountExact /\ WorkersRun /\ SentinelsCover /\ JoinedEmpty

-----------------------------------------------------------------------------
\* The sets that are counted are finite.
LEMMA CountedSets ==
    ASSUME TypeOK, WorkersRun
    PROVE  /\ IsFiniteSet(queued) /\ Cardinality(queued) \in Nat
           /\ IsFiniteSet(RunningWorkers) /\ Cardinality(RunningWorkers) \in Nat
           /\ IsFiniteSet(Alive) /\ Cardinality(Alive) \in Nat
           /\ Cardinality(Workers) \in Nat \ {0}
<1>1. IsFiniteSet(RunningWorkers) /\ IsFiniteSet(Alive)
  BY WorkerAssumption, FS_Subset DEF RunningWorkers, Alive
<1>2. Cardinality(Workers) # 0
  BY WorkerAssumption, FS_EmptySet
<1> QED BY <1>1, <1>2, WorkerAssumption, FS_CardinalityType DEF WorkersRun

\* The initial states satisfy the inductive invariant.
LEMMA InitIInv == Init => PoolInv
<1> SUFFICES ASSUME Init PROVE PoolInv
  OBVIOUS
<1>1. TypeOK
  BY PriorityAssumption DEF Init, TypeOK
<1>2. RunningWorkers = {} /\ Abandoned = {} /\ Alive = Workers
  BY DEF Init, RunningWorkers, Abandoned, Alive
<1>3. CountExact
  BY <1>2, FS_EmptySet DEF Init, CountExact
<1> QED BY <1>1, <1>2, <1>3, FS_EmptySet DEF Init, PoolInv, WorkersRun, SentinelsCover, JoinedEmpty

-----------------------------------------------------------------------------
(* Each action preserves the inductive invariant. *)

\* submit_job adds a job that is neither queued nor run, and one to the count.
LEMMA SubmitJobIInv == \A j \in Jobs : PoolInv /\ SubmitJob(j) => PoolInv'
<1> SUFFICES ASSUME NEW j \in Jobs, PoolInv, SubmitJob(j) PROVE PoolInv'
  OBVIOUS
<1> USE DEF SubmitJob
<1>1. TypeOK'
  BY DEF PoolInv, TypeOK
<1>2. j \notin queued /\ \A w \in Workers : j \notin running[w]
  BY DEF PoolInv, WorkersRun
<1>3. IsFiniteSet(queued') /\ Cardinality(queued') = Cardinality(queued) + 1
  BY <1>2, FS_AddElement DEF PoolInv, WorkersRun
<1>4. CountExact'
  <2>1. RunningWorkers' = RunningWorkers
    BY DEF RunningWorkers
  <2> QED BY <1>3, <2>1, CountedSets DEF PoolInv, CountExact, TypeOK
<1>5. WorkersRun'
  BY <1>2, <1>3 DEF PoolInv, WorkersRun, TypeOK
<1>6. Abandoned' = Abandoned /\ Alive' = Alive
  BY <1>2 DEF Abandoned, Alive, PoolInv, TypeOK
<1>7. SentinelsCover'
  BY <1>6 DEF PoolInv, SentinelsCover
<1>8. JoinedEmpty'
  BY DEF PoolInv, JoinedEmpty, LateSubmits, Wait
<1> QED BY <1>1, <1>4, <1>5, <1>7, <1>8 DEF PoolInv

\* A job that a worker takes is still one item of outstanding work.
LEMMA GetJobIInv == \A w \in Workers, j \in Jobs : PoolInv /\ GetJob(w, j) => PoolInv'
<1> SUFFICES ASSUME NEW w \in Workers, NEW j \in Jobs, PoolInv, GetJob(w, j) PROVE PoolInv'
  OBVIOUS
<1> USE DEF GetJob, First
<1>1. TypeOK'
  BY DEF PoolInv, TypeOK
<1>2. IsFiniteSet(queued') /\ Cardinality(queued') = Cardinality(queued) - 1
  BY FS_RemoveElement DEF PoolInv, WorkersRun
<1>3. w \notin RunningWorkers /\ RunningWorkers' = RunningWorkers \cup {w}
  BY DEF RunningWorkers, PoolInv, TypeOK
<1>4. Cardinality(RunningWorkers') = Cardinality(RunningWorkers) + 1
  BY <1>3, CountedSets, FS_AddElement DEF PoolInv
<1>5. CountExact'
  BY <1>2, <1>4, CountedSets DEF PoolInv, CountExact, TypeOK
<1>6. WorkersRun'
  BY <1>2 DEF PoolInv, WorkersRun, TypeOK
<1>7. Abandoned' = Abandoned
  BY DEF Abandoned, PoolInv, TypeOK, WorkersRun
<1>8. Alive' = Alive
  BY DEF Alive, PoolInv, TypeOK
<1>9. SentinelsCover'
  BY <1>7, <1>8 DEF PoolInv, SentinelsCover
<1>10. JoinedEmpty'
  BY DEF PoolInv, JoinedEmpty, LateSubmits, Wait
<1> QED BY <1>1, <1>5, <1>6, <1>9, <1>10 DEF PoolInv

\* A worker inside a job is outstanding work, so the count is not zero.
LEMMA RunningCounted ==
    ASSUME PoolInv, NEW w \in Workers, worker[w] = "run"
    PROVE  /\ unfinished > 0
           /\ IsFiniteSet(RunningWorkers \ {w})
           /\ Cardinality(RunningWorkers \ {w}) = Cardinality(RunningWorkers) - 1
           /\ Cardinality(RunningWorkers) > 0
<1>1. w \in RunningWorkers
  BY DEF RunningWorkers
<1>2. Cardinality(RunningWorkers) > 0
  BY <1>1, CountedSets, FS_EmptySet DEF PoolInv
<1>3. unfinished > 0
  BY <1>2, CountedSets DEF PoolInv, CountExact, TypeOK
<1> QED BY <1>1, <1>2, <1>3, CountedSets, FS_RemoveElement DEF PoolInv

\* A job that ends resolves its future and leaves the count.
LEMMA JobDoneIInv == \A w \in Workers : PoolInv /\ JobDone(w) => PoolInv'
<1> SUFFICES ASSUME NEW w \in Workers, PoolInv, JobDone(w) PROVE PoolInv'
  OBVIOUS
<1> USE DEF JobDone, TaskDone
<1>1. unfinished > 0 /\ unfinished \in Nat
  BY RunningCounted DEF PoolInv, TypeOK
<1>2. TypeOK'
  BY <1>1 DEF PoolInv, TypeOK
<1>3. RunningWorkers' = RunningWorkers \ {w}
  BY DEF RunningWorkers, PoolInv, TypeOK
<1>4. CountExact'
  BY <1>3, RunningCounted, CountedSets DEF PoolInv, CountExact, TypeOK
<1>5. WorkersRun'
  BY DEF PoolInv, WorkersRun, TypeOK
<1>6. Abandoned' = Abandoned
  BY DEF Abandoned, PoolInv, TypeOK, WorkersRun
<1>7. Alive' = Alive
  BY DEF Alive, PoolInv, TypeOK
<1>8. SentinelsCover'
  BY <1>6, <1>7 DEF PoolInv, SentinelsCover
<1>9. JoinedEmpty'
  BY <1>1 DEF PoolInv, JoinedEmpty, LateSubmits, Wait
<1> QED BY <1>2, <1>4, <1>5, <1>8, <1>9 DEF PoolInv

\* A worker that leaves with a sentinel takes one sentinel from the others' surplus.
LEMMA GetSentinelIInv == \A w \in Workers : PoolInv /\ GetSentinel(w) => PoolInv'
<1> SUFFICES ASSUME NEW w \in Workers, PoolInv, GetSentinel(w) PROVE PoolInv'
  OBVIOUS
<1> USE DEF GetSentinel, TaskDone
<1>1. unfinished > 0 /\ unfinished \in Nat /\ sentinels \in Nat
  BY CountedSets DEF PoolInv, TypeOK, CountExact
<1>2. TypeOK'
  BY <1>1 DEF PoolInv, TypeOK
<1>3. RunningWorkers' = RunningWorkers
  BY DEF RunningWorkers, PoolInv, TypeOK
<1>4. CountExact'
  <2>1. Cardinality(queued) \in Nat /\ Cardinality(RunningWorkers) \in Nat
    BY CountedSets DEF PoolInv
  <2>2. unfinished = Cardinality(queued) + sentinels + Cardinality(RunningWorkers)
    BY DEF PoolInv, CountExact
  <2> QED BY <1>1, <1>3, <2>1, <2>2 DEF CountExact
<1>5. WorkersRun'
  BY DEF PoolInv, WorkersRun, TypeOK
<1>6. Abandoned' = Abandoned
  BY DEF Abandoned
<1>7. w \in Alive /\ Alive' = Alive \ {w}
  BY DEF Alive, PoolInv, TypeOK
<1>8. Cardinality(Alive') = Cardinality(Alive) - 1
  BY <1>7, CountedSets, FS_RemoveElement DEF PoolInv
<1>9. shutdown \notin {"no", "scheduled"} /\ shutdown' \notin {"no", "scheduled"}
  BY <1>1 DEF PoolInv, SentinelsCover
<1>10. SentinelsCover'
  BY <1>1, <1>6, <1>8, <1>9, CountedSets DEF PoolInv, SentinelsCover
<1>11. JoinedEmpty'
  BY <1>1 DEF PoolInv, JoinedEmpty, LateSubmits, Wait
<1> QED BY <1>2, <1>4, <1>5, <1>10, <1>11 DEF PoolInv

\* A worker cancelled inside a job abandons it and leaves a sentinel behind.
LEMMA CancelledIInv == \A w \in Workers : PoolInv /\ Cancelled(w) => PoolInv'
<1> SUFFICES ASSUME NEW w \in Workers, PoolInv, Cancelled(w) PROVE PoolInv'
  OBVIOUS
<1> USE DEF Cancelled
<1>1. shutdown \notin {"no", "scheduled"}
  BY DEF PoolInv, SentinelsCover
<1>2. CASE worker[w] = "run"
  <2> USE <1>2 DEF TaskDone
  <2>1. unfinished > 0 /\ unfinished \in Nat /\ sentinels \in Nat
    BY RunningCounted DEF PoolInv, TypeOK
  <2>2. TypeOK'
    BY <2>1 DEF PoolInv, TypeOK
  <2>3. RunningWorkers' = RunningWorkers \ {w}
    BY DEF RunningWorkers, PoolInv, TypeOK
  <2>4. CountExact'
    BY <2>1, <2>3, RunningCounted, CountedSets DEF PoolInv, CountExact
  <2>5. WorkersRun'
    BY DEF PoolInv, WorkersRun, TypeOK
  <2>6. w \in Alive /\ Alive' = Alive \ {w}
    BY DEF Alive, PoolInv, TypeOK
  <2>7. Cardinality(Alive') = Cardinality(Alive) - 1
    BY <2>6, CountedSets, FS_RemoveElement DEF PoolInv
  <2>8. shutdown' \notin {"no", "scheduled"}
    BY <1>1
  <2>9. SentinelsCover'
    BY <1>1, <2>1, <2>7, <2>8, CountedSets DEF PoolInv, SentinelsCover
  <2>10. JoinedEmpty'
    BY <2>1 DEF PoolInv, JoinedEmpty, LateSubmits, Wait
  <2> QED BY <2>2, <2>4, <2>5, <2>9, <2>10 DEF PoolInv
<1>3. CASE worker[w] # "run"
  <2>1. worker[w] = "exit" /\ running[w] = {}
    BY <1>3 DEF PoolInv, TypeOK, WorkersRun
  <2>2. worker' = worker /\ running' = running
    BY <2>1 DEF PoolInv, TypeOK
  <2>3. RunningWorkers' = RunningWorkers /\ Alive' = Alive /\ Abandoned' = Abandoned
    BY <2>2 DEF RunningWorkers, Alive, Abandoned
  <2>4. TypeOK' /\ CountExact' /\ WorkersRun'
    BY <1>3, <2>2, <2>3 DEF PoolInv, TypeOK, CountExact, WorkersRun
  <2>5. SentinelsCover' /\ JoinedEmpty'
    BY <1>1, <1>3, <2>3 DEF PoolInv, SentinelsCover, JoinedEmpty, LateSubmits, Wait
  <2> QED BY <2>4, <2>5 DEF PoolInv
<1> QED BY <1>2, <1>3

\* The shutdown call itself changes nothing that is counted.
LEMMA ShutdownCallIInv == PoolInv /\ ShutdownCall => PoolInv'
<1> SUFFICES ASSUME PoolInv, ShutdownCall PROVE PoolInv'
  OBVIOUS
<1>1. Alive' = Alive /\ Abandoned' = Abandoned /\ RunningWorkers' = RunningWorkers
  BY DEF ShutdownCall, Alive, Abandoned, RunningWorkers
<1> QED BY <1>1 DEF ShutdownCall, PoolInv, TypeOK, CountExact, WorkersRun, SentinelsCover, JoinedEmpty,
                    LateSubmits, Wait

\* _shutdown_async finds no job abandoned and adds a sentinel for each worker.
LEMMA ShutdownIInv == PoolInv /\ Shutdown => PoolInv'
<1> SUFFICES ASSUME PoolInv, Shutdown PROVE PoolInv'
  OBVIOUS
<1> USE DEF Shutdown
<1>1. Alive' = Alive /\ Abandoned' = Abandoned /\ RunningWorkers' = RunningWorkers
  BY DEF Alive, Abandoned, RunningWorkers
<1>2. Alive = Workers /\ Abandoned = {} /\ sentinels = 0
  BY DEF PoolInv, SentinelsCover
<1>3. TypeOK'
  BY <1>2, CountedSets DEF PoolInv, TypeOK
<1>4. CountExact'
  BY <1>1, <1>2, CountedSets DEF PoolInv, CountExact, TypeOK
<1>5. WorkersRun'
  BY DEF PoolInv, WorkersRun
<1>6. SentinelsCover'
  BY <1>1, <1>2, CountedSets DEF PoolInv, SentinelsCover
<1>7. JoinedEmpty'
  BY DEF JoinedEmpty, Wait
<1> QED BY <1>3, <1>4, <1>5, <1>6, <1>7 DEF PoolInv

\* What follows join() changes nothing that is counted.
LEMMA JoinGatherIInv == PoolInv /\ (JoinDone \/ GatherDone) => PoolInv'
<1> SUFFICES ASSUME PoolInv, JoinDone \/ GatherDone PROVE PoolInv'
  OBVIOUS
<1>1. Alive' = Alive /\ Abandoned' = Abandoned /\ RunningWorkers' = RunningWorkers
  BY DEF JoinDone, GatherDone, Alive, Abandoned, RunningWorkers
<1>2. Alive \subseteq Workers
  BY DEF Alive
<1> QED BY <1>1, <1>2 DEF JoinDone, GatherDone, PoolInv, TypeOK, CountExact, WorkersRun,
                         SentinelsCover, JoinedEmpty, LateSubmits, Wait

\* Every step preserves the inductive invariant.
LEMMA NextIInv == PoolInv /\ [Next]_vars => PoolInv'
<1>1. ASSUME PoolInv, UNCHANGED vars PROVE PoolInv'
  <2>1. Alive' = Alive /\ Abandoned' = Abandoned
    BY <1>1 DEF vars, Alive, Abandoned
  <2>2. RunningWorkers' = RunningWorkers
    BY <1>1 DEF vars, RunningWorkers
  <2> QED BY <1>1, <2>1, <2>2 DEF vars, PoolInv, TypeOK, CountExact, WorkersRun, SentinelsCover,
                            JoinedEmpty, LateSubmits, Wait
<1> QED BY <1>1, SubmitJobIInv, GetJobIInv, JobDoneIInv, GetSentinelIInv, CancelledIInv,
           ShutdownCallIInv, ShutdownIInv, JoinGatherIInv DEF Next

\* When the count is zero nothing is queued, run or abandoned: the sentinel that
\* an abandoned job left behind would be counted.
LEMMA IInvDrained == PoolInv => Drained
<1> SUFFICES ASSUME PoolInv, shutdown = "returned", Wait, ~LateSubmits,
                    NEW j \in Jobs, doneFuture[j] = "pending"
             PROVE  FALSE
  BY DEF Drained
<1>1. unfinished = 0
  BY DEF PoolInv, JoinedEmpty
<1>2. Cardinality(queued) = 0 /\ sentinels = 0 /\ Cardinality(RunningWorkers) = 0
  BY <1>1, CountedSets DEF PoolInv, CountExact, TypeOK
<1>3. queued = {} /\ RunningWorkers = {}
  BY <1>2, CountedSets, FS_EmptySet DEF PoolInv
<1>4. \A w \in Workers : running[w] = {}
  BY <1>3 DEF RunningWorkers, PoolInv, WorkersRun
<1>5. j \in Abandoned
  BY <1>3, <1>4 DEF Abandoned
<1> QED BY <1>2, <1>5, CountedSets DEF PoolInv, SentinelsCover

\* Work that was submitted to an executor is counted and drained, for any number
\* of jobs and workers: join() waits for exactly the work outstanding, and a
\* shutdown(wait=True) that returns has left no submitter waiting.
THEOREM Draining == Spec => []WorkDrained
<1>1. PoolInv => WorkDrained
  BY IInvDrained DEF PoolInv, WorkDrained
<1> QED BY <1>1, InitIInv, NextIInv, PTL DEF Spec

-----------------------------------------------------------------------------
(* LMCacheManager and HealthMonitor.                                        *)


Points == {"none", "wait", "check", "since", "probe", "count", "on", "back", "ended", "dead"}

\* The variables of the fallback, the store and the shutdown have their types.
ServiceTypeOK ==
    /\ conf \in SV!ConfType
    /\ ready \in BOOLEAN /\ closed \in BOOLEAN /\ healthy \in BOOLEAN /\ use_hot \in BOOLEAN
    /\ prev \in [SV!Remotes -> BOOLEAN]
    /\ skip \subseteq SV!Remotes /\ byCheck \subseteq SV!Remotes
    /\ orig \in {"none", "on", "off"}
    /\ hm \in [at: Points, i: Nat, ok: BOOLEAN]
    /\ putter \in [at: {"idle", "cpu", "remote", "done"}, local: BOOLEAN, skipped: BOOLEAN,
                   early: BOOLEAN]
    /\ osrv \in {"none", "recv", "store", "owes", "ended"}
    /\ stop \in [k: Nat, at: {"idle", "closing"}]

\* The bypassed backends are those whose last check failed, also within a round.
BypassExact ==
    /\ skip = {b \in SV!Remotes : conf.policy = "local_cpu" /\ ~prev[b]}
    /\ byCheck = skip

\* use_hot follows the bypassed backends, except between the two halves of a
\* fallback or of a recovery; the setting to restore is the configured one.
HotFollows ==
    /\ hm.at \notin {"on", "back"} /\ SV!HasCpu => use_hot = (conf.hot \/ skip # {})
    /\ hm.at = "on" => conf.policy = "local_cpu" /\ skip # {}
    /\ hm.at = "back" => conf.policy = "local_cpu" /\ skip = {}
    /\ skip # {} \/ hm.at = "back" =>
          orig = (IF ~SV!HasCpu THEN "none" ELSE IF conf.hot THEN "on" ELSE "off")

\* A round judges the backends in order; its verdict so far is that of those
\* already checked, and between two rounds the engine's health is that of all.
RoundJudges ==
    /\ SV!Working => /\ hm.i \in SV!Remotes
                     /\ hm.ok = (conf.policy = "recompute" => \A b \in 1..hm.i - 1 : prev[b])
    /\ hm.at \in {"none", "wait", "ended"} =>
          healthy = (conf.policy = "recompute" => \A b \in SV!Remotes : prev[b])
    /\ hm.at = "dead" => ~healthy
    /\ hm.at # "none" => ready /\ SV!Remotes # {}

\* What a store saw when it came to the local CPU backend.
StoreSaw ==
    /\ putter.at # "idle" => SV!HasCpu
    /\ putter.at \in {"remote", "done"} => putter.local \/ putter.early

\* stop_services has waited for a thread it has passed, or left it behind.
StopWaits ==
    /\ stop.k > 1 => hm.at \in {"none", "dead", "ended"} \/ "health" \in late
    /\ stop.k > 2 => osrv \in {"none", "ended"} \/ "offload" \in late
    /\ "offload" \notin SV!Components => osrv = "none"
    /\ closed => stop.k > 2

\* How long a check has been failing.
SinceOK == since \in [SV!Remotes -> {"no", "fresh", "old"}]

IInv ==
    ServiceTypeOK /\ SinceOK /\ BypassExact /\ HotFollows /\ RoundJudges /\ StoreSaw /\ StopWaits

-----------------------------------------------------------------------------
\* What the two kinds of configuration values come to.
LEMMA ConfFacts ==
    ASSUME ServiceTypeOK
    PROVE  /\ conf.remotes \in Nat /\ conf.policy \in {"recompute", "local_cpu"}
           /\ conf.hot \in BOOLEAN
           /\ SV!HasCpu \in BOOLEAN
  BY DEF ServiceTypeOK, SV!ConfType, SV!HasCpu

\* The initial states satisfy the inductive invariant.
LEMMA ServiceInit == SV!Init => IInv
<1> SUFFICES ASSUME SV!Init PROVE IInv
  OBVIOUS
<1> USE DEF SV!Init
<1>1. conf \in SV!ConfType
  BY ServiceAssumption
<1>2. ServiceTypeOK
  BY <1>1 DEF ServiceTypeOK, Points, SV!ConfType, SV!NoPut
<1>3. BypassExact
  BY DEF BypassExact
<1>4. HotFollows
  BY <1>1 DEF HotFollows, SV!ConfType
<1>5. RoundJudges
  BY DEF RoundJudges, SV!Working
<1>6. SinceOK /\ StoreSaw /\ StopWaits
  BY DEF SinceOK, StoreSaw, StopWaits, SV!NoPut
<1> QED BY <1>2, <1>3, <1>4, <1>5, <1>6 DEF IInv

-----------------------------------------------------------------------------
(* The judgement of one check. *)

\* What the monitor's thread leaves alone while it judges.
Beside == <<conf, ready, closed, putter, osrv, stop, late>>

\* The next check, or the end of the round with its verdict.
LEMMA AdvanceJudges ==
    ASSUME ServiceTypeOK, RoundJudges, SV!Working, UNCHANGED <<conf, ready>>,
           NEW ok \in BOOLEAN, SV!Advance(ok),
           ok = (conf.policy = "recompute" => \A b \in 1..hm.i : prev'[b])
    PROVE  /\ RoundJudges'
           /\ hm' \in [at: Points, i: Nat, ok: BOOLEAN] /\ healthy' \in BOOLEAN
           /\ hm'.at \in {"check", "wait"}
<1> USE DEF SV!Advance
<1>1. hm.i \in 1..conf.remotes /\ conf.remotes \in Nat /\ ready
  BY ConfFacts DEF RoundJudges, SV!Remotes, SV!Working
<1>2. CASE hm.i < conf.remotes
  <2>1. hm' = [at |-> "check", i |-> hm.i + 1, ok |-> ok] /\ healthy' = healthy
    BY <1>2
  <2>2. hm'.i \in 1..conf.remotes /\ 1..(hm'.i - 1) = 1..hm.i
    BY <1>1, <1>2, <2>1
  <2> QED BY <1>1, <2>1, <2>2 DEF RoundJudges, SV!Working, SV!Remotes, ServiceTypeOK, Points
<1>3. CASE ~(hm.i < conf.remotes)
  <2>1. hm' = [hm EXCEPT !.at = "wait", !.ok = ok] /\ healthy' = ok
    BY <1>3
  <2>2. hm.i = conf.remotes
    BY <1>1, <1>3
  <2> QED BY <1>1, <2>1, <2>2 DEF RoundJudges, SV!Working, SV!Remotes, ServiceTypeOK, Points
<1> QED BY <1>2, <1>3

\* The threads that stop_services waits for are not affected by a step of the
\* monitor within a round, nor is the store.
LEMMA RoundBeside ==
    ASSUME StoreSaw, StopWaits, UNCHANGED Beside, SV!Working
    PROVE  StoreSaw' /\ StopWaits'
<1>1. hm.at \notin {"none", "dead", "ended"}
  BY DEF SV!Working
<1>2. StoreSaw'
  BY DEF StoreSaw, Beside, SV!HasCpu, SV!HasEngine, SV!Components, SV!DpRank0,
         SV!SchedulerComponents, SV!WorkerComponents, SV!StandaloneComponents
<1>3. SV!Components' = SV!Components
  BY DEF Beside, SV!Components, SV!DpRank0,
         SV!SchedulerComponents, SV!WorkerComponents, SV!StandaloneComponents
<1>4. StopWaits'
  BY <1>1, <1>3 DEF StopWaits, Beside
<1> QED BY <1>2, <1>4

\* The verdict of one check, with what _run_all_checks does about it.
LEMMA JudgeIInv ==
    ASSUME IInv, hm.at \in {"check", "since", "probe", "count"},
           NEW res \in BOOLEAN, SV!Judge(res), UNCHANGED Beside, UNCHANGED use_hot,
           SinceOK'
    PROVE  IInv'
<1> USE DEF Beside
<1>1. SV!Working /\ ServiceTypeOK /\ RoundJudges
  BY DEF SV!Working, IInv
<1>2. /\ hm.i \in 1..conf.remotes /\ conf.remotes \in Nat
      /\ prev' = [prev EXCEPT ![hm.i] = res] /\ prev \in [1..conf.remotes -> BOOLEAN]
      /\ prev' \in [1..conf.remotes -> BOOLEAN]
      /\ SV!Remotes = 1..conf.remotes /\ SV!Remotes' = 1..conf.remotes
  BY <1>1, ConfFacts DEF RoundJudges, ServiceTypeOK, SV!Judge, SV!b0, SV!Remotes
<1>3. /\ prev'[hm.i] = res
      /\ \A b \in 1..conf.remotes : b # hm.i => prev'[b] = prev[b]
      /\ \A b \in 1..hm.i - 1 : prev'[b] = prev[b]
  BY <1>2
<1>4. SV!HasCpu' = SV!HasCpu
  BY DEF SV!HasCpu, SV!HasEngine, SV!Components, SV!DpRank0,
         SV!SchedulerComponents, SV!WorkerComponents, SV!StandaloneComponents
<1>5. StoreSaw' /\ StopWaits'
  BY <1>1, RoundBeside DEF IInv
<1>6. hm.ok = (conf.policy = "recompute" => \A b \in 1..hm.i - 1 : prev[b]) /\ hm.ok \in BOOLEAN
  BY <1>1 DEF RoundJudges, ServiceTypeOK
<1>7. \A b : b \in 1..hm.i <=> b \in 1..hm.i - 1 \/ b = hm.i
  BY <1>2
<1>8. CASE conf.policy = "local_cpu" /\ res /\ ~prev[hm.i]
  <2>1. SV!Recover
    BY <1>8 DEF SV!Judge, SV!b0
  <2>2. hm.i \in byCheck /\ hm.i \in skip /\ byCheck = skip
    BY <1>2, <1>8 DEF IInv, BypassExact, SV!Remotes
  <2>3. skip' = skip \ {hm.i} /\ byCheck' = skip' /\ orig' = orig
    BY <2>1, <2>2 DEF SV!Recover, SV!b0
  <2>4. BypassExact'
    BY <1>2, <1>3, <1>8, <2>3 DEF IInv, BypassExact
  <2>5. CASE byCheck = {hm.i}
    <3>1. hm' = [hm EXCEPT !.at = "back"] /\ healthy' = healthy
      BY <2>1, <2>2, <2>5 DEF SV!Recover, SV!b0, SV!GoTo
    <3>2. skip' = {}
      BY <2>2, <2>3, <2>5
    <3>3. HotFollows'
      BY <1>4, <1>8, <2>2, <2>3, <3>1, <3>2 DEF IInv, HotFollows, ServiceTypeOK
    <3>4. RoundJudges'
      BY <1>1, <1>2, <1>6, <1>8, <3>1 DEF RoundJudges, SV!Working, ServiceTypeOK
    <3>5. hm' \in [at: Points, i: Nat, ok: BOOLEAN]
      BY <1>1, <3>1 DEF ServiceTypeOK, Points
    <3>6. ServiceTypeOK'
      BY <1>1, <1>2, <2>3, <3>1, <3>2, <3>5 DEF ServiceTypeOK
    <3> QED BY <1>5, <2>4, <3>3, <3>4, <3>6 DEF IInv
  <2>6. CASE byCheck # {hm.i}
    <3>1. SV!Advance(hm.ok)
      BY <2>1, <2>2, <2>6 DEF SV!Recover, SV!b0
    <3>2. /\ RoundJudges' /\ healthy' \in BOOLEAN
          /\ hm' \in [at: Points, i: Nat, ok: BOOLEAN] /\ hm'.at \in {"check", "wait"}
      BY <1>1, <1>6, <1>8, <3>1, AdvanceJudges
    <3>3. skip # {} /\ skip' # {}
      BY <2>2, <2>3, <2>6
    <3>4. HotFollows'
      BY <1>4, <2>3, <3>2, <3>3 DEF IInv, HotFollows
    <3>5. skip' \subseteq 1..conf.remotes /\ byCheck' \subseteq 1..conf.remotes
      BY <1>1, <1>2, <2>3 DEF ServiceTypeOK
    <3>6. ServiceTypeOK'
      BY <1>1, <1>2, <2>3, <3>2, <3>5 DEF ServiceTypeOK
    <3> QED BY <1>5, <2>4, <3>2, <3>4, <3>6 DEF IInv
  <2> QED BY <2>5, <2>6
<1>9. CASE conf.policy = "local_cpu" /\ ~res
  <2>1. SV!Fallback
    BY <1>9 DEF SV!Judge
  <2>2. byCheck = skip /\ (hm.i \in skip <=> ~prev[hm.i])
    BY <1>2, <1>9 DEF IInv, BypassExact, SV!Remotes
  <2>3. CASE hm.i \in byCheck
    <3>1. SV!Advance(hm.ok) /\ UNCHANGED <<skip, byCheck, orig>>
      BY <2>1, <2>3 DEF SV!Fallback, SV!b0
    <3>2. /\ RoundJudges' /\ healthy' \in BOOLEAN
          /\ hm' \in [at: Points, i: Nat, ok: BOOLEAN] /\ hm'.at \in {"check", "wait"}
      BY <1>1, <1>6, <1>9, <3>1, AdvanceJudges
    <3>3. prev' = prev
      BY <1>2, <1>9, <2>2, <2>3
    <3>4. BypassExact' /\ HotFollows'
      BY <1>1, <1>2, <1>4, <3>1, <3>2, <3>3 DEF IInv, BypassExact, HotFollows
    <3>5. ServiceTypeOK'
      BY <1>1, <1>2, <3>1, <3>2 DEF ServiceTypeOK
    <3> QED BY <1>5, <3>2, <3>4, <3>5 DEF IInv
  <2>4. CASE hm.i \notin byCheck
    <3>1. /\ skip' = skip \cup {hm.i} /\ byCheck' = skip'
          /\ orig' = (IF byCheck # {} THEN orig ELSE SV!Setting)
          /\ hm' = [hm EXCEPT !.at = "on"] /\ healthy' = healthy
      BY <2>1, <2>2, <2>4 DEF SV!Fallback, SV!GoTo, SV!b0
    <3>2. BypassExact'
      BY <1>2, <1>3, <1>9, <3>1 DEF IInv, BypassExact
    <3>3. orig' = (IF ~SV!HasCpu THEN "none" ELSE IF conf.hot THEN "on" ELSE "off")
      BY <1>1, <2>2, <3>1, ConfFacts DEF IInv, HotFollows, SV!Setting
    <3>4. HotFollows'
      BY <1>1, <1>4, <1>9, <3>1, <3>3 DEF HotFollows, ServiceTypeOK
    <3>5. RoundJudges'
      BY <1>1, <1>2, <1>6, <1>9, <3>1 DEF RoundJudges, SV!Working, ServiceTypeOK
    <3>6. ServiceTypeOK'
      BY <1>1, <1>2, <3>1, <3>3 DEF ServiceTypeOK, Points
    <3> QED BY <1>5, <3>2, <3>4, <3>5, <3>6 DEF IInv
  <2> QED BY <2>3, <2>4
<1>10. CASE /\ ~(conf.policy = "local_cpu" /\ res /\ ~prev[hm.i])
            /\ ~(conf.policy = "local_cpu" /\ ~res)
  <2>1. /\ SV!Advance(hm.ok /\ (conf.policy = "recompute" => res))
        /\ UNCHANGED <<skip, byCheck, orig>>
    BY <1>10 DEF SV!Judge, SV!b0
  <2>2. (hm.ok /\ (conf.policy = "recompute" => res))
            = (conf.policy = "recompute" => \A b \in 1..hm.i : prev'[b])
    BY <1>3, <1>6, <1>7
  <2>3. /\ RoundJudges' /\ healthy' \in BOOLEAN
        /\ hm' \in [at: Points, i: Nat, ok: BOOLEAN] /\ hm'.at \in {"check", "wait"}
    BY <1>1, <2>1, <2>2, AdvanceJudges
  <2>4. conf.policy = "local_cpu" => prev' = prev
    BY <1>2, <1>10
  <2>5. BypassExact' /\ HotFollows'
    BY <1>1, <1>2, <1>4, <2>1, <2>3, <2>4 DEF IInv, BypassExact, HotFollows
  <2>6. ServiceTypeOK'
    BY <1>1, <1>2, <2>1, <2>3 DEF ServiceTypeOK
  <2> QED BY <1>5, <2>3, <2>5, <2>6 DEF IInv
<1> QED BY <1>8, <1>9, <1>10

-----------------------------------------------------------------------------
(* The monitor's thread. *)

\* On to the next point of a check, with no verdict yet.
LEMMA ProceedIInv ==
    ASSUME IInv, SV!Working, NEW to \in {"since", "probe", "count"}, hm.at \notin {"on", "back"},
           SV!Proceed(to), UNCHANGED Beside, UNCHANGED use_hot, SinceOK'
    PROVE  IInv'
<1> USE DEF Beside, SV!Proceed, SV!GoTo
<1>1. ServiceTypeOK'
  BY DEF IInv, ServiceTypeOK, Points, SV!Remotes
<1>2. StoreSaw' /\ StopWaits'
  BY RoundBeside DEF IInv
<1>3. SV!HasCpu' = SV!HasCpu
  BY DEF SV!HasCpu, SV!HasEngine, SV!Components, SV!DpRank0,
         SV!SchedulerComponents, SV!WorkerComponents, SV!StandaloneComponents
<1>4. hm' = [hm EXCEPT !.at = to] /\ hm'.at = to /\ hm'.i = hm.i /\ hm'.ok = hm.ok
  BY DEF IInv, ServiceTypeOK
<1>5. BypassExact' /\ HotFollows'
  BY <1>3, <1>4 DEF IInv, BypassExact, HotFollows, SV!Remotes
<1>6. RoundJudges'
  BY <1>4 DEF IInv, RoundJudges, SV!Working, SV!Remotes
<1> QED BY <1>1, <1>2, <1>5, <1>6 DEF IInv

\* A round begins with the first backend and no failed check.
LEMMA HmBeginIInv == IInv /\ SV!HmBegin => IInv'
<1> SUFFICES ASSUME IInv, SV!HmBegin PROVE IInv'
  OBVIOUS
<1> USE DEF SV!HmBegin, SV!manager, SV!server
<1>1. ServiceTypeOK'
  BY DEF IInv, ServiceTypeOK, Points, SV!Remotes
<1>2. SV!HasCpu' = SV!HasCpu /\ SV!Components' = SV!Components
  BY DEF SV!HasCpu, SV!HasEngine, SV!Components, SV!DpRank0,
         SV!SchedulerComponents, SV!WorkerComponents, SV!StandaloneComponents
<1>3. BypassExact' /\ HotFollows'
  BY <1>2 DEF IInv, BypassExact, HotFollows, SV!Remotes
<1>4. 1 \in 1..conf.remotes /\ 1..1 - 1 = {}
  BY ConfFacts DEF IInv, RoundJudges, SV!Remotes
<1>5. RoundJudges'
  BY <1>4 DEF IInv, RoundJudges, SV!Working, SV!Remotes
<1>6. SinceOK' /\ StoreSaw' /\ StopWaits'
  BY <1>2 DEF IInv, StoreSaw, StopWaits, SinceOK, SV!Remotes
<1> QED BY <1>1, <1>3, <1>5, <1>6 DEF IInv

\* The thread that ends between two rounds leaves their verdict; one that dies
\* within a round leaves the engine unhealthy.
LEMMA HmEndsIInv == IInv /\ (SV!HmStopSeen \/ SV!HmIrrecoverable) => IInv'
<1> SUFFICES ASSUME IInv, SV!HmStopSeen \/ SV!HmIrrecoverable PROVE IInv'
  OBVIOUS
<1> USE DEF SV!HmStopSeen, SV!HmIrrecoverable, SV!manager, SV!server
<1>1. ServiceTypeOK'
  BY DEF IInv, ServiceTypeOK, Points, SV!Remotes
<1>2. SV!HasCpu' = SV!HasCpu /\ SV!Components' = SV!Components
  BY DEF SV!HasCpu, SV!HasEngine, SV!Components, SV!DpRank0,
         SV!SchedulerComponents, SV!WorkerComponents, SV!StandaloneComponents
<1>3. hm'.at \in {"ended", "dead"} /\ hm.at \in {"wait", "check"}
  BY DEF IInv, ServiceTypeOK
<1>4. BypassExact' /\ HotFollows'
  BY <1>2, <1>3 DEF IInv, BypassExact, HotFollows, SV!Remotes
<1>5. RoundJudges'
  BY <1>3 DEF IInv, RoundJudges, SV!Working, SV!Remotes, ServiceTypeOK
<1>6. SinceOK' /\ StoreSaw' /\ StopWaits'
  BY <1>2, <1>3 DEF IInv, StoreSaw, StopWaits, SinceOK, SV!Remotes
<1> QED BY <1>1, <1>4, <1>5, <1>6 DEF IInv

\* The steps of a check end in a verdict or go on to the next point.
LEMMA HmCheckIInv ==
    IInv /\ (SV!HmConnect \/ SV!HmSince \/ SV!HmProbe \/ SV!HmCount) => IInv'
<1> SUFFICES ASSUME IInv, SV!HmConnect \/ SV!HmSince \/ SV!HmProbe \/ SV!HmCount PROVE IInv'
  OBVIOUS
<1>1. hm.at \in {"check", "since", "probe", "count"} /\ SV!Working
  BY DEF SV!HmConnect, SV!HmSince, SV!HmProbe, SV!HmCount, SV!Working
<1>2. UNCHANGED Beside /\ UNCHANGED use_hot
  BY DEF SV!HmConnect, SV!HmSince, SV!HmProbe, SV!HmCount, SV!manager, SV!server, Beside
<1>3. since[SV!b0] \in {"no", "fresh", "old"}
  BY <1>1 DEF IInv, SinceOK, RoundJudges, SV!b0
<1>4. SinceOK'
  <2>1. since' = since \/ \E s \in {"no", "fresh", "old"} : since' = [since EXCEPT ![SV!b0] = s]
    <3>1. CASE SV!HmConnect \/ SV!HmProbe \/ SV!HmCount
      BY <3>1 DEF SV!HmConnect, SV!HmProbe, SV!HmCount
    <3>2. CASE SV!HmSince
      BY <3>2, <1>3 DEF SV!HmSince
    <3> QED BY <3>1, <3>2
  <2> QED BY <1>2, <2>1 DEF IInv, SinceOK, SV!Remotes, Beside
<1>5. \/ \E to \in {"since", "probe", "count"} : SV!Proceed(to)
      \/ \E res \in BOOLEAN : SV!Judge(res)
  <2>1. CASE SV!HmConnect \/ SV!HmProbe
    BY <2>1 DEF SV!HmConnect, SV!HmProbe
  <2>2. CASE SV!HmSince
    BY <1>3, <2>2 DEF SV!HmSince
  <2>3. CASE SV!HmCount
    BY <2>3 DEF SV!HmCount
  <2> QED BY <2>1, <2>2, <2>3
<1> QED BY <1>1, <1>2, <1>5, <1>4, ProceedIInv, JudgeIInv

\* The second halves of a fallback and of a recovery set use_hot to what the
\* bypassed backends call for.
LEMMA HmHotIInv == IInv /\ (SV!HotOn \/ SV!HotBack) => IInv'
<1> SUFFICES ASSUME IInv, SV!HotOn \/ SV!HotBack PROVE IInv'
  OBVIOUS
<1> USE DEF SV!HotOn, SV!HotBack, SV!manager, SV!server
<1>1. hm.at \in {"on", "back"} /\ SV!Working /\ UNCHANGED Beside
      /\ UNCHANGED <<prev, byCheck, skip>> /\ SV!Advance(hm.ok) /\ conf.policy = "local_cpu"
  BY DEF SV!Working, Beside, IInv, HotFollows
<1>2. StoreSaw' /\ StopWaits'
  BY <1>1, RoundBeside DEF IInv
<1>3. SV!HasCpu' = SV!HasCpu
  BY <1>1 DEF Beside, SV!HasCpu, SV!HasEngine, SV!Components, SV!DpRank0,
         SV!SchedulerComponents, SV!WorkerComponents, SV!StandaloneComponents
<1>4. hm.ok \in BOOLEAN /\ hm.ok = TRUE
  BY <1>1 DEF IInv, RoundJudges, ServiceTypeOK
<1>5. /\ RoundJudges' /\ healthy' \in BOOLEAN
      /\ hm' \in [at: Points, i: Nat, ok: BOOLEAN] /\ hm'.at \in {"check", "wait"}
  BY <1>1, <1>4, AdvanceJudges DEF IInv, Beside
<1>6. BypassExact'
  BY <1>1 DEF IInv, BypassExact, SV!Remotes, Beside
<1>7. use_hot' \in BOOLEAN /\ orig' \in {"none", "on", "off"}
  BY ConfFacts DEF IInv, ServiceTypeOK
<1>8. HotFollows'
  <2>1. CASE SV!HotOn
    BY <1>1, <1>3, <1>5, <2>1, ConfFacts DEF IInv, HotFollows, ServiceTypeOK, Beside
  <2>2. CASE SV!HotBack
    BY <1>1, <1>3, <1>5, <2>2, ConfFacts DEF IInv, HotFollows, ServiceTypeOK, Beside
  <2> QED BY <2>1, <2>2
<1>9. ServiceTypeOK' /\ SinceOK'
  BY <1>1, <1>5, <1>7 DEF IInv, ServiceTypeOK, SinceOK, SV!Remotes, Beside
<1> QED BY <1>2, <1>5, <1>6, <1>8, <1>9 DEF IInv

-----------------------------------------------------------------------------
(* What goes on beside the monitor. *)

\* A step that leaves the monitor's variables alone leaves its invariants.
LEMMA MonitorAside ==
    ASSUME IInv, UNCHANGED <<conf, prev, healthy, hm, byCheck, orig, skip, use_hot>>,
           ready' \in BOOLEAN, ready => ready'
    PROVE  /\ BypassExact' /\ HotFollows' /\ RoundJudges'
           /\ SV!Remotes' = SV!Remotes /\ SV!HasCpu' = SV!HasCpu
           /\ SV!Components' = SV!Components
<1>1. SV!Components' = SV!Components
  BY DEF SV!Components, SV!DpRank0,
         SV!SchedulerComponents, SV!WorkerComponents, SV!StandaloneComponents
<1>2. SV!Remotes' = SV!Remotes /\ SV!HasCpu' = SV!HasCpu
  BY <1>1 DEF SV!Remotes, SV!HasCpu, SV!HasEngine
<1> QED BY <1>1, <1>2 DEF IInv, BypassExact, HotFollows, RoundJudges, SV!Working

\* What starts, and what ends beside the manager.
LEMMA StartIInv ==
    IInv /\ (SV!StartServices \/ (\E a \in aux : SV!AuxEnds(a)) \/ (\E b \in SV!Remotes : SV!Flip(b)))
        => IInv'
<1> SUFFICES ASSUME IInv, \/ SV!StartServices \/ (\E a \in aux : SV!AuxEnds(a))
                          \/ (\E b \in SV!Remotes : SV!Flip(b))
             PROVE  IInv'
  OBVIOUS
<1>1. UNCHANGED <<conf, ready, closed, prev, healthy, hm, byCheck, orig, skip, use_hot, since,
                  putter, osrv, stop, late>>
  BY DEF SV!StartServices, SV!AuxEnds, SV!Flip, SV!remote, SV!monitor, SV!manager, SV!server
<1>2. ready \in BOOLEAN
  BY DEF IInv, ServiceTypeOK
<1>3. /\ BypassExact' /\ HotFollows' /\ RoundJudges'
      /\ SV!Remotes' = SV!Remotes /\ SV!HasCpu' = SV!HasCpu /\ SV!Components' = SV!Components
  BY <1>1, <1>2, MonitorAside
<1>4. ServiceTypeOK' /\ SinceOK'
  BY <1>1, <1>3 DEF IInv, ServiceTypeOK, SinceOK
<1>5. StoreSaw' /\ StopWaits'
  BY <1>1, <1>3 DEF IInv, StoreSaw, StopWaits
<1> QED BY <1>3, <1>4, <1>5 DEF IInv

\* post_init starts the monitor's thread if there is a check to run.
LEMMA PostInitIInv == IInv /\ SV!PostInit => IInv'
<1> SUFFICES ASSUME IInv, SV!PostInit PROVE IInv'
  OBVIOUS
<1> USE DEF SV!PostInit, SV!StartMonitor, SV!server
<1>1. hm.at = "none" /\ stop.k = 0
  BY DEF IInv, RoundJudges
<1>2. SV!Components' = SV!Components
  BY DEF SV!Components, SV!DpRank0,
         SV!SchedulerComponents, SV!WorkerComponents, SV!StandaloneComponents
<1>3. SV!HasCpu' = SV!HasCpu /\ SV!Remotes' = SV!Remotes
  BY <1>2 DEF SV!HasCpu, SV!HasEngine, SV!Remotes
<1>4. hm'.at \in {"none", "wait"} /\ (hm'.at = "wait" => SV!Remotes # {})
  BY DEF IInv, ServiceTypeOK
<1>5. ServiceTypeOK' /\ SinceOK'
  BY <1>3 DEF IInv, ServiceTypeOK, SinceOK, Points
<1>6. BypassExact' /\ HotFollows'
  BY <1>1, <1>3, <1>4 DEF IInv, BypassExact, HotFollows
<1>7. RoundJudges'
  BY <1>1, <1>3, <1>4 DEF IInv, RoundJudges, SV!Working
<1>8. StoreSaw' /\ StopWaits'
  BY <1>1, <1>2, <1>3 DEF IInv, StoreSaw, StopWaits
<1> QED BY <1>5, <1>6, <1>7, <1>8 DEF IInv

\* A store that comes to the local CPU backend while a backend is bypassed finds
\* use_hot on, unless the fallback is not complete.
LEMMA StoreIInv == IInv /\ (SV!PutStart \/ SV!Store) => IInv'
<1> SUFFICES ASSUME IInv, SV!PutStart \/ SV!Store PROVE IInv'
  OBVIOUS
<1> USE DEF SV!PutStart, SV!Store, SV!PutCpu, SV!PutRemotes, SV!PutEnd, SV!NoPut
<1>1. UNCHANGED <<conf, ready, closed, prev, healthy, hm, byCheck, orig, skip, use_hot, since,
                  osrv, stop, late>>
  BY DEF SV!remote, SV!monitor, SV!manager, SV!server
<1>2. ready \in BOOLEAN
  BY DEF IInv, ServiceTypeOK
<1>3. /\ BypassExact' /\ HotFollows' /\ RoundJudges'
      /\ SV!Remotes' = SV!Remotes /\ SV!HasCpu' = SV!HasCpu /\ SV!Components' = SV!Components
  BY <1>1, <1>2, MonitorAside
<1>4. putter' \in [at: {"idle", "cpu", "remote", "done"}, local: BOOLEAN, skipped: BOOLEAN,
                   early: BOOLEAN]
  <2>1. CASE SV!PutCpu
    <3>1. use_hot \in BOOLEAN /\ (skip = {} \/ hm.at = "on") \in BOOLEAN
      BY DEF IInv, ServiceTypeOK
    <3>2. putter' = [putter EXCEPT !.at = "remote", !.local = use_hot,
                                   !.early = skip = {} \/ hm.at = "on"]
      BY <2>1
    <3> QED BY <3>1, <3>2 DEF IInv, ServiceTypeOK
  <2>2. CASE SV!PutRemotes
    <3>1. putter' = [putter EXCEPT !.at = "done", !.skipped = skip # {}]
      BY <2>2
    <3> QED BY <3>1 DEF IInv, ServiceTypeOK
  <2>3. CASE SV!PutStart
    <3>1. putter' = [at |-> "cpu", local |-> FALSE, skipped |-> FALSE, early |-> FALSE]
      BY <2>3
    <3> QED BY <3>1
  <2>4. CASE SV!PutEnd
    <3>1. putter' = [at |-> "idle", local |-> FALSE, skipped |-> FALSE, early |-> FALSE]
      BY <2>4
    <3> QED BY <3>1
  <2> QED BY <2>1, <2>2, <2>3, <2>4
<1>5. ServiceTypeOK' /\ SinceOK'
  BY <1>1, <1>3, <1>4 DEF IInv, ServiceTypeOK, SinceOK
<1>6. StoreSaw'
  <2>1. CASE SV!PutStart
    BY <1>3, <2>1 DEF StoreSaw, SV!Serving
  <2>2. CASE SV!PutCpu
    <3>1. SV!HasCpu
      BY <2>2 DEF IInv, StoreSaw
    <3>2. use_hot \/ skip = {} \/ hm.at = "on"
      BY <3>1 DEF IInv, HotFollows
    <3>3. putter' = [putter EXCEPT !.at = "remote", !.local = use_hot,
                                   !.early = skip = {} \/ hm.at = "on"]
      BY <2>2
    <3>4. putter'.local = use_hot /\ putter'.early = (skip = {} \/ hm.at = "on")
      BY <3>3 DEF IInv, ServiceTypeOK
    <3> QED BY <1>3, <3>1, <3>2, <3>4 DEF StoreSaw
  <2>3. CASE SV!PutRemotes
    <3>1. putter.at = "remote" /\ putter'.local = putter.local /\ putter'.early = putter.early
      BY <2>3 DEF IInv, ServiceTypeOK
    <3> QED BY <1>3, <3>1 DEF IInv, StoreSaw
  <2>4. CASE SV!PutEnd
    BY <2>4 DEF StoreSaw
  <2> QED BY <2>1, <2>2, <2>3, <2>4
<1>7. StopWaits'
  BY <1>1, <1>3 DEF IInv, StopWaits
<1> QED BY <1>3, <1>5, <1>6, <1>7 DEF IInv

\* A read touches nothing that the invariants speak of.
LEMMA ReadIInv ==
    IInv /\ (SV!Read \/ SV!GetTimesOut \/ \E b \in SV!Remotes : SV!GetStart(b)) => IInv'
<1> SUFFICES ASSUME IInv, SV!Read \/ SV!GetTimesOut \/ \E b \in SV!Remotes : SV!GetStart(b)
             PROVE  IInv'
  OBVIOUS
<1>1. UNCHANGED <<conf, ready, closed, prev, healthy, hm, byCheck, orig, skip, use_hot, since,
                  putter, osrv, stop, late>>
  BY DEF SV!Read, SV!GetTimesOut, SV!GetStart, SV!GetAlloc, SV!GetRead,
         SV!remote, SV!monitor, SV!manager, SV!server
<1>2. ready \in BOOLEAN
  BY DEF IInv, ServiceTypeOK
<1>3. /\ BypassExact' /\ HotFollows' /\ RoundJudges'
      /\ SV!Remotes' = SV!Remotes /\ SV!HasCpu' = SV!HasCpu /\ SV!Components' = SV!Components
  BY <1>1, <1>2, MonitorAside
<1>4. ServiceTypeOK' /\ SinceOK'
  BY <1>1, <1>3 DEF IInv, ServiceTypeOK, SinceOK
<1>5. StoreSaw' /\ StopWaits'
  BY <1>1, <1>3 DEF IInv, StoreSaw, StopWaits
<1> QED BY <1>3, <1>4, <1>5 DEF IInv

\* Once stop_services has closed it the offload server takes no request.
LEMMA OffloadIInv == IInv /\ (SV!OffloadRecv \/ SV!OffloadStore \/ SV!OffloadRaises) => IInv'
<1> SUFFICES ASSUME IInv, SV!OffloadRecv \/ SV!OffloadStore \/ SV!OffloadRaises PROVE IInv'
  OBVIOUS
<1> USE DEF SV!OffloadRecv, SV!OffloadStore, SV!OffloadRaises, SV!Unserved, SV!Running
<1>1. UNCHANGED <<conf, ready, closed, prev, healthy, hm, byCheck, orig, skip, use_hot, since,
                  putter, stop, late>>
  BY DEF SV!remote, SV!monitor, SV!manager
<1>2. ready \in BOOLEAN /\ stop.k \in Nat
  BY DEF IInv, ServiceTypeOK
<1>3. /\ BypassExact' /\ HotFollows' /\ RoundJudges'
      /\ SV!Remotes' = SV!Remotes /\ SV!HasCpu' = SV!HasCpu /\ SV!Components' = SV!Components
  BY <1>1, <1>2, MonitorAside
<1>4. osrv' \in {"store", "recv", "owes", "ended"} /\ osrv # "none"
      /\ (stop.k > 2 => osrv' = "ended")
  BY <1>2
<1>5. ServiceTypeOK' /\ SinceOK'
  BY <1>1, <1>3, <1>4 DEF IInv, ServiceTypeOK, SinceOK
<1>6. StoreSaw' /\ StopWaits'
  BY <1>1, <1>3, <1>4 DEF IInv, StoreSaw, StopWaits
<1> QED BY <1>3, <1>5, <1>6 DEF IInv

-----------------------------------------------------------------------------
(* stop_services. *)

\* The manager comes to the monitor first, then to the offload server, and to
\* the engine last.
LEMMA ClosingIs ==
    ASSUME stop.k \in Nat, stop.k > 0, ~SV!Stopped
    PROVE  /\ SV!Closing = "health" <=> stop.k = 1
           /\ SV!Closing = "offload" <=> stop.k = 2
           /\ SV!Closing = "engine" <=> stop.k = 7
           /\ SV!Closing \in {"health", "offload", "plugins", "api", "lookup_server",
                              "lookup_client", "engine"}
<1>1. stop.k \in 1..7 /\ SV!Closing = SV!StopOrder[stop.k]
  BY DEF SV!Stopped, SV!Closing, SV!StopOrder
<1> QED BY <1>1 DEF SV!StopOrder

\* Each component that is closed is waited for, or left behind.
LEMMA StopIInv == IInv /\ (SV!StopServices \/ SV!Shutdown) => IInv'
<1> SUFFICES ASSUME IInv, SV!StopServices \/ SV!Shutdown PROVE IInv'
  OBVIOUS
<1> USE DEF SV!StopServices, SV!Shutdown, SV!CloseComponent, SV!CloseAbsent, SV!NextClose
<1>1. UNCHANGED <<conf, ready, prev, healthy, hm, byCheck, orig, skip, use_hot, since, putter,
                  osrv>>
  BY DEF SV!remote, SV!monitor, SV!server
<1>2. ready \in BOOLEAN /\ stop \in [k: Nat, at: {"idle", "closing"}]
  BY DEF IInv, ServiceTypeOK
<1>3. /\ BypassExact' /\ HotFollows' /\ RoundJudges'
      /\ SV!Remotes' = SV!Remotes /\ SV!HasCpu' = SV!HasCpu /\ SV!Components' = SV!Components
  BY <1>1, <1>2, MonitorAside
<1>4. CASE SV!StopServices
  <2>1. stop' = [k |-> 1, at |-> "closing"] /\ late' = late /\ closed' = closed /\ stop.k = 0
    BY <1>4
  <2>2. ServiceTypeOK' /\ SinceOK'
    BY <1>1, <1>3, <2>1 DEF IInv, ServiceTypeOK, SinceOK
  <2>3. StoreSaw' /\ StopWaits'
    BY <1>1, <1>3, <2>1 DEF IInv, StoreSaw, StopWaits
  <2> QED BY <1>3, <2>2, <2>3 DEF IInv
<1>5. CASE SV!Shutdown
  <2>1. stop' = [stop EXCEPT !.k = @ + 1] /\ stop.k > 0 /\ ~SV!Stopped
    BY <1>5
  <2>2. stop' \in [k: Nat, at: {"idle", "closing"}] /\ stop'.k = stop.k + 1
    BY <1>2, <2>1
  <2>3. /\ SV!Closing = "health" <=> stop.k = 1
        /\ SV!Closing = "offload" <=> stop.k = 2
        /\ SV!Closing = "engine" <=> stop.k = 7
        /\ SV!Closing \in {"health", "offload", "plugins", "api", "lookup_server",
                           "lookup_client", "engine"}
    BY <1>2, <2>1, ClosingIs
  <2>4. late \subseteq late' /\ (closed' = closed \/ (closed' /\ stop.k = 7))
    BY <1>5, <2>3 DEF SV!StopHealth, SV!CloseOffload, SV!Join
  <2>5. stop.k = 1 => hm.at \in {"none", "dead", "ended"} \/ "health" \in late'
    <3>1. stop.k = 1 /\ ~ready => hm.at = "none"
      BY DEF IInv, RoundJudges
    <3> QED BY <1>5, <2>3, <3>1 DEF SV!StopHealth, SV!Join, SV!Present
  <2>6. stop.k = 2 => osrv \in {"none", "ended"} \/ "offload" \in late'
    <3>1. "offload" \notin SV!Components => osrv = "none"
      BY DEF IInv, StopWaits
    <3> QED BY <1>5, <2>3, <3>1 DEF SV!CloseOffload, SV!Join, SV!Present
  <2>7. ServiceTypeOK' /\ SinceOK'
    <3>1. closed' \in BOOLEAN
      BY <1>5, <2>3 DEF IInv, ServiceTypeOK
    <3> QED BY <1>1, <1>3, <2>2, <3>1 DEF IInv, ServiceTypeOK, SinceOK
  <2>8. StoreSaw'
    BY <1>1, <1>3 DEF IInv, StoreSaw
  <2>9. StopWaits'
    BY <1>1, <1>2, <1>3, <2>2, <2>4, <2>5, <2>6 DEF IInv, StopWaits
  <2> QED BY <1>3, <2>7, <2>8, <2>9 DEF IInv
<1> QED BY <1>4, <1>5

-----------------------------------------------------------------------------
\* Every step of the manager preserves the inductive invariant.
LEMMA ServiceNext == IInv /\ [SV!Next]_SV!vars => IInv'
<1>1. ASSUME IInv, UNCHANGED SV!vars PROVE IInv'
  <2>1. UNCHANGED <<conf, ready, closed, prev, healthy, hm, byCheck, orig, skip, use_hot, since,
                    putter, osrv, stop, late>>
    BY <1>1 DEF SV!vars, SV!remote, SV!monitor, SV!manager, SV!server
  <2>2. ready \in BOOLEAN
    BY <1>1 DEF IInv, ServiceTypeOK
  <2>3. /\ BypassExact' /\ HotFollows' /\ RoundJudges'
        /\ SV!Remotes' = SV!Remotes /\ SV!HasCpu' = SV!HasCpu /\ SV!Components' = SV!Components
    BY <1>1, <2>1, <2>2, MonitorAside
  <2> QED BY <1>1, <2>1, <2>3 DEF IInv, ServiceTypeOK, SinceOK, StoreSaw, StopWaits
<1>2. ASSUME IInv, SV!Next PROVE IInv'
  BY <1>2, StartIInv, PostInitIInv, StopIInv, HmBeginIInv, HmEndsIInv, HmCheckIInv, HmHotIInv,
     StoreIInv, ReadIInv, OffloadIInv DEF SV!Next, SV!HealthMonitor
<1> QED BY <1>1, <1>2

\* The invariant says what a round, a store and a shutdown promise.
LEMMA ServiceSafeFollows == IInv => ServiceSafe
<1> SUFFICES ASSUME IInv PROVE ServiceSafe
  OBVIOUS
<1>1. SV!FallbackExact
  BY DEF IInv, BypassExact, HotFollows, RoundJudges, SV!FallbackExact, ServiceTypeOK
<1>2. SV!SkippedIsKept
  BY DEF IInv, StoreSaw, SV!SkippedIsKept
<1>3. SV!ClosedIsQuiet
  BY DEF IInv, StopWaits, ServiceTypeOK, SV!ClosedIsQuiet, SV!Working
<1> QED BY <1>1, <1>2, <1>3 DEF ServiceSafe, SV!ServiceSafe

\* HealthMonitor and LMCacheManager, for any configurations and any number of
\* remote backends: between two rounds exactly the backends whose last check
\* failed are bypassed and use_hot has the value that goes with them; a chunk
\* that a bypassed backend was not given is in the hot cache; and a closed
\* engine has no round and no offload request under way that stop_services did
\* not leave behind.
THEOREM FallbackAndShutdown == SV!Spec => []ServiceSafe
  BY ServiceInit, ServiceNext, ServiceSafeFollows, PTL DEF SV!Spec

-----------------------------------------------------------------------------
(* The sweep scripts: what holds at each step of a configuration.            *)

\* From the answer of the server on; while the monitor thread may sample.
Served == {"monitor", "request", "reply", "settle", "samples", "stats"}
Sampled == Served \ {"monitor"}
Steps == {"pick", "launch", "wait", "save", "end"} \cup Served
ServerType == [of: Nat, gen: 1..2, st: {"loading", "ready", "busy", "stopping", "stuck"}]
BaseType == [used: Int, kv: Int, act: Int, cuda: Int]

PlaceOK ==
    /\ plan \in Plans
    /\ step \in Steps /\ at \in Nat \ {0} /\ (step \notin {"pick", "end"} => at \in SW!Configs)
    /\ opened # 0 => step = "save" /\ opened = at /\ SW!Script.resume # {}
    /\ step = "end" => at > Len(plan.configs)
ServersOK == servers \subseteq ServerType /\ IsFiniteSet(servers) /\ orphan \in BOOLEAN
MeasuresOK ==
    /\ mon \in [running: BOOLEAN, alive: BOOLEAN, base: BaseType, pending: Int, sum: Int, n: Int,
                max: Int, rise: Int, last: Int, diff: BOOLEAN]
    /\ run \in [of: Int, server: Nat, gen: 0..2, before: Int, ok: BOOLEAN, wrote: BOOLEAN, n: Int]
ResultsOK ==
    /\ disk \in [{"native", "torch", "cachegen"} -> SUBSET Nat]
    /\ \A d \in {"native", "torch", "cachegen"} : IsFiniteSet(disk[d])
    /\ DOMAIN rec \subseteq SW!Configs
    /\ file \in [SW!Configs -> {"none", "ok", "fail"}]
    /\ past \in [outlived: BOOLEAN, died: BOOLEAN, torn: BOOLEAN, late: BOOLEAN, stale: BOOLEAN,
                 kept: SUBSET SW!Configs, starts: 1..2]
SweepTypeOK == PlaceOK /\ ServersOK /\ MeasuresOK /\ ResultsOK

\* The servers of this start are of configurations that were begun, each of one
\* process; one is busy while its reply is awaited, and stops only by SIGTERM.
\* If none has outlived the script's attempts, all are of the current one.
Clean == ~past.outlived /\ ~past.stale
Own(s) == s.of = at /\ s.gen = past.starts
ServersBegun ==
    /\ \A s \in servers : /\ s.of \in SW!Configs /\ s.gen <= past.starts
                          /\ s.gen = past.starts /\ step \in {"pick", "launch"} => s.of < at
                          /\ s.gen = past.starts => s.of <= at
                          /\ s.st = "busy" => step = "reply" /\ s.of = run.server /\ s.gen = run.gen
                          /\ s.st = "stopping" => past.outlived
                          /\ s.st = "stuck" => SW!Script.pipe
    /\ \A s, t \in servers : s.of = t.of /\ s.gen = t.gen => s = t
    /\ past.starts = 1 => ~past.stale /\ ~past.torn
    /\ orphan => plan.script # "vram"
ServersOwn == Clean =>
    /\ step = "launch" => servers = {}
    /\ step \notin {"launch", "pick", "end"} => \A s \in servers : Own(s)
    /\ step \in {"save", "pick", "end"} /\ SW!Script.first = "none" => servers = {}

\* What is known of the current run.
RunRight ==
    /\ step \in {"launch", "wait"} => run.server = 0
    /\ step \in Served /\ Clean => run.server = at /\ run.gen = past.starts
    /\ step = "save" /\ SW!Script.reports => at \in DOMAIN rec
    /\ SW!Script.reports => \A c \in 1..at - 1 : c \in DOMAIN rec

\* The directory of a cachegen run is empty until its server has written to it.
DiskRight ==
    SW!Script.clears /\ step \in Served \cup {"launch", "wait"} /\ plan.configs[at] = "cachegen" =>
        /\ step \notin {"settle", "samples", "stats"} => disk["cachegen"] = {} /\ ~run.wrote
        /\ step \in Served => run.before = 0
        /\ step \in {"settle", "samples", "stats"} /\ run.server = at =>
              disk["cachegen"] = (IF run.wrote THEN {at} ELSE {})

\* The monitor thread runs from the request to its join; its baseline is below
\* every sample while no server dies.
Floor == [s \in ServerType |-> IF s.st = "loading" THEN 20 ELSE 60]
Rest == Sum(Floor, servers) + (IF orphan THEN 20 ELSE 0)
MonRight == SW!Script.monitors =>
    /\ mon.running => step \in {"request", "reply", "settle"}
    /\ step \in {"samples", "stats"} /\ ~past.late => ~mon.alive
    /\ step = "stats" /\ ~past.late => run.n = mon.n
    /\ step \in Sampled /\ ~past.died =>
          /\ mon.base.used >= 0 /\ mon.rise >= 0 /\ mon.max <= mon.base.used + mon.rise
          /\ mon.last < 0 \/ mon.last >= mon.base.used
          /\ mon.pending < 0 \/ mon.pending >= mon.base.used
          /\ Rest >= mon.base.used
\* In run_vram_experiment the parts of each sample add up to it.
SumsFollow == plan.script = "vram" /\ Clean /\ ~past.died =>
    /\ step \in Served => \E s \in servers : s.st \in {"ready", "busy"}
    /\ step \in Sampled => mon.base.used = 60 /\ mon.base.kv = 20 /\ ~mon.diff
                           /\ (mon.pending >= 0 => mon.sum = mon.pending)

\* Results on disk: a configuration that is run again has none, and what
\* run_sweep will write again has the results that were written.
FilesKept ==
    /\ SW!Script.resume = {} => past.kept = {}
    /\ plan.script # "progress" \/ (~past.torn /\ opened = 0) => \A c \in past.kept : file[c] = "ok"
    /\ step \notin {"pick", "end"} /\ (plan.script # "progress" \/ ~past.torn) => at \notin past.kept
    /\ plan.script = "progress" /\ ~past.torn =>
          \A c \in past.kept : c \in DOMAIN rec /\ SW!Outcome(c) = "ok"

SweepInv ==
    /\ SweepTypeOK /\ ServersBegun /\ ServersOwn /\ RunRight /\ DiskRight /\ MonRight /\ SumsFollow
    /\ FilesKept /\ SW!ResultsRight

-----------------------------------------------------------------------------
\* What the tables of the scripts come to.
LEMMA ScriptFacts ==
    ASSUME plan \in Plans
    PROVE  /\ plan.configs \in Seq({"native", "cachegen"})
           /\ SW!Configs = 1..Len(plan.configs) /\ Len(plan.configs) \in Nat
           /\ SW!Script.first \in {"term", "kill", "all", "none"}
           /\ SW!Script.last \in {"term", "proc", "all"} /\ SW!Script.fail \in {"none", "proc"}
           /\ SW!Script.reports \in BOOLEAN /\ SW!Script.clears \in BOOLEAN
           /\ SW!Script.pipe \in BOOLEAN /\ SW!Script.monitors \in BOOLEAN
           /\ SW!Script.clears => ~SW!Script.pipe
           /\ SW!Script.monitors => ~SW!Script.pipe /\ SW!Script.resume = {}
           /\ SW!Script.first = "none" => SW!Script.last = "all" /\ SW!Script.fail = "proc"
           /\ SW!Script.resume # {} => SW!Script.reports /\ plan.script \in {"full", "progress"}
           /\ plan.script = "full" => SW!Script.resume = {"ok"}
           /\ plan.script = "progress" => SW!Script.resume = {"ok", "fail"}
           /\ plan.script = "vram" => SW!Script = SW!Vram
<1>1. plan \in SW!PlanType
  BY SweepAssumption
<1>2. /\ plan.configs \in Seq({"native", "cachegen"})
      /\ SW!Configs = 1..Len(plan.configs) /\ Len(plan.configs) \in Nat
  <2>1. plan.configs \in Seq({"native", "cachegen"})
    BY <1>1 DEF SW!PlanType
  <2> QED BY <2>1, LenProperties DEF SW!Configs
<1>3. CASE plan.script \in {"vram", "sweep"}
  <2>1. SW!Script = [first |-> "term", last |-> "term", fail |-> "none", reports |-> TRUE, clears |-> TRUE,
                     pipe |-> FALSE, monitors |-> TRUE, resume |-> {}]
    <3>1. SW!Script = SW!Vram
      BY <1>3 DEF SW!Script, SW!Scripts, SW!SweepExperiment
    <3> QED BY ONLY <3>1 DEF SW!Vram
  <2> QED BY <1>2, <1>3, <2>1 DEF SW!Vram
<1>4. CASE plan.script \in {"quick", "extended", "highfreq"}
  <2>1. SW!Script = [first |-> "kill", last |-> "term", fail |-> "none", reports |-> FALSE, clears |-> TRUE,
                     pipe |-> FALSE, monitors |-> TRUE, resume |-> {}]
    <3>1. SW!Script = SW!QuickTest
      BY <1>4 DEF SW!Script, SW!Scripts, SW!ExtendedTest, SW!HighFreqTest
    <3> QED BY ONLY <3>1 DEF SW!QuickTest, SW!Vram
  <2> QED BY <1>2, <1>4, <2>1
<1>5. CASE plan.script = "full"
  <2>1. SW!Script = [first |-> "kill", last |-> "proc", fail |-> "proc", reports |-> TRUE, clears |-> TRUE,
                     pipe |-> FALSE, monitors |-> FALSE, resume |-> {"ok"}]
    <3>1. SW!Script = SW!Full
      BY <1>5 DEF SW!Script, SW!Scripts
    <3> QED BY ONLY <3>1 DEF SW!Full
  <2> QED BY <1>2, <1>5, <2>1
<1>6. CASE plan.script = "logs"
  <2>1. SW!Script = [first |-> "all", last |-> "proc", fail |-> "proc", reports |-> FALSE, clears |-> FALSE,
                     pipe |-> FALSE, monitors |-> FALSE, resume |-> {}]
    <3>1. SW!Script = SW!WithLogs
      BY <1>6 DEF SW!Script, SW!Scripts
    <3> QED BY ONLY <3>1 DEF SW!WithLogs, SW!Full
  <2> QED BY <1>2, <1>6, <2>1
<1>7. CASE plan.script = "progress"
  <2>1. SW!Script = [first |-> "none", last |-> "all", fail |-> "proc", reports |-> TRUE, clears |-> FALSE,
                     pipe |-> TRUE, monitors |-> FALSE, resume |-> {"ok", "fail"}]
    <3>1. SW!Script = SW!Progress
      BY <1>7 DEF SW!Script, SW!Scripts
    <3> QED BY ONLY <3>1 DEF SW!Progress
  <2> QED BY <1>2, <1>7, <2>1
<1>8. CASE plan.script = "complete"
  <2>1. SW!Script = [first |-> "none", last |-> "all", fail |-> "proc", reports |-> FALSE, clears |-> FALSE,
                     pipe |-> TRUE, monitors |-> FALSE, resume |-> {}]
    <3>1. SW!Script = SW!Complete
      BY <1>8 DEF SW!Script, SW!Scripts
    <3> QED BY ONLY <3>1 DEF SW!Progress, SW!Complete
  <2> QED BY <1>2, <1>8, <2>1
<1> QED BY <1>1, <1>3, <1>4, <1>5, <1>6, <1>7, <1>8 DEF SW!PlanType

\* Sweep's counting is that of the library.
LEMMA CountServers == \A S : SW!Cardinality(S) = Cardinality(S)
<1>1. \A S : SW!IsFiniteSet(S) <=> IsFiniteSet(S)
  BY DEF SW!IsFiniteSet, IsFiniteSet
<1> QED BY <1>1 DEF SW!Cardinality, Cardinality

\* The GPU memory in use is a sum over the servers.
Used == [s \in ServerType |-> SW!Holds(s)]
LEMMA UsedIsSum ==
    ASSUME servers \in SUBSET ServerType, IsFiniteSet(servers)
    PROVE  /\ SW!UsedVram = Sum(Used, servers) + (IF orphan THEN 20 ELSE 0)
           /\ Used \in [ServerType -> Nat] /\ Floor \in [ServerType -> Nat]
<1> DEFINE Adds(g) == g = [s \in SUBSET servers |->
                           IF s = {} THEN 0 ELSE SW!Holds(Chosen(s)) + g[s \ {Chosen(s)}]]
           all == SW!MapThenSumSet(SW!Holds, servers)
<1>1. all = (CHOOSE g : Adds(g))[servers]
  BY DEF SW!MapThenSumSet, SW!MapThenFoldSet, Chosen
<1>2. \A s \in SUBSET servers : s # {} => Used[Chosen(s)] = SW!Holds(Chosen(s))
  BY DEF Chosen, Used
<1>3. \A g : Adds(g) <=> IsSum(Used, g, SUBSET servers)
  BY <1>2 DEF IsSum, SumStep
<1>4. PICK f : f = CHOOSE g : Adds(g)
  OBVIOUS
<1>5. PICK h : h = CHOOSE g : IsSum(Used, g, SUBSET servers)
  OBVIOUS
<1>6. \E g : IsSum(Used, g, SUBSET servers)
  BY SumExists
<1>7. IsSum(Used, h, SUBSET servers)
  BY <1>5, <1>6
<1>8. Adds(f)
  BY <1>3, <1>4, <1>6
<1>9. IsSum(Used, f, SUBSET servers)
  BY <1>3, <1>8
<1> HIDE DEF Adds
<1>10. Used \in [ServerType -> Nat] /\ Floor \in [ServerType -> Nat]
  BY DEF Used, Floor, SW!Holds
<1>11. f[servers] = h[servers]
  <2>1. \A s \in SUBSET servers : f[s] = h[s] /\ f[s] \in Nat
    BY ONLY <1>7, <1>9, <1>10, SumUnique, IsFiniteSet(servers), servers \in SUBSET ServerType,
            servers \in SUBSET servers
  <2> QED BY <2>1
<1>12. all = Sum(Used, servers)
  BY <1>1, <1>4, <1>5, <1>11 DEF Sum
<1> QED BY <1>10, <1>12 DEF SW!UsedVram

\* Whether a result is of its configuration, as the four parts of ResultsRight say.
Right(r, c) == r.of = c /\ r.server # 0 =>
    /\ (r.server = c /\ r.gen = past.starts) \/ past.outlived \/ past.stale
    /\ plan.configs[c] = "cachegen" /\ SW!Script.clears /\ r.server = c /\ ~past.stale =>
          r.off = (IF r.wrote THEN 1 ELSE 0)
    /\ SW!Script.monitors => /\ r.n = r.stat \/ past.late
                             /\ r.peak >= r.max \/ past.died
    /\ plan.script = "vram" /\ ~past.died /\ ~past.outlived /\ ~past.stale => ~r.diff
LEMMA ResultsAre == SW!ResultsRight <=> \A c \in DOMAIN rec : Right(rec[c], c)
  BY DEF SW!ResultsRight, SW!OwnServer, SW!OffloadRight, SW!SamplesRight, SW!SumsRight, SW!Measured,
         Right

\* What the script has done wrong is not forgotten.
Remembered ==
    /\ past'.starts = past.starts /\ past'.stale = past.stale /\ past'.torn = past.torn
    /\ past.outlived => past'.outlived
    /\ past.died => past'.died
    /\ past.late => past'.late
LEMMA ResultsStay ==
    ASSUME SW!ResultsRight, UNCHANGED plan, Remembered,
           \A c \in DOMAIN rec' : (rec'[c] = rec[c] /\ c \in DOMAIN rec) \/ Right(rec[c], c)'
    PROVE  SW!ResultsRight'
<1>1. SW!Script' = SW!Script
  BY DEF SW!Script
<1>2. \A c \in DOMAIN rec : Right(rec[c], c)
  BY ResultsAre
<1>3. \A c \in DOMAIN rec' : Right(rec[c], c)'
  <2> SUFFICES ASSUME NEW c \in DOMAIN rec', c \in DOMAIN rec, rec'[c] = rec[c] PROVE Right(rec[c], c)'
    OBVIOUS
  <2>1. Right(rec[c], c)
    BY <1>2
  <2> QED BY <1>1, <2>1 DEF Right, Remembered
<1> QED BY <1>3 DEF SW!ResultsRight, SW!OwnServer, SW!OffloadRight, SW!SamplesRight, SW!SumsRight,
                    SW!Measured, Right

\* What does not change with the plan.
LEMMA PlanStays ==
    ASSUME SweepInv, UNCHANGED plan
    PROVE  /\ SW!Script' = SW!Script /\ SW!Configs' = SW!Configs
           /\ SW!Configs = 1..Len(plan.configs) /\ Len(plan.configs) \in Nat
           /\ at \in Nat \ {0} /\ past.starts \in 1..2 /\ plan \in Plans
  BY ScriptFacts DEF SW!Script, SW!Configs, SweepInv, SweepTypeOK, PlaceOK, ResultsOK

\* The initial states satisfy the inductive invariant.
LEMMA SweepInit == SW!Init => SweepInv
<1> SUFFICES ASSUME SW!Init PROVE SweepInv
  OBVIOUS
<1> USE DEF SW!Init
<1>1. plan \in Plans
  OBVIOUS
<1>2. IsFiniteSet({}) /\ SW!Script.monitors \in BOOLEAN
  BY FS_EmptySet, ScriptFacts, <1>1
<1>3. SweepTypeOK
  <2>1. PlaceOK
    BY <1>1 DEF PlaceOK, Steps
  <2>0. ServersOK
    BY <1>2 DEF ServersOK
  <2>2. MeasuresOK
    BY DEF MeasuresOK, SW!MonOff, SW!NoBase, SW!NewRun, BaseType
  <2>3. ResultsOK
    BY <1>2 DEF ResultsOK
  <2> QED BY <2>0, <2>1, <2>2, <2>3 DEF SweepTypeOK
<1>4. ServersBegun /\ ServersOwn /\ RunRight
  BY DEF ServersBegun, ServersOwn, RunRight, Served
<1>5. DiskRight /\ MonRight /\ SumsFollow /\ FilesKept
  BY DEF DiskRight, MonRight, SumsFollow, FilesKept, Served, Sampled, SW!MonOff
<1>6. SW!ResultsRight
  BY ResultsAre
<1> QED BY <1>3, <1>4, <1>5, <1>6 DEF SweepInv

-----------------------------------------------------------------------------
(* Before the request. *)

\* A configuration that is done keeps its result.
LEMMA SkipRight == SweepInv /\ SW!Skip => SweepInv'
<1> SUFFICES ASSUME SweepInv, SW!Skip PROVE SweepInv'
  OBVIOUS
<1> USE DEF SW!Skip
<1>1. /\ plan' = plan /\ step = "pick" /\ step' = "pick" /\ at' = at + 1
      /\ UNCHANGED <<servers, orphan, disk, mon, run, file, opened, past>>
      /\ at \in SW!Configs
  BY PlanStays DEF SW!GPU
<1>2. /\ SW!Script' = SW!Script /\ SW!Configs' = SW!Configs /\ SW!Configs \subseteq Nat
      /\ SW!Configs = 1..Len(plan.configs)
      /\ plan \in Plans /\ at \in Nat /\ opened = 0 /\ file[at] \in SW!Script.resume
  BY <1>1, PlanStays DEF SweepInv, SweepTypeOK, PlaceOK, SW!Skipped
<1>3. SweepTypeOK'
  <2>1. PlaceOK'
    BY <1>1, <1>2 DEF SweepInv, SweepTypeOK, PlaceOK
  <2> QED BY <1>1, <1>2, <2>1 DEF SweepInv, SweepTypeOK, ServersOK, MeasuresOK, ResultsOK
<1>4. ServersBegun' /\ ServersOwn'
  BY <1>1, <1>2 DEF SweepInv, SweepTypeOK, ServersOK, ServersBegun, ServersOwn, Clean, ServerType
<1>5. RunRight'
  BY <1>1, <1>2 DEF SweepInv, RunRight, Served
<1>6. DiskRight' /\ MonRight' /\ SumsFollow'
  BY <1>1, <1>2 DEF SweepInv, DiskRight, MonRight, SumsFollow, Served, Sampled, Clean
<1>7. rec'[at].ok = (file[at] = "ok") /\ rec'[at].of = -1
  BY <1>1 DEF SW!OldRun, SW!NewRun
<1>8. FilesKept'
  <2>1. plan.script = "progress" /\ ~past.torn => \A c \in past.kept : c \in DOMAIN rec' /\ SW!Outcome(c)' = "ok"
    <3> SUFFICES ASSUME plan.script = "progress", ~past.torn, NEW c \in past.kept
                 PROVE  c \in DOMAIN rec' /\ SW!Outcome(c)' = "ok"
      OBVIOUS
    <3>1. file[c] = "ok" /\ c \in DOMAIN rec /\ SW!Outcome(c) = "ok"
      BY <1>2 DEF SweepInv, FilesKept
    <3> QED BY <1>1, <1>7, <3>1 DEF SW!Outcome
  <2> QED BY <1>1, <1>2, <2>1 DEF SweepInv, FilesKept
<1>9. SW!ResultsRight'
  <2> SUFFICES ASSUME NEW c \in DOMAIN rec', ~(rec'[c] = rec[c] /\ c \in DOMAIN rec)
               PROVE  Right(rec[c], c)'
    BY <1>1, ResultsStay DEF SweepInv, Remembered
  <2> QED BY <1>1, <1>2, <1>7 DEF Right
<1> QED BY <1>3, <1>4, <1>5, <1>6, <1>8, <1>9 DEF SweepInv

\* Stopping servers leaves those of SIGTERM behind, or those of other starts.
LEMMA StopServersIs ==
    ASSUME SweepInv, NEW how \in {"none", "term", "kill", "all", "proc"}, SW!StopServers(how)
    PROVE  /\ ServersOK' /\ (orphan' => orphan \/ how = "proc")
           /\ past'.outlived \in BOOLEAN /\ past' = [past EXCEPT !.outlived = past'.outlived]
           /\ past.outlived => past'.outlived
           /\ \A s \in servers' : \E t \in servers :
                 /\ s.of = t.of /\ s.gen = t.gen
                 /\ s = t \/ (s.st = "stopping" /\ past'.outlived)
           /\ \A s, t \in servers' : s.of = t.of /\ s.gen = t.gen => s = t
           /\ how \in {"kill", "all"} => servers' = {}
           /\ how = "term" => servers' = {} \/ past'.outlived
           /\ how = "none" => servers' = servers
           /\ how = "proc" => servers' = {s \in servers : ~Own(s)}
<1>1. /\ servers \subseteq ServerType /\ IsFiniteSet(servers) /\ orphan \in BOOLEAN
      /\ past.outlived \in BOOLEAN
      /\ \A s, t \in servers : s.of = t.of /\ s.gen = t.gen => s = t
      /\ past = [past EXCEPT !.outlived = past.outlived]
  BY DEF SweepInv, SweepTypeOK, ServersOK, ResultsOK, ServersBegun
<1>2. IsFiniteSet({})
  BY FS_EmptySet
<1> USE DEF SW!StopServers
<1>3. CASE how = "none"
  BY <1>1, <1>3 DEF ServersOK
<1>4. CASE how \in {"kill", "all"}
  BY <1>1, <1>2, <1>4 DEF ServersOK
<1>5. CASE how = "proc"
  <2>1. servers' = servers \ SW!Proc /\ past' = past /\ orphan' \in BOOLEAN
    BY <1>1, <1>5
  <2>2. servers' = {s \in servers : ~Own(s)}
    BY <2>1 DEF SW!Proc, Own
  <2>3. IsFiniteSet(servers')
    BY <1>1, <2>2, FS_Subset
  <2> QED BY <1>1, <1>5, <2>1, <2>2, <2>3 DEF ServersOK
<1>6. CASE how = "term"
  <2>1. PICK slow \in BOOLEAN : SW!Terminate(slow) /\ past' = [past EXCEPT !.outlived = past.outlived \/ slow]
    BY <1>6
  <2>2. CASE ~slow
    <3>1. servers' = {} /\ orphan' = orphan /\ past' = past
      BY <1>1, <2>1, <2>2 DEF SW!Terminate
    <3> QED BY <1>1, <1>2, <1>6, <3>1 DEF ServersOK
  <2>3. CASE slow
    <3>1. /\ servers' = {[s EXCEPT !.st = "stopping"] : s \in servers} /\ orphan' = orphan
          /\ past' = [past EXCEPT !.outlived = TRUE]
      BY <1>1, <2>1, <2>3 DEF SW!Terminate
    <3>2. IsFiniteSet(servers')
      <4> DEFINE f == [s \in servers |-> [s EXCEPT !.st = "stopping"]]
      <4>1. servers' = {f[s] : s \in servers}
        BY <3>1
      <4> HIDE DEF f
      <4> QED BY <1>1, <4>1, ImageSize
    <3>3. past'.outlived /\ past' = [past EXCEPT !.outlived = past'.outlived]
      BY <3>1 DEF SweepInv, SweepTypeOK, ResultsOK
    <3>4. servers' \subseteq ServerType
      BY <1>1, <3>1 DEF ServerType
    <3>5. \A s \in servers' : \E t \in servers : s.of = t.of /\ s.gen = t.gen /\ s.st = "stopping"
      BY <1>1, <3>1 DEF ServerType
    <3>6. \A s, t \in servers' : s.of = t.of /\ s.gen = t.gen => s = t
      BY <1>1, <3>1 DEF ServerType
    <3> QED BY <1>1, <1>6, <3>1, <3>2, <3>3, <3>4, <3>5, <3>6 DEF ServersOK
  <2> QED BY <2>2, <2>3
<1> QED BY <1>3, <1>4, <1>5, <1>6

\* The directory is emptied and earlier servers are stopped.
LEMMA PrepareRight == SweepInv /\ SW!Prepare => SweepInv'
<1> SUFFICES ASSUME SweepInv, SW!Prepare PROVE SweepInv'
  OBVIOUS
<1> USE DEF SW!Prepare
<1>1. /\ plan' = plan /\ step = "pick" /\ step' = "launch" /\ at' = at
      /\ UNCHANGED <<rec, file, opened>>
      /\ at \in SW!Configs /\ at \in Nat \ {0} /\ mon' = SW!MonOff
      /\ run' = [SW!NewRun EXCEPT !.of = at] /\ SW!StopServers(SW!Script.first)
      /\ file[at] \notin SW!Script.resume
  BY PlanStays DEF SW!Results, SW!Goto, SW!Skipped
<1>2. /\ SW!Script' = SW!Script /\ SW!Configs' = SW!Configs /\ SW!Configs \subseteq Nat
      /\ SW!Configs = 1..Len(plan.configs) /\ plan \in Plans /\ opened = 0
  BY <1>1, PlanStays DEF SweepInv, SweepTypeOK, PlaceOK
<1>3. SW!Script.first \in {"none", "term", "kill", "all", "proc"} /\ SW!Script.first # "proc"
  BY <1>2, ScriptFacts
<1>4. /\ ServersOK' /\ (orphan' => orphan) /\ past'.outlived \in BOOLEAN
      /\ past' = [past EXCEPT !.outlived = past'.outlived] /\ (past.outlived => past'.outlived)
      /\ \A s \in servers' : \E t \in servers :
            /\ s.of = t.of /\ s.gen = t.gen
            /\ s = t \/ (s.st = "stopping" /\ past'.outlived)
      /\ \A s, t \in servers' : s.of = t.of /\ s.gen = t.gen => s = t
      /\ SW!Script.first # "none" => servers' = {} \/ past'.outlived
      /\ SW!Script.first = "none" => servers' = servers
  BY <1>1, <1>3, StopServersIs
<1>5. Remembered /\ past'.kept = past.kept
  BY <1>4 DEF SweepInv, SweepTypeOK, ResultsOK, Remembered
<1>6. SweepTypeOK'
  <2>1. PlaceOK'
    BY <1>1, <1>2 DEF PlaceOK, Steps
  <2>2. MeasuresOK'
    <3>1. /\ mon' = [running |-> FALSE, alive |-> FALSE,
                      base |-> [used |-> -1, kv |-> 0, act |-> 0, cuda |-> 0], pending |-> -1,
                      sum |-> 0, n |-> 0, max |-> 0, rise |-> 0, last |-> -1, diff |-> FALSE]
          /\ run' = [of |-> at, server |-> 0, gen |-> 0, before |-> 0, ok |-> FALSE,
                      wrote |-> FALSE, n |-> 0]
      BY <1>1 DEF SW!MonOff, SW!NoBase, SW!NewRun
    <3>2. at \in Int
      BY <1>1
    <3>3. run' \in [of: Int, server: Nat, gen: 0..2, before: Int, ok: BOOLEAN, wrote: BOOLEAN, n: Int]
      BY ONLY <3>1, <3>2
    <3>4. mon' \in [running: BOOLEAN, alive: BOOLEAN, base: BaseType, pending: Int, sum: Int, n: Int,
                    max: Int, rise: Int, last: Int, diff: BOOLEAN]
      BY ONLY <3>1 DEF BaseType
    <3> QED BY ONLY <3>3, <3>4 DEF MeasuresOK
  <2>3. ResultsOK'
    <3>1. past' \in [outlived: BOOLEAN, died: BOOLEAN, torn: BOOLEAN, late: BOOLEAN, stale: BOOLEAN,
                     kept: SUBSET SW!Configs, starts: 1..2]
      BY <1>4 DEF SweepInv, SweepTypeOK, ResultsOK
    <3>2. /\ disk' \in [{"native", "torch", "cachegen"} -> SUBSET Nat]
          /\ \A d \in {"native", "torch", "cachegen"} : IsFiniteSet(disk'[d])
      BY FS_EmptySet DEF SweepInv, SweepTypeOK, ResultsOK
    <3> QED BY <1>1, <1>2, <3>1, <3>2 DEF SweepInv, SweepTypeOK, ResultsOK
  <2> QED BY <1>4, <2>1, <2>2, <2>3 DEF SweepTypeOK
<1>7. ServersBegun'
  BY <1>1, <1>2, <1>4, <1>5 DEF SweepInv, SweepTypeOK, ServersOK, ServersBegun, Remembered, ServerType
<1>8. ServersOwn'
  BY <1>1, <1>2, <1>4, <1>5 DEF SweepInv, ServersOwn, Clean, Remembered
<1>9. RunRight'
  BY <1>1, <1>2 DEF SweepInv, RunRight, Served, SW!NewRun
<1>10. DiskRight'
  <2>1. SW!Script.clears /\ plan.configs[at] = "cachegen" => disk'["cachegen"] = {}
    <3>1. SW!Script.clears => ~SW!Script.pipe
      BY <1>2, ScriptFacts
    <3> QED BY <1>1, <3>1 DEF SW!LooksAt, SweepInv, SweepTypeOK, ResultsOK
  <2> QED BY <1>1, <1>2, <2>1 DEF DiskRight, SW!NewRun, Served
<1>11. MonRight' /\ SumsFollow'
  BY <1>1, <1>2 DEF MonRight, SumsFollow, Served, Sampled, SW!MonOff
<1>12. FilesKept'
  <2>1. SW!Outcome(at)' = SW!Outcome(at) /\ \A c : SW!Outcome(c)' = SW!Outcome(c)
    BY <1>1 DEF SW!Outcome
  <2>2. plan.script # "progress" \/ ~past.torn => at \notin past.kept
    <3>1. "ok" \in SW!Script.resume \/ past.kept = {}
      BY <1>2, ScriptFacts DEF SweepInv, FilesKept
    <3> QED BY <1>1, <1>2, <3>1 DEF SweepInv, FilesKept
  <2> QED BY <1>1, <1>2, <1>5, <2>1, <2>2 DEF SweepInv, FilesKept, Remembered
<1>13. SW!ResultsRight'
  BY <1>1, <1>5, ResultsStay DEF SweepInv
<1> QED BY <1>6, <1>7, <1>8, <1>9, <1>10, <1>11, <1>12, <1>13 DEF SweepInv

\* The new server is the only one of its configuration and start.
LEMMA LaunchRight == SweepInv /\ SW!Launch => SweepInv'
<1> SUFFICES ASSUME SweepInv, SW!Launch PROVE SweepInv'
  OBVIOUS
<1> DEFINE new == [of |-> at, gen |-> past.starts, st |-> "loading"]
<1>1. /\ plan' = plan /\ step = "launch" /\ step' = "wait" /\ at' = at
      /\ UNCHANGED <<orphan, disk, mon, run, rec, file, opened, past>>
      /\ servers' = servers \cup {new}
  BY DEF SW!Launch, SW!Results, SW!Goto
<1>2. /\ SW!Script' = SW!Script /\ SW!Configs' = SW!Configs /\ SW!Configs \subseteq Nat
      /\ at \in SW!Configs /\ past.starts \in 1..2 /\ opened = 0
  BY <1>1, PlanStays DEF SweepInv, SweepTypeOK, PlaceOK
<1>3. SweepTypeOK'
  <2>1. IsFiniteSet(servers')
    BY <1>1, FS_AddElement DEF SweepInv, SweepTypeOK, ServersOK
  <2>2. new \in ServerType
    BY <1>2 DEF ServerType
  <2> QED BY <1>1, <1>2, <2>1, <2>2
          DEF SweepInv, SweepTypeOK, PlaceOK, Steps, ServersOK, MeasuresOK, ResultsOK
<1>4. ServersBegun'
  <2>1. \A s \in servers : ~(s.of = at /\ s.gen = past.starts)
    BY <1>1, <1>2 DEF SweepInv, ServersBegun
  <2>2. new.of = at /\ new.gen = past.starts /\ new.st = "loading" /\ at <= at
    BY <1>2
  <2> HIDE DEF new
  <2> QED BY <1>1, <1>2, <2>1, <2>2 DEF SweepInv, ServersBegun
<1>5. ServersOwn'
  BY <1>1, <1>2 DEF SweepInv, ServersOwn, Clean, Own
<1>6. RunRight' /\ DiskRight' /\ MonRight' /\ SumsFollow'
  BY <1>1, <1>2 DEF SweepInv, RunRight, DiskRight, MonRight, SumsFollow, Clean, Served, Sampled
<1>7. FilesKept' /\ SW!ResultsRight'
  <2>1. \A c : SW!Outcome(c)' = SW!Outcome(c)
    BY <1>1 DEF SW!Outcome
  <2> QED BY <1>1, <1>2, <2>1, ResultsStay DEF SweepInv, FilesKept, Remembered
<1> QED BY <1>3, <1>4, <1>5, <1>6, <1>7 DEF SweepInv

\* Whoever answers on the port is taken for the server; it is, if none was left.
LEMMA ReadyRight == SweepInv /\ SW!Ready => SweepInv'
<1> SUFFICES ASSUME SweepInv, SW!Ready PROVE SweepInv'
  OBVIOUS
<1>1. PICK s \in SW!Answers :
      /\ plan' = plan /\ step = "wait" /\ at' = at
      /\ step' = (IF SW!Script.monitors THEN "monitor" ELSE "request")
      /\ UNCHANGED <<servers, orphan, disk, mon, rec, file, opened, past>>
      /\ run' = [run EXCEPT !.server = s.of, !.gen = s.gen,
                            !.before = SW!Cardinality(disk[SW!LooksAt(plan.configs[at])])]
  BY DEF SW!Ready, SW!Results, SW!Goto, SW!GPU
<1>2. /\ SW!Script' = SW!Script /\ SW!Configs' = SW!Configs /\ SW!Configs \subseteq Nat
      /\ at \in SW!Configs /\ past.starts \in 1..2 /\ opened = 0 /\ plan \in Plans
      /\ SW!Script.monitors \in BOOLEAN
  BY <1>1, PlanStays, ScriptFacts DEF SweepInv, SweepTypeOK, PlaceOK
<1>3. /\ s \in servers /\ s.st \in {"ready", "stopping"}
      /\ s.of \in Nat /\ s.gen \in 1..2 /\ (s.st = "stopping" => past.outlived)
  BY <1>1 DEF SW!Answers, SW!Bound, SweepInv, SweepTypeOK, ServersOK, ServerType, ServersBegun
<1>4. SW!LooksAt(plan.configs[at]) \in {"native", "torch", "cachegen"}
  <2>1. plan.configs \in Seq({"native", "cachegen"}) /\ SW!Configs = 1..Len(plan.configs)
    BY <1>2, ScriptFacts
  <2> QED BY <1>2, <2>1 DEF SW!LooksAt, SW!WritesTo
<1>5. SW!Cardinality(disk[SW!LooksAt(plan.configs[at])]) \in Int
  BY <1>4, CountServers, FS_CardinalityType DEF SweepInv, SweepTypeOK, ResultsOK
<1>6. SweepTypeOK'
  <2>1. PlaceOK' /\ ServersOK' /\ ResultsOK'
    BY <1>1, <1>2 DEF SweepInv, SweepTypeOK, PlaceOK, Steps, Served, ServersOK, ResultsOK
  <2>2. MeasuresOK'
    <3>1. PICK n \in Int : run' = [run EXCEPT !.server = s.of, !.gen = s.gen, !.before = n]
      BY <1>1, <1>5
    <3>2. s.gen \in 0..2
      BY <1>3
    <3>3. run' \in [of: Int, server: Nat, gen: 0..2, before: Int, ok: BOOLEAN, wrote: BOOLEAN, n: Int]
      BY <1>3, <3>1, <3>2 DEF SweepInv, SweepTypeOK, MeasuresOK
    <3> QED BY <1>1, <3>3 DEF SweepInv, SweepTypeOK, MeasuresOK
  <2> QED BY <2>1, <2>2 DEF SweepTypeOK
<1>7. ServersBegun' /\ ServersOwn'
  BY <1>1, <1>2 DEF SweepInv, ServersBegun, ServersOwn, Clean, Own
<1>8. RunRight'
  <2>1. Clean => Own(s)
    BY <1>1, <1>3 DEF SweepInv, ServersOwn
  <2> QED BY <1>1, <1>2, <1>3, <2>1 DEF SweepInv, SweepTypeOK, MeasuresOK, RunRight, Own, Clean, Served
<1>9. DiskRight'
  <2>1. SW!Script.clears /\ plan.configs[at] = "cachegen" => run'.before = 0
    <3> SUFFICES ASSUME SW!Script.clears, plan.configs[at] = "cachegen" PROVE run'.before = 0
      OBVIOUS
    <3>1. ~SW!Script.pipe
      BY <1>2, ScriptFacts
    <3>2. disk[SW!LooksAt(plan.configs[at])] = {}
      BY <1>1, <3>1 DEF SweepInv, DiskRight, SW!LooksAt
    <3> QED BY <1>1, <3>2, CountServers, FS_EmptySet DEF SweepInv, SweepTypeOK, MeasuresOK
  <2> QED BY <1>1, <1>2, <2>1 DEF SweepInv, SweepTypeOK, MeasuresOK, DiskRight, Served
<1>10. MonRight'
  BY <1>1, <1>2 DEF SweepInv, MonRight, Sampled, Served
<1>11. SumsFollow'
  <2>1. plan.script = "vram" => SW!Script.monitors
    BY <1>2, ScriptFacts DEF SW!Vram
  <2> QED BY <1>1, <1>2, <1>3, <2>1 DEF SweepInv, SumsFollow, Clean, Sampled, Served
<1>12. FilesKept' /\ SW!ResultsRight'
  <2>1. \A c : SW!Outcome(c)' = SW!Outcome(c)
    BY <1>1 DEF SW!Outcome
  <2> QED BY <1>1, <1>2, <2>1, ResultsStay DEF SweepInv, FilesKept, Remembered
<1> QED BY <1>6, <1>7, <1>8, <1>9, <1>10, <1>11, <1>12 DEF SweepInv

\* A start that failed.
LEMMA NotReadyRight == SweepInv /\ SW!NotReady => SweepInv'
<1> SUFFICES ASSUME SweepInv, SW!NotReady PROVE SweepInv'
  OBVIOUS
<1>1. /\ plan' = plan /\ step = "wait" /\ step' = "save" /\ at' = at
      /\ UNCHANGED <<disk, mon, run, file, opened>> /\ SW!StopServers(SW!Script.fail)
      /\ rec' = IF ~SW!Script.reports THEN rec
                ELSE [c \in DOMAIN rec \cup {at} |-> IF c = at THEN run ELSE rec[c]]
  BY DEF SW!NotReady, SW!Goto
<1>2. /\ SW!Script' = SW!Script /\ SW!Configs' = SW!Configs /\ SW!Configs \subseteq Nat
      /\ at \in SW!Configs /\ at \in Nat /\ opened = 0 /\ plan \in Plans
      /\ SW!Script.reports \in BOOLEAN
  BY <1>1, PlanStays, ScriptFacts DEF SweepInv, SweepTypeOK, PlaceOK
<1>3. /\ SW!Script.fail \in {"none", "proc"}
      /\ SW!Script.first = "none" => SW!Script.fail = "proc"
      /\ plan.script = "vram" => SW!Script.fail = "none"
  BY <1>2, ScriptFacts DEF SW!Vram
<1>4. /\ ServersOK' /\ (orphan' => orphan \/ SW!Script.fail = "proc") /\ past'.outlived \in BOOLEAN
      /\ past' = [past EXCEPT !.outlived = past'.outlived] /\ (past.outlived => past'.outlived)
      /\ \A s \in servers' : \E t \in servers :
            /\ s.of = t.of /\ s.gen = t.gen
            /\ s = t \/ (s.st = "stopping" /\ past'.outlived)
      /\ \A s, t \in servers' : s.of = t.of /\ s.gen = t.gen => s = t
      /\ SW!Script.fail = "none" => servers' = servers
      /\ SW!Script.fail = "proc" => servers' = {s \in servers : ~Own(s)}
  BY <1>1, <1>3, StopServersIs
<1>5. Remembered /\ past'.kept = past.kept /\ past'.late = past.late /\ past'.died = past.died
  BY <1>4 DEF SweepInv, SweepTypeOK, ResultsOK, Remembered
<1>6. SweepTypeOK'
  <2>1. PlaceOK' /\ MeasuresOK'
    BY <1>1, <1>2 DEF SweepInv, SweepTypeOK, PlaceOK, Steps, MeasuresOK
  <2>2. past' \in [outlived: BOOLEAN, died: BOOLEAN, torn: BOOLEAN, late: BOOLEAN, stale: BOOLEAN,
                   kept: SUBSET SW!Configs, starts: 1..2]
    BY <1>4 DEF SweepInv, SweepTypeOK, ResultsOK
  <2> QED BY <1>1, <1>2, <1>4, <2>1, <2>2 DEF SweepInv, SweepTypeOK, ResultsOK
<1>7. ServersBegun'
  BY <1>1, <1>2, <1>3, <1>4, <1>5
     DEF SweepInv, SweepTypeOK, ServersOK, ServersBegun, Remembered, ServerType
<1>8. ServersOwn'
  BY <1>1, <1>2, <1>3, <1>4, <1>5 DEF SweepInv, ServersOwn, Clean, Remembered, Own
<1>9. RunRight' /\ DiskRight'
  BY <1>1, <1>2 DEF SweepInv, RunRight, DiskRight, Served
<1>10. MonRight' /\ SumsFollow'
  BY <1>1, <1>2, <1>5 DEF SweepInv, MonRight, SumsFollow, Served, Sampled
<1>11. FilesKept'
  <2>1. \A c \in past.kept : plan.script = "progress" /\ ~past.torn =>
           c \in DOMAIN rec' /\ SW!Outcome(c)' = "ok"
    BY <1>1 DEF SweepInv, FilesKept, SW!Outcome
  <2> QED BY <1>1, <1>2, <1>5, <2>1 DEF SweepInv, FilesKept, Remembered
<1>12. SW!ResultsRight'
  <2> SUFFICES ASSUME NEW c \in DOMAIN rec', ~(rec'[c] = rec[c] /\ c \in DOMAIN rec)
               PROVE  Right(rec[c], c)'
    BY <1>1, <1>5, ResultsStay DEF SweepInv
  <2>1. rec'[c] = run /\ run.server = 0
    BY <1>1 DEF SweepInv, RunRight
  <2> QED BY <2>1 DEF Right
<1> QED BY <1>6, <1>7, <1>8, <1>9, <1>10, <1>11, <1>12 DEF SweepInv

-----------------------------------------------------------------------------
(* The request and the monitor thread. *)

\* The memory in use is a natural, never below what the servers hold at rest, and
\* no more while none has a request.
LEMMA UsedAbove ==
    ASSUME SweepInv
    PROVE  /\ SW!UsedVram \in Nat /\ Rest \in Nat /\ Rest <= SW!UsedVram
           /\ (\A s \in servers : s.st # "busy") => SW!UsedVram = Rest
<1>1. servers \in SUBSET ServerType /\ IsFiniteSet(servers) /\ orphan \in BOOLEAN
  BY DEF SweepInv, SweepTypeOK, ServersOK
<1>2. /\ SW!UsedVram = Sum(Used, servers) + (IF orphan THEN 20 ELSE 0)
      /\ Used \in [ServerType -> Nat] /\ Floor \in [ServerType -> Nat]
  BY <1>1, UsedIsSum
<1>3. Sum(Used, servers) \in Nat /\ Sum(Floor, servers) \in Nat
  BY ONLY <1>1, <1>2, SumByStep
<1> DEFINE id == [s \in servers |-> s]
<1>4. id \in [servers -> servers] /\ (\A x, y \in servers : id[x] = id[y] => x = y)
  OBVIOUS
<1>5. Sum(Floor, servers) <= Sum(Used, servers)
  <2>1. \A x \in servers : Floor[x] <= Used[id[x]]
    BY <1>1 DEF Floor, Used, SW!Holds
  <2> HIDE DEF id
  <2> QED BY ONLY <1>1, <1>2, <1>4, <2>1, SumInjective
<1>6. ASSUME \A s \in servers : s.st # "busy" PROVE Sum(Used, servers) <= Sum(Floor, servers)
  <2>1. \A x \in servers : Used[x] <= Floor[id[x]]
    BY <1>1, <1>6 DEF Floor, Used, SW!Holds
  <2> HIDE DEF id
  <2> QED BY ONLY <1>1, <1>2, <1>4, <2>1, SumInjective
<1> QED BY <1>1, <1>2, <1>3, <1>5, <1>6 DEF Rest

\* In run_vram_experiment, as long as nothing went wrong, there is one server.
LEMMA OneServer ==
    ASSUME SweepInv, plan.script = "vram", Clean, ~past.died, step \in Served
    PROVE  \E s \in servers :
              /\ servers = {s} /\ s.st \in {"ready", "busy"}
              /\ s.st = "busy" => step = "reply"
              /\ SW!UsedVram = (IF s.st = "busy" THEN 80 ELSE 60)
              /\ SW!KvStats = [alloc |-> 20, num |-> IF s.st = "busy" THEN 1 ELSE 0]
<1>1. PICK s \in servers : s.st \in {"ready", "busy"}
  BY DEF SweepInv, SumsFollow
<1>2. servers = {s} /\ (s.st = "busy" => step = "reply") /\ ~orphan
  BY <1>1 DEF SweepInv, ServersOwn, ServersBegun, Own, Served
<1>3. servers \in SUBSET ServerType /\ IsFiniteSet(servers) /\ orphan \in BOOLEAN /\ s \in ServerType
  BY DEF SweepInv, SweepTypeOK, ServersOK
<1>4. Used \in [ServerType -> Nat] /\ SW!UsedVram = Sum(Used, servers)
  <2>1. Sum(Used, servers) \in Nat
    BY ONLY <1>3, UsedIsSum, SumByStep
  <2> QED BY <1>2, <1>3, <2>1, UsedIsSum
<1>5. Sum(Used, servers) = Used[s]
  <2>1. Sum(Used, servers \ {s}) = Sum(Used, servers) - Used[s]
    BY ONLY <1>2, <1>3, <1>4, SumRemove
  <2>2. PICK e : e = servers \ {s}
    OBVIOUS
  <2>3. e = {} /\ IsFiniteSet(e) /\ e \in SUBSET ServerType
    BY <1>2, <2>2, FS_EmptySet
  <2>4. Sum(Used, e) = 0 /\ Sum(Used, servers) \in Nat /\ Used[s] \in Nat
    BY ONLY <1>3, <1>4, <2>3, SumByStep
  <2> QED BY <2>1, <2>2, <2>4
<1>6. Used[s] = (IF s.st = "busy" THEN 80 ELSE 60)
  BY <1>1, <1>3 DEF Used, SW!Holds
<1>7. SW!KvStats = [alloc |-> 20, num |-> IF s.st = "busy" THEN 1 ELSE 0]
  BY <1>1, <1>2 DEF SW!KvStats, SW!Bound
<1> QED BY <1>1, <1>2, <1>4, <1>5, <1>6, <1>7

\* A measurement has the memory in use and its parts are numbers.
LEMMA MeasureIs ==
    ASSUME NEW used \in Nat, NEW base \in BaseType
    PROVE  LET m == SW!Measure(used, SW!KvStats, base)
           IN  /\ m.used = used /\ m.kv = SW!KvStats.alloc
               /\ m.kv \in Int /\ m.act \in Int /\ m.cuda \in Int /\ m.sum \in Int
<1>1. PICK a \in Int, n \in Int : SW!KvStats = [alloc |-> a, num |-> n]
  <2>1. CASE SW!Bound = {}
    BY <2>1 DEF SW!KvStats
  <2>2. CASE SW!Bound # {}
    BY <2>2 DEF SW!KvStats
  <2> QED BY <2>1, <2>2
<1>2. base.used \in Int /\ base.kv \in Int /\ base.act \in Int /\ base.cuda \in Int
  BY DEF BaseType
<1>3. \A x \in Int : SW!AtLeast0(x) \in Int
  BY DEF SW!AtLeast0
<1>4. (a * n) \div 2 \in Int /\ (used * 15) \div 20 \in Int /\ (used * 3) \div 20 \in Int
      /\ (used * 2) \div 20 \in Int
  OBVIOUS
<1>5. CASE plan.script = "vram"
  <2> DEFINE placed == a > 0 /\ a <= used
             model == IF base # SW!NoBase
                      THEN (IF base.kv <= base.used THEN base.used - base.kv ELSE base.used)
                      ELSE IF placed THEN used - a ELSE (used * 15) \div 20
             kvUsed == IF base # SW!NoBase \/ placed THEN (IF n > 0 THEN (a * n) \div 2 ELSE a)
                       ELSE (used * 3) \div 20
             cuda == IF base # SW!NoBase \/ placed THEN SW!AtLeast0(used - model - kvUsed)
                     ELSE (used * 2) \div 20
  <2>1. SW!MeasureVram(used, SW!KvStats, base) =
           [used |-> used, kv |-> a, act |-> 0, cuda |-> cuda, sum |-> model + kvUsed + cuda]
    BY <1>1 DEF SW!MeasureVram
  <2>2. model \in Int
    BY <1>1, <1>2, <1>4
  <2>3. kvUsed \in Int
    BY <1>1, <1>4
  <2>4. cuda \in Int
    <3> HIDE DEF model, kvUsed
    <3>1. used - model - kvUsed \in Int
      BY <2>2, <2>3
    <3> QED BY <1>3, <1>4, <3>1
  <2> HIDE DEF placed, model, kvUsed, cuda
  <2>5. model + kvUsed + cuda \in Int
    BY ONLY <2>2, <2>3, <2>4
  <2>6. SW!Measure(used, SW!KvStats, base) =
           [used |-> used, kv |-> a, act |-> 0, cuda |-> cuda, sum |-> model + kvUsed + cuda]
    BY <1>5, <2>1 DEF SW!Measure
  <2> QED BY <1>1, <2>4, <2>5, <2>6
<1>6. CASE plan.script # "vram"
  <2> DEFINE w == IF base = SW!NoBase /\ a = 0 THEN 0 ELSE 20
             act == IF base # SW!NoBase THEN base.act
                    ELSE IF a > 0 THEN SW!AtLeast0(used - a - 25) ELSE 0
             cuda == IF base # SW!NoBase THEN base.cuda ELSE IF a > 0 THEN 5 ELSE 0
  <2>1. SW!MeasureSweep(used, SW!KvStats, base) =
           [used |-> used, kv |-> a, act |-> act, cuda |-> cuda, sum |-> w + a + act + cuda]
    BY <1>1 DEF SW!MeasureSweep
  <2>2. used - a - 25 \in Int
    BY <1>1
  <2>3. w \in Int /\ act \in Int /\ cuda \in Int
    BY <1>2, <1>3, <2>2
  <2> HIDE DEF w, act, cuda
  <2>4. w + a + act + cuda \in Int
    BY ONLY <1>1, <2>3
  <2>6. SW!Measure(used, SW!KvStats, base) =
           [used |-> used, kv |-> a, act |-> act, cuda |-> cuda, sum |-> w + a + act + cuda]
    BY <1>6, <2>1 DEF SW!Measure
  <2> QED BY <1>1, <2>3, <2>4, <2>6
<1> QED BY <1>5, <1>6

\* A step of the monitor thread, and its start, leave everything else alone.
LEMMA MonitorOnly ==
    ASSUME SweepInv, MeasuresOK', MonRight', SumsFollow',
           UNCHANGED <<plan, at, servers, orphan, disk, run, rec, file, opened, past>>,
           step' = step \/ (step = "monitor" /\ step' = "request")
    PROVE  SweepInv'
<1>1. /\ SW!Script' = SW!Script /\ SW!Configs' = SW!Configs
      /\ (step \in Served <=> step' \in Served) /\ (opened = 0 \/ step' = step)
  BY PlanStays DEF SweepInv, SweepTypeOK, PlaceOK, Served
<1>2. SweepTypeOK'
  <2>1. PlaceOK'
    BY <1>1 DEF SweepInv, SweepTypeOK, PlaceOK, Steps, Served
  <2> QED BY <1>1, <2>1 DEF SweepInv, SweepTypeOK, ServersOK, ResultsOK
<1>3. ServersBegun' /\ ServersOwn'
  BY <1>1 DEF SweepInv, ServersBegun, ServersOwn, Clean, Own
<1>4. RunRight' /\ DiskRight'
  BY <1>1 DEF SweepInv, RunRight, DiskRight, Clean, Served
<1>5. FilesKept' /\ SW!ResultsRight'
  <2>1. \A c : SW!Outcome(c)' = SW!Outcome(c)
    BY DEF SW!Outcome
  <2> QED BY <1>1, <2>1, ResultsStay DEF SweepInv, FilesKept, Remembered
<1> QED BY <1>2, <1>3, <1>4, <1>5 DEF SweepInv

\* The baseline is what is in use while no server has a request.
LEMMA StartMonitorRight == SweepInv /\ SW!StartMonitor => SweepInv'
<1> SUFFICES ASSUME SweepInv, SW!StartMonitor PROVE SweepInv'
  OBVIOUS
<1> DEFINE m == SW!Measure(SW!UsedVram, SW!KvStats, SW!NoBase)
           base == SW!Baseline(m)
<1>1. /\ step = "monitor" /\ step' = "request"
      /\ UNCHANGED <<plan, at, servers, orphan, disk, run, rec, file, opened, past>>
      /\ mon' = [SW!MonOff EXCEPT !.running = TRUE, !.alive = TRUE, !.base = base]
  BY DEF SW!StartMonitor, SW!Results, SW!Goto, SW!GPU
<1>2. SW!UsedVram \in Nat /\ Rest \in Nat /\ SW!UsedVram = Rest /\ Rest' = Rest
  <2>1. \A s \in servers : s.st # "busy"
    BY <1>1 DEF SweepInv, ServersBegun
  <2> QED BY <1>1, <2>1, UsedAbove DEF Rest
<1>3. SW!NoBase \in BaseType
  BY DEF SW!NoBase, BaseType
<1>4. base \in BaseType /\ base.used = SW!UsedVram /\ base.kv = SW!KvStats.alloc
  <2>1. m.used = SW!UsedVram /\ m.kv = SW!KvStats.alloc /\ m.kv \in Int /\ m.act \in Int /\ m.cuda \in Int
    BY <1>2, <1>3, MeasureIs
  <2> HIDE DEF m
  <2> QED BY <1>2, <2>1 DEF SW!Baseline, BaseType
<1> HIDE DEF base
<1>5. MeasuresOK'
  <2>1. mon' = [running |-> TRUE, alive |-> TRUE, base |-> base, pending |-> -1, sum |-> 0,
                n |-> 0, max |-> 0, rise |-> 0, last |-> -1, diff |-> FALSE]
    BY <1>1 DEF SW!MonOff
  <2>2. mon' \in [running: BOOLEAN, alive: BOOLEAN, base: BaseType, pending: Int, sum: Int, n: Int,
                  max: Int, rise: Int, last: Int, diff: BOOLEAN]
    BY ONLY <1>4, <2>1
  <2> QED BY <1>1, <2>2 DEF SweepInv, SweepTypeOK, MeasuresOK
<1>6. /\ mon'.base = base /\ mon'.rise = 0 /\ mon'.max = 0 /\ mon'.last = -1 /\ mon'.pending = -1
      /\ ~mon'.diff
  BY <1>1 DEF SW!MonOff
<1>7. MonRight'
  BY <1>1, <1>2, <1>4, <1>6 DEF MonRight, Sampled, Served
<1>8. SumsFollow'
  <2> SUFFICES ASSUME plan.script = "vram", Clean, ~past.died
               PROVE  /\ \E s \in servers : s.st \in {"ready", "busy"}
                      /\ base.used = 60 /\ base.kv = 20
    BY <1>1, <1>6 DEF SumsFollow, Clean
  <2> QED BY <1>1, <1>4, OneServer DEF Served
<1> QED BY <1>1, <1>5, <1>7, <1>8, MonitorOnly

\* The parts that run_vram_experiment gives to a use of 60 or 80, over its baseline.
LEMMA PartsAddUp ==
    ASSUME plan.script = "vram", NEW base, base.used = 60, base.kv = 20, NEW used, NEW num,
           \/ used = 60 /\ num = 0
           \/ used = 80 /\ num = 1
    PROVE  SW!Measure(used, [alloc |-> 20, num |-> num], base).sum = used
<1>1. base # SW!NoBase
  BY DEF SW!NoBase
<1> DEFINE kv == [alloc |-> 20, num |-> num]
           kvUsed == IF num > 0 THEN (20 * num) \div 2 ELSE 20
           cuda == SW!AtLeast0(used - 40 - kvUsed)
<1>2. SW!MeasureVram(used, kv, base).sum = 40 + kvUsed + cuda
  BY <1>1 DEF SW!MeasureVram
<1>3. kvUsed = (IF num = 0 THEN 20 ELSE 10)
  OBVIOUS
<1>4. 40 + kvUsed + cuda = used
  BY <1>3 DEF SW!AtLeast0
<1> QED BY <1>2, <1>4 DEF SW!Measure

\* A measurement is never below the baseline.
LEMMA SampleRight == SweepInv /\ SW!Sample => SweepInv'
<1> SUFFICES ASSUME SweepInv, SW!Sample PROVE SweepInv'
  OBVIOUS
<1> DEFINE sum == SW!Measure(SW!UsedVram, SW!KvStats, mon.base).sum
<1>1. /\ step' = step /\ mon.running
      /\ UNCHANGED <<plan, at, servers, orphan, disk, run, rec, file, opened, past>>
      /\ mon' = [mon EXCEPT !.pending = SW!UsedVram, !.sum = sum]
  BY DEF SW!Sample, SW!Results, SW!GPU
<1>2. SW!UsedVram \in Nat /\ Rest \in Nat /\ Rest <= SW!UsedVram /\ Rest' = Rest
  BY <1>1, UsedAbove DEF Rest
<1>3. sum \in Int
  BY <1>2, MeasureIs DEF SweepInv, SweepTypeOK, MeasuresOK
<1>4. /\ mon'.pending = SW!UsedVram /\ mon'.sum = sum
      /\ mon'.running = mon.running /\ mon'.alive = mon.alive /\ mon'.base = mon.base
      /\ mon'.n = mon.n /\ mon'.max = mon.max /\ mon'.rise = mon.rise /\ mon'.last = mon.last
      /\ mon'.diff = mon.diff
  BY <1>1 DEF SweepInv, SweepTypeOK, MeasuresOK
<1>5. mon.base.used \in Int /\ SW!Script' = SW!Script /\ plan \in Plans
  BY <1>1, PlanStays DEF SweepInv, SweepTypeOK, MeasuresOK, BaseType
<1>6. SumsFollow'
  <2> SUFFICES ASSUME plan.script = "vram", Clean, ~past.died, step \in Sampled
               PROVE  sum = SW!UsedVram
    BY <1>1, <1>4 DEF SweepInv, SumsFollow, Clean
  <2>1. mon.base.used = 60 /\ mon.base.kv = 20
    BY DEF SweepInv, SumsFollow
  <2>2. PICK s \in servers :
              /\ SW!UsedVram = (IF s.st = "busy" THEN 80 ELSE 60)
              /\ SW!KvStats = [alloc |-> 20, num |-> IF s.st = "busy" THEN 1 ELSE 0]
    BY OneServer DEF Sampled
  <2> QED BY <2>1, <2>2, PartsAddUp
<1> HIDE DEF sum
<1>7. MeasuresOK'
  <2>1. mon \in [running: BOOLEAN, alive: BOOLEAN, base: BaseType, pending: Int, sum: Int, n: Int,
                 max: Int, rise: Int, last: Int, diff: BOOLEAN]
    BY DEF SweepInv, SweepTypeOK, MeasuresOK
  <2>2. mon' \in [running: BOOLEAN, alive: BOOLEAN, base: BaseType, pending: Int, sum: Int, n: Int,
                  max: Int, rise: Int, last: Int, diff: BOOLEAN]
    <3>1. PICK u, v : u = SW!UsedVram /\ v = sum
      OBVIOUS
    <3>2. mon' = [mon EXCEPT !.pending = u, !.sum = v]
      BY <1>1, <3>1
    <3>3. u \in Int /\ v \in Int
      BY <1>2, <1>3, <3>1
    <3> QED BY ONLY <2>1, <3>2, <3>3
  <2> QED BY <1>1, <2>2 DEF SweepInv, SweepTypeOK, MeasuresOK
<1>8. MonRight'
  <2>1. step \in Sampled /\ ~past.died /\ SW!Script.monitors => mon.base.used <= SW!UsedVram
    BY <1>2, <1>5 DEF SweepInv, MonRight
  <2> QED BY <1>1, <1>2, <1>4, <1>5, <2>1 DEF SweepInv, MonRight
<1> QED BY <1>1, <1>6, <1>7, <1>8, MonitorOnly

\* The largest increase is over the baseline, the largest sample no more than both.
LEMMA AddSampleRight == SweepInv /\ SW!AddSample => SweepInv'
<1> SUFFICES ASSUME SweepInv, SW!AddSample PROVE SweepInv'
  OBVIOUS
<1> DEFINE max == IF mon.pending > mon.max THEN mon.pending ELSE mon.max
           rise == IF mon.pending - mon.base.used > mon.rise THEN mon.pending - mon.base.used
                   ELSE mon.rise
<1>1. /\ step' = step /\ mon.alive /\ mon.pending >= 0
      /\ UNCHANGED <<plan, at, servers, orphan, disk, run, rec, file, opened, past>>
      /\ mon' = [mon EXCEPT !.pending = -1, !.n = mon.n + 1, !.last = mon.pending, !.max = max,
                            !.rise = rise, !.diff = mon.diff \/ mon.sum # mon.pending]
  BY DEF SW!AddSample, SW!Results, SW!GPU
<1>2. /\ mon \in [running: BOOLEAN, alive: BOOLEAN, base: BaseType, pending: Int, sum: Int, n: Int,
                  max: Int, rise: Int, last: Int, diff: BOOLEAN]
      /\ mon.pending \in Int /\ mon.max \in Int /\ mon.rise \in Int /\ mon.base.used \in Int
      /\ mon.n \in Int /\ mon.last \in Int
  BY DEF SweepInv, SweepTypeOK, MeasuresOK, BaseType
<1>3. max \in Int /\ rise \in Int /\ mon.n + 1 \in Int /\ -1 \in Int
  BY <1>2
<1>4. /\ mon'.pending = -1 /\ mon'.base = mon.base /\ mon'.n = mon.n + 1
      /\ mon'.running = mon.running /\ mon'.alive = mon.alive
      /\ mon'.max = max /\ mon'.rise = rise /\ mon'.last = mon.pending
      /\ mon'.diff = (mon.diff \/ mon.sum # mon.pending)
  BY <1>1, <1>2
<1>5. SW!Script' = SW!Script /\ Rest' = Rest
  BY <1>1, PlanStays DEF Rest
<1>6. MonRight'
  <2>1. /\ step \in {"samples", "stats"} /\ ~past.late => ~SW!Script.monitors
        /\ step \in Sampled /\ ~past.died /\ SW!Script.monitors =>
              /\ mon.pending >= mon.base.used /\ mon.base.used >= 0 /\ mon.rise >= 0
              /\ mon.max <= mon.base.used + mon.rise /\ Rest >= mon.base.used
    BY <1>1, <1>2 DEF SweepInv, MonRight
  <2>2. step \in Sampled /\ ~past.died /\ SW!Script.monitors =>
           rise >= 0 /\ max <= mon.base.used + rise
    BY <1>2, <2>1
  <2>3. mon.running /\ SW!Script.monitors => step \in {"request", "reply", "settle"}
    BY DEF SweepInv, MonRight
  <2> HIDE DEF max, rise
  <2> QED BY <1>1, <1>2, <1>4, <1>5, <2>1, <2>2, <2>3 DEF MonRight
<1> HIDE DEF max, rise
<1>7. MeasuresOK'
  <2>1. mon' \in [running: BOOLEAN, alive: BOOLEAN, base: BaseType, pending: Int, sum: Int, n: Int,
                  max: Int, rise: Int, last: Int, diff: BOOLEAN]
    BY ONLY <1>1, <1>2, <1>3
  <2> QED BY <1>1, <2>1 DEF SweepInv, SweepTypeOK, MeasuresOK
<1>8. SumsFollow'
  BY <1>1, <1>2, <1>4 DEF SweepInv, SumsFollow, Clean
<1> QED BY <1>1, <1>6, <1>7, <1>8, MonitorOnly

\* The server that answered gets the request.
LEMMA RequestRight == SweepInv /\ SW!Request => SweepInv'
<1> SUFFICES ASSUME SweepInv, SW!Request PROVE SweepInv'
  OBVIOUS
<1> DEFINE asked(s) == IF s \in SW!Answers /\ s.of = run.server /\ s.gen = run.gen
                       THEN [s EXCEPT !.st = "busy"] ELSE s
           f == [s \in servers |-> asked(s)]
<1>1. /\ step = "request" /\ step' = "reply"
      /\ UNCHANGED <<plan, at, orphan, disk, mon, run, rec, file, opened, past>>
      /\ servers' = {f[s] : s \in servers}
  BY DEF SW!Request, SW!Results, SW!Goto
<1>2. /\ servers \in SUBSET ServerType /\ IsFiniteSet(servers) /\ orphan \in BOOLEAN
      /\ \A s, t \in servers : s.of = t.of /\ s.gen = t.gen => s = t
  BY DEF SweepInv, SweepTypeOK, ServersOK, ServersBegun
<1>3. \A s \in servers :
        /\ f[s] \in ServerType /\ f[s].of = s.of /\ f[s].gen = s.gen
        /\ f[s] = s \/ (f[s].st = "busy" /\ s.st \in {"ready", "stopping"}
                       /\ s.of = run.server /\ s.gen = run.gen)
  BY <1>2 DEF ServerType, SW!Answers, SW!Bound
<1> HIDE DEF f
<1>4. /\ \A t \in servers' : \E s \in servers :
            /\ t \in ServerType /\ t.of = s.of /\ t.gen = s.gen
            /\ t = s \/ (t.st = "busy" /\ s.st \in {"ready", "stopping"}
                       /\ s.of = run.server /\ s.gen = run.gen)
      /\ \A s \in servers : f[s] \in servers'
      /\ \A s, t \in servers' : s.of = t.of /\ s.gen = t.gen => s = t
  BY <1>1, <1>2, <1>3
<1>5. IsFiniteSet(servers')
  BY <1>1, <1>2, ImageSize
<1>6. /\ SW!Script' = SW!Script /\ SW!Configs' = SW!Configs /\ plan \in Plans /\ opened = 0
  BY <1>1, PlanStays DEF SweepInv, SweepTypeOK, PlaceOK
<1>7. SweepTypeOK'
  <2>1. PlaceOK'
    BY <1>1, <1>6 DEF SweepInv, SweepTypeOK, PlaceOK, Steps, Served
  <2>2. servers' \subseteq ServerType
    BY <1>4
  <2> QED BY <1>1, <1>2, <1>5, <1>6, <2>1, <2>2
          DEF SweepInv, SweepTypeOK, ServersOK, MeasuresOK, ResultsOK
<1>8. ServersBegun' /\ ServersOwn'
  BY <1>1, <1>4, <1>6 DEF SweepInv, ServersBegun, ServersOwn, Clean, Own
<1>9. RunRight' /\ DiskRight'
  BY <1>1, <1>6 DEF SweepInv, RunRight, DiskRight, Clean, Served
<1>10. Rest <= Rest' /\ Rest' \in Nat /\ Rest \in Nat
  <2>1. Floor \in [ServerType -> Nat]
    BY <1>2, UsedIsSum
  <2>2. \A s \in servers : Floor[s] <= Floor[f[s]]
    BY <1>2, <1>3 DEF Floor
  <2>3. f \in [servers -> servers'] /\ \A x, y \in servers : f[x] = f[y] => x = y
    <3>1. f \in [servers -> servers']
      BY <1>4 DEF f
    <3> QED BY <1>2, <1>3, <3>1
  <2>4. servers' \in SUBSET ServerType
    BY <1>4
  <2>5. Sum(Floor, servers) <= Sum(Floor, servers')
    BY ONLY <1>2, <1>5, <2>1, <2>2, <2>3, <2>4, SumInjective
  <2>6. Sum(Floor, servers) \in Nat /\ Sum(Floor, servers') \in Nat
    BY ONLY <1>2, <1>5, <2>1, <2>4, SumByStep
  <2> QED BY <1>1, <1>2, <2>5, <2>6 DEF Rest
<1>11. MonRight'
  BY <1>1, <1>6, <1>10 DEF SweepInv, SweepTypeOK, MeasuresOK, BaseType, MonRight, Sampled, Served
<1>12. SumsFollow'
  <2>1. \A s \in servers : s.st \in {"ready", "busy"} => f[s] \in servers' /\ f[s].st \in {"ready", "busy"}
    BY <1>3, <1>4
  <2> QED BY <1>1, <2>1 DEF SweepInv, SumsFollow, Clean, Sampled, Served
<1>13. FilesKept' /\ SW!ResultsRight'
  <2>1. \A c : SW!Outcome(c)' = SW!Outcome(c)
    BY <1>1 DEF SW!Outcome
  <2> QED BY <1>1, <1>6, <2>1, ResultsStay DEF SweepInv, FilesKept, Remembered
<1> QED BY <1>7, <1>8, <1>9, <1>11, <1>12, <1>13 DEF SweepInv

\* The server writes the chunks of its own configuration, and is done.
LEMMA ReplyRight == SweepInv /\ SW!Reply => SweepInv'
<1> SUFFICES ASSUME SweepInv, SW!Reply PROVE SweepInv'
  OBVIOUS
<1>1. PICK s \in servers :
      /\ step = "reply" /\ step' = "settle" /\ s.st = "busy"
      /\ servers' = (servers \ {s}) \cup {[s EXCEPT !.st = "ready"]}
      /\ disk' = [disk EXCEPT ![SW!WritesTo(plan.configs[s.of])] =
                     disk[SW!WritesTo(plan.configs[s.of])] \cup {s.of}]
      /\ run' = [run EXCEPT !.ok = TRUE, !.wrote = TRUE]
      /\ UNCHANGED <<plan, at, orphan, mon, rec, file, opened, past>>
  BY DEF SW!Reply, SW!Results, SW!Goto
<1>2. /\ servers \in SUBSET ServerType /\ IsFiniteSet(servers) /\ orphan \in BOOLEAN
      /\ \A x, y \in servers : x.of = y.of /\ x.gen = y.gen => x = y
      /\ s \in ServerType /\ s.of \in SW!Configs /\ s.of = run.server
  BY <1>1 DEF SweepInv, SweepTypeOK, ServersOK, ServersBegun
<1> DEFINE done == [s EXCEPT !.st = "ready"]
<1>3. done \in ServerType /\ done.of = s.of /\ done.gen = s.gen /\ done.st = "ready"
  BY <1>2 DEF ServerType
<1>4. servers' = (servers \ {s}) \cup {done} /\ done \notin servers
  <2>1. done # s
    BY <1>1, <1>3
  <2> QED BY <1>1, <1>2, <1>3, <2>1
<1> HIDE DEF done
<1>5. /\ SW!Script' = SW!Script /\ SW!Configs' = SW!Configs /\ plan \in Plans /\ opened = 0
      /\ at \in Nat /\ at \in SW!Configs
      /\ plan.configs \in Seq({"native", "cachegen"}) /\ SW!Configs = 1..Len(plan.configs)
  BY <1>1, PlanStays, ScriptFacts DEF SweepInv, SweepTypeOK, PlaceOK
<1>6. PICK d \in {"torch", "cachegen"} :
      /\ d = SW!WritesTo(plan.configs[s.of]) /\ disk' = [disk EXCEPT ![d] = disk[d] \cup {s.of}]
      /\ plan.configs[s.of] = "cachegen" => d = "cachegen"
      /\ d = "cachegen" => plan.configs[s.of] # "native"
  BY <1>1 DEF SW!WritesTo
<1>7. SweepTypeOK'
  <2>1. PlaceOK'
    BY <1>1, <1>5 DEF SweepInv, SweepTypeOK, PlaceOK, Steps, Served
  <2>2. ServersOK'
    <3>1. IsFiniteSet(servers')
      BY <1>2, <1>4, FS_AddElement, FS_Subset
    <3> QED BY <1>1, <1>2, <1>3, <1>4, <3>1 DEF ServersOK
  <2>3. MeasuresOK'
    BY <1>1 DEF SweepInv, SweepTypeOK, MeasuresOK
  <2>4. ResultsOK'
    <3>1. \A x \in {"native", "torch", "cachegen"} :
             /\ disk[x] \in SUBSET Nat /\ IsFiniteSet(disk[x])
             /\ disk'[x] = (IF x = d THEN disk[x] \cup {s.of} ELSE disk[x])
      BY <1>6 DEF SweepInv, SweepTypeOK, ResultsOK
    <3>2. s.of \in Nat
      BY <1>2 DEF ServerType
    <3>3. /\ disk' \in [{"native", "torch", "cachegen"} -> SUBSET Nat]
          /\ \A x \in {"native", "torch", "cachegen"} : IsFiniteSet(disk'[x])
      BY <1>6, <3>1, <3>2, FS_AddElement DEF SweepInv, SweepTypeOK, ResultsOK
    <3> QED BY <1>1, <1>5, <3>3 DEF SweepInv, SweepTypeOK, ResultsOK
  <2> QED BY <2>1, <2>2, <2>3, <2>4 DEF SweepTypeOK
<1>8. ServersBegun' /\ ServersOwn'
  <2>1. \A t \in servers' : \/ t \in servers /\ t # s
                            \/ t = done
    BY <1>4
  <2>2. \A t \in servers : t.st = "busy" => t.of = s.of /\ t.gen = s.gen
    BY <1>1 DEF SweepInv, ServersBegun
  <2>3. \A t \in servers : t # s => t.of # s.of \/ t.gen # s.gen
    BY <1>2
  <2>4. \A t \in servers' : t.st # "busy"
    BY <1>3, <2>1, <2>2, <2>3
  <2> QED BY <1>1, <1>2, <1>3, <1>5, <2>1, <2>3, <2>4
          DEF SweepInv, ServersBegun, ServersOwn, Clean, Own
<1>9. RunRight'
  <2>1. run'.server = run.server /\ run'.gen = run.gen /\ run'.before = run.before /\ run'.wrote
    BY <1>1 DEF SweepInv, SweepTypeOK, MeasuresOK
  <2> QED BY <1>1, <1>5, <2>1 DEF SweepInv, RunRight, Clean, Served
<1>10. DiskRight'
  <2>1. run'.server = run.server /\ run'.before = run.before /\ run'.wrote
    BY <1>1 DEF SweepInv, SweepTypeOK, MeasuresOK
  <2>2. SW!Script.clears /\ plan.configs[at] = "cachegen" /\ run.server = at => disk'["cachegen"] = {at}
    <3> SUFFICES ASSUME SW!Script.clears, plan.configs[at] = "cachegen", run.server = at
                 PROVE  disk'["cachegen"] = {at}
      OBVIOUS
    <3>1. s.of = at /\ d = "cachegen"
      BY <1>2, <1>6
    <3>2. disk["cachegen"] = {}
      BY <1>1 DEF SweepInv, DiskRight, Served
    <3> QED BY <1>6, <3>1, <3>2 DEF SweepInv, SweepTypeOK, ResultsOK
  <2> QED BY <1>1, <1>5, <2>1, <2>2 DEF SweepInv, DiskRight, Served
<1>11. Rest' = Rest
  <2> DEFINE r == servers \ {s}
  <2>1. r \in SUBSET ServerType /\ IsFiniteSet(r) /\ done \notin r /\ s \in servers
    BY <1>2, <1>4, FS_Subset
  <2>2. Floor \in [ServerType -> Nat]
    BY <1>2, UsedIsSum
  <2>3. Sum(Floor, r) = Sum(Floor, servers) - Floor[s]
    BY ONLY <1>2, <2>1, <2>2, SumRemove
  <2>7. Sum(Floor, servers) \in Nat /\ Floor[s] \in Nat
    BY ONLY <1>2, <2>2, SumByStep
  <2>4. Sum(Floor, r \cup {done}) = Sum(Floor, r) + Floor[done]
    BY ONLY <1>3, <2>1, <2>2, SumAdd
  <2>5. Floor[done] = Floor[s]
    BY <1>1, <1>2, <1>3 DEF Floor
  <2>6. servers' = r \cup {done}
    BY <1>4
  <2> HIDE DEF r
  <2>8. Sum(Floor, servers') = Sum(Floor, servers)
    <3>1. PICK a, b, c : a = Sum(Floor, servers) /\ b = Floor[s] /\ c = Sum(Floor, r)
      OBVIOUS
    <3>2. a \in Nat /\ b \in Nat /\ c = a - b /\ Sum(Floor, servers') = c + b
      BY ONLY <2>3, <2>4, <2>5, <2>6, <2>7, <3>1
    <3> QED BY <3>1, <3>2
  <2> QED BY <1>1, <2>8 DEF Rest
<1>12. MonRight'
  BY <1>1, <1>5, <1>11 DEF SweepInv, MonRight, Sampled, Served
<1>13. SumsFollow'
  <2>1. \E t \in servers' : t.st \in {"ready", "busy"}
    BY <1>3, <1>4
  <2> QED BY <1>1, <2>1 DEF SweepInv, SumsFollow, Clean, Sampled, Served
<1>14. FilesKept' /\ SW!ResultsRight'
  <2>1. \A c : SW!Outcome(c)' = SW!Outcome(c)
    BY <1>1 DEF SW!Outcome
  <2> QED BY <1>1, <1>5, <2>1, ResultsStay DEF SweepInv, FilesKept, Remembered
<1> QED BY <1>7, <1>8, <1>9, <1>10, <1>12, <1>13, <1>14 DEF SweepInv

\* Nothing was written: the request failed, or there was nobody to answer it.
LEMMA NoReplyRight == SweepInv /\ SW!NoReply => SweepInv'
<1> SUFFICES ASSUME SweepInv, SW!NoReply PROVE SweepInv'
  OBVIOUS
<1>1. /\ step = "reply" /\ step' = "settle" /\ \A s \in servers : s.st # "busy"
      /\ UNCHANGED <<plan, at, servers, orphan, disk, mon, run, rec, file, opened, past>>
  BY DEF SW!NoReply, SW!Results, SW!Goto, SW!GPU
<1>2. /\ SW!Script' = SW!Script /\ SW!Configs' = SW!Configs /\ opened = 0 /\ Rest' = Rest
  BY <1>1, PlanStays DEF SweepInv, SweepTypeOK, PlaceOK, Rest
<1>3. SweepTypeOK'
  <2>1. PlaceOK'
    BY <1>1, <1>2 DEF SweepInv, SweepTypeOK, PlaceOK, Steps, Served
  <2> QED BY <1>1, <1>2, <2>1 DEF SweepInv, SweepTypeOK, ServersOK, MeasuresOK, ResultsOK
<1>4. ServersBegun' /\ ServersOwn'
  BY <1>1, <1>2 DEF SweepInv, ServersBegun, ServersOwn, Clean, Own
<1>5. RunRight' /\ DiskRight' /\ MonRight' /\ SumsFollow'
  BY <1>1, <1>2 DEF SweepInv, RunRight, DiskRight, MonRight, SumsFollow, Clean, Sampled, Served
<1>6. FilesKept' /\ SW!ResultsRight'
  <2>1. \A c : SW!Outcome(c)' = SW!Outcome(c)
    BY <1>1 DEF SW!Outcome
  <2> QED BY <1>1, <1>2, <2>1, ResultsStay DEF SweepInv, FilesKept, Remembered
<1> QED BY <1>3, <1>4, <1>5, <1>6 DEF SweepInv

\* A measurement that is under way outlives the join.
LEMMA StopMonitorRight == SweepInv /\ SW!StopMonitor => SweepInv'
<1> SUFFICES ASSUME SweepInv, SW!StopMonitor PROVE SweepInv'
  OBVIOUS
<1>1. /\ step = "settle" /\ step' = "samples"
      /\ UNCHANGED <<plan, at, servers, orphan, disk, run, rec, file, opened>>
      /\ mon' = [mon EXCEPT !.running = FALSE, !.alive = mon.pending >= 0]
      /\ past' = [past EXCEPT !.late = past.late \/ mon.pending >= 0]
  BY DEF SW!StopMonitor, SW!Results, SW!Goto, SW!GPU
<1>2. /\ SW!Script' = SW!Script /\ SW!Configs' = SW!Configs /\ opened = 0 /\ Rest' = Rest
      /\ past.starts \in 1..2
  BY <1>1, PlanStays DEF SweepInv, SweepTypeOK, PlaceOK, Rest
<1>3. /\ Remembered /\ past'.kept = past.kept /\ past'.died = past.died
      /\ past'.outlived = past.outlived /\ past'.late = (past.late \/ mon.pending >= 0)
  BY <1>1 DEF SweepInv, SweepTypeOK, ResultsOK, Remembered
<1>4. /\ ~mon'.running /\ mon'.alive = (mon.pending >= 0) /\ mon'.base = mon.base
      /\ mon'.pending = mon.pending /\ mon'.sum = mon.sum /\ mon'.n = mon.n /\ mon'.max = mon.max
      /\ mon'.rise = mon.rise /\ mon'.last = mon.last /\ mon'.diff = mon.diff
  BY <1>1 DEF SweepInv, SweepTypeOK, MeasuresOK
<1>5. SweepTypeOK'
  <2>1. PlaceOK'
    BY <1>1, <1>2 DEF SweepInv, SweepTypeOK, PlaceOK, Steps, Served
  <2>2. MeasuresOK'
    <3>1. CASE mon.pending >= 0
      <4>1. mon' = [mon EXCEPT !.running = FALSE, !.alive = TRUE]
        BY <1>1, <3>1
      <4> QED BY <1>1, <4>1 DEF SweepInv, SweepTypeOK, MeasuresOK
    <3>2. CASE ~(mon.pending >= 0)
      <4>1. (mon.pending >= 0) = FALSE
        BY <3>2 DEF SweepInv, SweepTypeOK, MeasuresOK
      <4>2. mon' = [mon EXCEPT !.running = FALSE, !.alive = FALSE]
        BY <1>1, <4>1
      <4> QED BY <1>1, <4>2 DEF SweepInv, SweepTypeOK, MeasuresOK
    <3> QED BY <3>1, <3>2
  <2>3. ResultsOK'
    BY <1>1, <1>2 DEF SweepInv, SweepTypeOK, ResultsOK
  <2> QED BY <1>1, <2>1, <2>2, <2>3 DEF SweepInv, SweepTypeOK, ServersOK
<1>6. ServersBegun' /\ ServersOwn'
  BY <1>1, <1>2, <1>3 DEF SweepInv, ServersBegun, ServersOwn, Clean, Own, Remembered
<1>7. RunRight' /\ DiskRight'
  BY <1>1, <1>2, <1>3 DEF SweepInv, RunRight, DiskRight, Clean, Served, Remembered
<1>8. MonRight' /\ SumsFollow'
  BY <1>1, <1>2, <1>3, <1>4 DEF SweepInv, MonRight, SumsFollow, Clean, Sampled, Served, Remembered
<1>9. FilesKept' /\ SW!ResultsRight'
  <2>1. \A c : SW!Outcome(c)' = SW!Outcome(c)
    BY <1>1 DEF SW!Outcome
  <2> QED BY <1>1, <1>2, <1>3, <2>1, ResultsStay DEF SweepInv, FilesKept, Remembered
<1> QED BY <1>5, <1>6, <1>7, <1>8, <1>9 DEF SweepInv

\* The samples so far are taken.
LEMMA SamplesRight == SweepInv /\ SW!Samples => SweepInv'
<1> SUFFICES ASSUME SweepInv, SW!Samples PROVE SweepInv'
  OBVIOUS
<1>1. /\ step = "samples" /\ step' = "stats"
      /\ UNCHANGED <<plan, at, servers, orphan, disk, mon, rec, file, opened, past>>
      /\ run' = [run EXCEPT !.n = mon.n]
  BY DEF SW!Samples, SW!Results, SW!Goto, SW!GPU
<1>2. SW!Script' = SW!Script /\ SW!Configs' = SW!Configs /\ opened = 0 /\ Rest' = Rest
  BY <1>1, PlanStays DEF SweepInv, SweepTypeOK, PlaceOK, Rest
<1>3. /\ run'.n = mon.n /\ run'.server = run.server /\ run'.gen = run.gen
      /\ run'.before = run.before /\ run'.wrote = run.wrote
  BY <1>1 DEF SweepInv, SweepTypeOK, MeasuresOK
<1>4. SweepTypeOK'
  <2>1. PlaceOK'
    BY <1>1, <1>2 DEF SweepInv, SweepTypeOK, PlaceOK, Steps, Served
  <2>2. MeasuresOK'
    BY <1>1 DEF SweepInv, SweepTypeOK, MeasuresOK
  <2> QED BY <1>1, <1>2, <2>1, <2>2 DEF SweepInv, SweepTypeOK, ServersOK, ResultsOK
<1>5. ServersBegun' /\ ServersOwn'
  BY <1>1, <1>2 DEF SweepInv, ServersBegun, ServersOwn, Clean, Own
<1>6. RunRight' /\ DiskRight'
  BY <1>1, <1>2, <1>3 DEF SweepInv, RunRight, DiskRight, Clean, Served
<1>7. MonRight' /\ SumsFollow'
  BY <1>1, <1>2, <1>3 DEF SweepInv, MonRight, SumsFollow, Clean, Sampled, Served
<1>8. FilesKept' /\ SW!ResultsRight'
  <2>1. \A c : SW!Outcome(c)' = SW!Outcome(c)
    BY <1>1 DEF SW!Outcome
  <2> QED BY <1>1, <1>2, <2>1, ResultsStay DEF SweepInv, FilesKept, Remembered
<1> QED BY <1>4, <1>5, <1>6, <1>7, <1>8 DEF SweepInv

\* The result of a run is of its configuration.
LEMMA ResultRight ==
    ASSUME SweepInv, step = "stats", at \in SW!Configs
    PROVE  \A r : r = SW!Result => Right(r, at)
<1>1. SUFFICES Right(SW!Result, at)
  OBVIOUS
<1>2. /\ SW!Result.of = at /\ SW!Result.server = run.server /\ SW!Result.gen = run.gen
      /\ SW!Result.wrote = run.wrote /\ SW!Result.off = SW!Offloaded /\ SW!Result.n = run.n
      /\ SW!Result.stat = mon.n /\ SW!Result.peak = SW!Peak /\ SW!Result.max = mon.max
      /\ SW!Result.diff = mon.diff
  BY DEF SW!Result
<1>3. plan \in Plans
  BY DEF SweepInv, SweepTypeOK, PlaceOK
<1>4. Clean => run.server = at /\ run.gen = past.starts
  BY DEF SweepInv, RunRight, Served
<1>5. plan.configs[at] = "cachegen" /\ SW!Script.clears /\ run.server = at =>
         SW!Offloaded = (IF run.wrote THEN 1 ELSE 0)
  <2> SUFFICES ASSUME plan.configs[at] = "cachegen", SW!Script.clears, run.server = at
               PROVE  SW!Offloaded = (IF run.wrote THEN 1 ELSE 0)
    OBVIOUS
  <2>1. SW!LooksAt(plan.configs[at]) = "cachegen"
    BY <1>3, ScriptFacts DEF SW!LooksAt
  <2>2. run.before = 0 /\ disk["cachegen"] = (IF run.wrote THEN {at} ELSE {})
    BY DEF SweepInv, DiskRight, Served
  <2>3. SW!Cardinality({at}) = 1 /\ SW!Cardinality({}) = 0
    BY CountServers, FS_Singleton, FS_EmptySet
  <2> QED BY <2>1, <2>2, <2>3 DEF SW!Offloaded
<1>6. SW!Script.monitors => /\ run.n = mon.n \/ past.late
                            /\ SW!Peak >= mon.max \/ past.died
  <2>1. mon.max \in Int /\ mon.last \in Int /\ mon.rise \in Int /\ mon.base.used \in Int
    BY DEF SweepInv, SweepTypeOK, MeasuresOK, BaseType
  <2>2. SW!Script.monitors /\ ~past.died =>
          /\ mon.rise >= 0 /\ mon.max <= mon.base.used + mon.rise
          /\ mon.last < 0 \/ mon.last >= mon.base.used
    BY DEF SweepInv, MonRight, Sampled, Served
  <2>3. SW!Script.monitors /\ ~past.died => SW!Peak >= mon.max
    BY <2>1, <2>2 DEF SW!Peak
  <2> QED BY <2>3 DEF SweepInv, MonRight
<1>7. plan.script = "vram" /\ Clean /\ ~past.died => ~mon.diff
  BY DEF SweepInv, SumsFollow, Sampled, Served
<1> QED BY <1>2, <1>4, <1>5, <1>6, <1>7 DEF Right, Clean

\* The result is kept, the server is stopped.
LEMMA FinishRight == SweepInv /\ SW!Finish => SweepInv'
<1> SUFFICES ASSUME SweepInv, SW!Finish PROVE SweepInv'
  OBVIOUS
<1>1. /\ plan' = plan /\ step = "stats" /\ step' = "save" /\ at' = at
      /\ UNCHANGED <<disk, mon, run, file, opened>> /\ SW!StopServers(SW!Script.last)
      /\ rec' = [c \in DOMAIN rec \cup {at} |-> IF c = at THEN SW!Result ELSE rec[c]]
  BY DEF SW!Finish, SW!Goto
<1>2. /\ SW!Script' = SW!Script /\ SW!Configs' = SW!Configs /\ SW!Configs \subseteq Nat
      /\ at \in SW!Configs /\ at \in Nat /\ opened = 0 /\ plan \in Plans
  BY <1>1, PlanStays, ScriptFacts DEF SweepInv, SweepTypeOK, PlaceOK
<1>3. /\ SW!Script.last \in {"term", "proc", "all"}
      /\ SW!Script.first = "none" => SW!Script.last = "all"
      /\ plan.script = "vram" => SW!Script.last = "term"
  BY <1>2, ScriptFacts DEF SW!Vram
<1>4. /\ ServersOK' /\ (orphan' => orphan \/ SW!Script.last = "proc") /\ past'.outlived \in BOOLEAN
      /\ past' = [past EXCEPT !.outlived = past'.outlived] /\ (past.outlived => past'.outlived)
      /\ \A s \in servers' : \E t \in servers :
            /\ s.of = t.of /\ s.gen = t.gen
            /\ s = t \/ (s.st = "stopping" /\ past'.outlived)
      /\ \A s, t \in servers' : s.of = t.of /\ s.gen = t.gen => s = t
      /\ SW!Script.last = "all" => servers' = {}
  BY <1>1, <1>3, StopServersIs
<1>5. Remembered /\ past'.kept = past.kept /\ past'.late = past.late /\ past'.died = past.died
  BY <1>4 DEF SweepInv, SweepTypeOK, ResultsOK, Remembered
<1>6. SweepTypeOK'
  <2>1. PlaceOK' /\ MeasuresOK'
    BY <1>1, <1>2 DEF SweepInv, SweepTypeOK, PlaceOK, Steps, MeasuresOK
  <2>2. past' \in [outlived: BOOLEAN, died: BOOLEAN, torn: BOOLEAN, late: BOOLEAN, stale: BOOLEAN,
                   kept: SUBSET SW!Configs, starts: 1..2]
    BY <1>4 DEF SweepInv, SweepTypeOK, ResultsOK
  <2> QED BY <1>1, <1>2, <1>4, <2>1, <2>2 DEF SweepInv, SweepTypeOK, ResultsOK
<1>7. ServersBegun'
  BY <1>1, <1>2, <1>3, <1>4, <1>5
     DEF SweepInv, SweepTypeOK, ServersOK, ServersBegun, Remembered, ServerType
<1>8. ServersOwn'
  BY <1>1, <1>2, <1>3, <1>4, <1>5 DEF SweepInv, ServersOwn, Clean, Remembered, Own
<1>9. RunRight' /\ DiskRight'
  BY <1>1, <1>2 DEF SweepInv, RunRight, DiskRight, Served
<1>10. MonRight' /\ SumsFollow'
  BY <1>1, <1>2, <1>5 DEF SweepInv, MonRight, SumsFollow, Served, Sampled
<1>11. FilesKept'
  <2>1. \A c \in past.kept : plan.script = "progress" /\ ~past.torn =>
           c \in DOMAIN rec' /\ SW!Outcome(c)' = "ok"
    BY <1>1 DEF SweepInv, FilesKept, SW!Outcome
  <2> QED BY <1>1, <1>2, <1>5, <2>1 DEF SweepInv, FilesKept, Remembered
<1>12. SW!ResultsRight'
  <2>1. PICK r : r = SW!Result
    OBVIOUS
  <2>2. Right(r, at)
    BY <1>1, <1>2, <2>1, ResultRight
  <2>3. rec'[at] = r
    BY <1>1, <2>1
  <2>4. Right(rec[at], at)'
    BY <1>1, <1>2, <1>5, <2>2, <2>3 DEF Right, Remembered
  <2> SUFFICES ASSUME NEW c \in DOMAIN rec', ~(rec'[c] = rec[c] /\ c \in DOMAIN rec)
               PROVE  Right(rec[c], c)'
    BY <1>1, <1>5, ResultsStay DEF SweepInv
  <2>5. c = at
    BY <1>1
  <2> QED BY <1>1, <2>4, <2>5
<1> QED BY <1>6, <1>7, <1>8, <1>9, <1>10, <1>11, <1>12 DEF SweepInv

-----------------------------------------------------------------------------
(* The results on disk, and the end. *)

\* The file is emptied: its own, of a configuration that was not kept, or that of all.
LEMMA OpenFileRight == SweepInv /\ SW!OpenFile => SweepInv'
<1> SUFFICES ASSUME SweepInv, SW!OpenFile PROVE SweepInv'
  OBVIOUS
<1>1. /\ step = "save" /\ opened = 0 /\ SW!Script.resume # {} /\ opened' = at
      /\ UNCHANGED <<plan, step, at, servers, orphan, disk, mon, run, rec, past>>
      /\ file' = IF plan.script = "progress" THEN [c \in SW!Configs |-> "none"]
                 ELSE [file EXCEPT ![at] = "none"]
  BY DEF SW!OpenFile, SW!GPU
<1>2. /\ SW!Script' = SW!Script /\ SW!Configs' = SW!Configs /\ SW!Configs \subseteq Nat \ {0}
      /\ at \in SW!Configs
  BY <1>1, PlanStays DEF SweepInv, SweepTypeOK, PlaceOK
<1>3. SweepTypeOK'
  <2>1. PlaceOK'
    BY <1>1, <1>2 DEF SweepInv, SweepTypeOK, PlaceOK
  <2>2. file' \in [SW!Configs -> {"none", "ok", "fail"}]
    BY <1>1 DEF SweepInv, SweepTypeOK, ResultsOK
  <2> QED BY <1>1, <1>2, <2>1, <2>2 DEF SweepInv, SweepTypeOK, ServersOK, MeasuresOK, ResultsOK
<1>4. ServersBegun' /\ ServersOwn' /\ RunRight'
  BY <1>1, <1>2 DEF SweepInv, ServersBegun, ServersOwn, RunRight, Clean, Own
<1>5. DiskRight' /\ MonRight' /\ SumsFollow'
  BY <1>1, <1>2 DEF SweepInv, DiskRight, MonRight, SumsFollow, Sampled, Served
<1>6. FilesKept' /\ SW!ResultsRight'
  <2>1. \A c : SW!Outcome(c)' = SW!Outcome(c)
    BY <1>1 DEF SW!Outcome
  <2>2. plan.script # "progress" => \A c \in past.kept : file'[c] = "ok"
    BY <1>1 DEF SweepInv, SweepTypeOK, ResultsOK, FilesKept
  <2> QED BY <1>1, <1>2, <2>1, <2>2, ResultsStay DEF SweepInv, FilesKept, Remembered
<1> QED BY <1>3, <1>4, <1>5, <1>6 DEF SweepInv

\* The file has the result of the configuration, that of run_sweep all there are.
LEMMA WriteFileRight == SweepInv /\ SW!WriteFile => SweepInv'
<1> SUFFICES ASSUME SweepInv, SW!WriteFile PROVE SweepInv'
  OBVIOUS
<1>1. /\ step = "save" /\ opened # 0 /\ opened' = 0 /\ step' = "pick" /\ at' = at + 1
      /\ UNCHANGED <<plan, servers, orphan, disk, mon, run, rec>>
      /\ file' = SW!Written
      /\ past' = [past EXCEPT !.kept = past.kept \cup {c \in {at} : SW!Outcome(c) = "ok"}]
  BY DEF SW!WriteFile, SW!GPU
<1>2. /\ SW!Script' = SW!Script /\ SW!Configs' = SW!Configs /\ SW!Configs \subseteq Nat \ {0}
      /\ at \in SW!Configs /\ plan \in Plans /\ SW!Script.resume # {} /\ at \in Nat \ {0}
      /\ past.starts \in 1..2
  BY <1>1, PlanStays DEF SweepInv, SweepTypeOK, PlaceOK
<1>3. SW!Script.reports /\ plan.script \in {"full", "progress"} /\ at \in DOMAIN rec
  BY <1>1, <1>2, ScriptFacts DEF SweepInv, RunRight
<1>4. /\ Remembered /\ past'.late = past.late /\ past'.died = past.died
      /\ past'.outlived = past.outlived
      /\ past'.kept = past.kept \cup {c \in {at} : SW!Outcome(c) = "ok"}
      /\ past'.kept \subseteq SW!Configs
  BY <1>1, <1>2 DEF SweepInv, SweepTypeOK, ResultsOK, Remembered
<1>5. \A c : SW!Outcome(c) \in {"ok", "fail"} /\ SW!Outcome(c)' = SW!Outcome(c)
  BY <1>1 DEF SW!Outcome
<1>6. SweepTypeOK'
  <2>1. PlaceOK'
    BY <1>1, <1>2 DEF SweepInv, SweepTypeOK, PlaceOK, Steps
  <2>2. file' \in [SW!Configs -> {"none", "ok", "fail"}]
    BY <1>1, <1>5 DEF SweepInv, SweepTypeOK, ResultsOK, SW!Written
  <2>3. past' \in [outlived: BOOLEAN, died: BOOLEAN, torn: BOOLEAN, late: BOOLEAN, stale: BOOLEAN,
                   kept: SUBSET SW!Configs, starts: 1..2]
    BY <1>1, <1>4 DEF SweepInv, SweepTypeOK, ResultsOK
  <2> QED BY <1>1, <1>2, <2>1, <2>2, <2>3 DEF SweepInv, SweepTypeOK, ServersOK, MeasuresOK, ResultsOK
<1>7. ServersBegun'
  BY <1>1, <1>2, <1>4 DEF SweepInv, ServersBegun, SweepTypeOK, ServersOK, ServerType, Remembered
<1>8. ServersOwn' /\ RunRight'
  <2>1. SW!Script.reports => \A c \in 1..at' - 1 : c \in DOMAIN rec
    BY <1>1, <1>2, <1>3 DEF SweepInv, RunRight
  <2> QED BY <1>1, <1>2, <1>4, <2>1 DEF SweepInv, ServersOwn, RunRight, Clean, Remembered, Served
<1>9. DiskRight' /\ MonRight' /\ SumsFollow'
  BY <1>1, <1>2, <1>3, ScriptFacts DEF SweepInv, DiskRight, MonRight, SumsFollow, Sampled, Served
<1>10. FilesKept'
  <2>1. plan.script = "full" => \A c \in past'.kept : file'[c] = "ok"
    <3>1. plan.script = "full" => \A c \in past.kept : file[c] = "ok"
      BY DEF SweepInv, FilesKept
    <3>2. plan.script = "full" => file' = [file EXCEPT ![at] = SW!Outcome(at)]
      BY <1>1 DEF SW!Written
    <3>3. file \in [SW!Configs -> {"none", "ok", "fail"}]
      BY DEF SweepInv, SweepTypeOK, ResultsOK
    <3> SUFFICES ASSUME plan.script = "full", NEW c \in past'.kept PROVE file'[c] = "ok"
      OBVIOUS
    <3>4. CASE c \in past.kept
      <4>1. c \in SW!Configs /\ file[c] = "ok" /\ c # at
        BY <1>1, <1>4, <3>1, <3>4 DEF SweepInv, FilesKept
      <4> QED BY <3>2, <3>3, <4>1
    <3>5. CASE c = at /\ SW!Outcome(at) = "ok"
      BY <1>2, <3>2, <3>3, <3>5
    <3> QED BY <1>4, <3>4, <3>5
  <2>2. plan.script = "progress" /\ ~past.torn =>
           \A c \in past'.kept : c \in DOMAIN rec /\ SW!Outcome(c) = "ok"
    BY <1>3, <1>4 DEF SweepInv, FilesKept
  <2>3. plan.script = "progress" /\ ~past.torn => \A c \in past'.kept : file'[c] = "ok"
    BY <1>1, <1>4, <2>2 DEF SW!Written
  <2> QED BY <1>1, <1>2, <1>3, <1>4, <1>5, <2>1, <2>2, <2>3 DEF FilesKept, Remembered
<1>11. SW!ResultsRight'
  BY <1>1, <1>4, ResultsStay DEF SweepInv
<1> QED BY <1>6, <1>7, <1>8, <1>9, <1>10, <1>11 DEF SweepInv

\* The next configuration, with the results in memory.
LEMMA KeepInMemoryRight == SweepInv /\ SW!KeepInMemory => SweepInv'
<1> SUFFICES ASSUME SweepInv, SW!KeepInMemory PROVE SweepInv'
  OBVIOUS
<1>1. /\ step = "save" /\ SW!Script.resume = {} /\ step' = "pick" /\ at' = at + 1
      /\ UNCHANGED <<plan, servers, orphan, disk, mon, run, rec, file, opened, past>>
  BY DEF SW!KeepInMemory, SW!GPU, SW!Results
<1>2. /\ SW!Script' = SW!Script /\ SW!Configs' = SW!Configs /\ SW!Configs \subseteq Nat \ {0}
      /\ at \in SW!Configs /\ plan \in Plans /\ opened = 0 /\ at \in Nat \ {0}
      /\ plan.script # "progress" /\ past.starts \in 1..2
  BY <1>1, PlanStays, ScriptFacts DEF SweepInv, SweepTypeOK, PlaceOK
<1>3. SweepTypeOK'
  <2>1. PlaceOK'
    BY <1>1, <1>2 DEF SweepInv, SweepTypeOK, PlaceOK, Steps
  <2> QED BY <1>1, <1>2, <2>1 DEF SweepInv, SweepTypeOK, ServersOK, MeasuresOK, ResultsOK
<1>4. ServersBegun'
  BY <1>1, <1>2 DEF SweepInv, ServersBegun, SweepTypeOK, ServersOK, ServerType
<1>5. ServersOwn' /\ RunRight'
  <2>1. SW!Script.reports => \A c \in 1..at' - 1 : c \in DOMAIN rec
    BY <1>1, <1>2 DEF SweepInv, RunRight
  <2> QED BY <1>1, <1>2, <2>1 DEF SweepInv, ServersOwn, RunRight, Clean, Served
<1>6. DiskRight' /\ MonRight' /\ SumsFollow'
  BY <1>1, <1>2 DEF SweepInv, DiskRight, MonRight, SumsFollow, Sampled, Served
<1>7. FilesKept' /\ SW!ResultsRight'
  BY <1>1, <1>2, ResultsStay DEF SweepInv, FilesKept, Remembered
<1> QED BY <1>3, <1>4, <1>5, <1>6, <1>7 DEF SweepInv

\* The last configuration is done.
LEMMA EndRight == SweepInv /\ SW!End => SweepInv'
<1> SUFFICES ASSUME SweepInv, SW!End PROVE SweepInv'
  OBVIOUS
<1>1. /\ step = "pick" /\ step' = "end" /\ at > Len(plan.configs)
      /\ UNCHANGED <<plan, at, servers, orphan, disk, mon, run, rec, file, opened, past>>
  BY DEF SW!End, SW!GPU, SW!Results, SW!Goto
<1>2. /\ SW!Script' = SW!Script /\ SW!Configs' = SW!Configs /\ opened = 0
  BY <1>1, PlanStays DEF SweepInv, SweepTypeOK, PlaceOK
<1>3. SweepTypeOK'
  <2>1. PlaceOK'
    BY <1>1, <1>2 DEF SweepInv, SweepTypeOK, PlaceOK, Steps
  <2> QED BY <1>1, <1>2, <2>1 DEF SweepInv, SweepTypeOK, ServersOK, MeasuresOK, ResultsOK
<1>4. ServersBegun' /\ ServersOwn' /\ RunRight'
  BY <1>1, <1>2 DEF SweepInv, ServersBegun, ServersOwn, RunRight, Clean, Served
<1>5. DiskRight' /\ MonRight' /\ SumsFollow'
  BY <1>1, <1>2 DEF SweepInv, DiskRight, MonRight, SumsFollow, Sampled, Served
<1>6. FilesKept' /\ SW!ResultsRight'
  <2>1. \A c : SW!Outcome(c)' = SW!Outcome(c)
    BY <1>1 DEF SW!Outcome
  <2> QED BY <1>1, <1>2, <2>1, ResultsStay DEF SweepInv, FilesKept, Remembered
<1> QED BY <1>3, <1>4, <1>5, <1>6 DEF SweepInv

-----------------------------------------------------------------------------
(* What servers do on their own, and the restart of the script. *)

\* A step of a server alone: past only learns that one died.
LEMMA ServerStep ==
    ASSUME SweepInv, ServersOK', ServersBegun', ServersOwn', MonRight', SumsFollow',
           UNCHANGED <<plan, step, at, orphan, disk, mon, run, rec, file, opened>>,
           past'.died \in BOOLEAN, past' = [past EXCEPT !.died = past'.died],
           past.died => past'.died
    PROVE  SweepInv'
<1>1. /\ SW!Script' = SW!Script /\ SW!Configs' = SW!Configs
      /\ Remembered /\ past'.late = past.late /\ past'.kept = past.kept
      /\ past'.outlived = past.outlived
  BY PlanStays DEF SweepInv, SweepTypeOK, ResultsOK, Remembered
<1>2. SweepTypeOK'
  <2>1. past' \in [outlived: BOOLEAN, died: BOOLEAN, torn: BOOLEAN, late: BOOLEAN, stale: BOOLEAN,
                   kept: SUBSET SW!Configs, starts: 1..2]
    BY DEF SweepInv, SweepTypeOK, ResultsOK
  <2> QED BY <1>1, <2>1 DEF SweepInv, SweepTypeOK, PlaceOK, MeasuresOK, ResultsOK
<1>3. RunRight' /\ DiskRight'
  BY <1>1 DEF SweepInv, RunRight, DiskRight, Clean, Remembered
<1>4. FilesKept' /\ SW!ResultsRight'
  <2>1. \A c : SW!Outcome(c)' = SW!Outcome(c)
    BY DEF SW!Outcome
  <2> QED BY <1>1, <2>1, ResultsStay DEF SweepInv, FilesKept, Remembered
<1> QED BY <1>2, <1>3, <1>4 DEF SweepInv

\* What the servers hold at rest, with another of the same configuration in its place.
LEMMA RestWith ==
    ASSUME SweepInv, NEW s \in servers, NEW t \in ServerType, t \notin servers \ {s},
           servers' = (servers \ {s}) \cup {t}, UNCHANGED orphan
    PROVE  /\ ServersOK' /\ Rest' \in Nat /\ Rest \in Nat
           /\ Floor[s] <= Floor[t] => Rest <= Rest'
<1>1. /\ servers \in SUBSET ServerType /\ IsFiniteSet(servers) /\ orphan \in BOOLEAN
      /\ s \in servers /\ s \in ServerType /\ t \in ServerType
  BY DEF SweepInv, SweepTypeOK, ServersOK
<1> DEFINE r == servers \ {s}
<1>2. r \in SUBSET ServerType /\ IsFiniteSet(r) /\ t \notin r /\ servers' = r \cup {t}
  BY <1>1, FS_Subset
<1>3. Floor \in [ServerType -> Nat]
  BY <1>1, UsedIsSum
<1>4. Sum(Floor, r) = Sum(Floor, servers) - Floor[s]
  BY ONLY <1>1, <1>3, SumRemove
<1> HIDE DEF r
<1>5. Sum(Floor, r \cup {t}) = Sum(Floor, r) + Floor[t]
  BY ONLY <1>1, <1>2, <1>3, SumAdd
<1>6. Sum(Floor, servers) \in Nat /\ Floor[s] \in Nat /\ Floor[t] \in Nat
  BY ONLY <1>1, <1>3, SumByStep
<1>7. Sum(Floor, r) \in Nat
  BY ONLY <1>2, <1>3, SumByStep
<1>8. PICK a, b, c, d : a = Sum(Floor, servers) /\ b = Floor[s] /\ c = Floor[t] /\ d = Sum(Floor, servers')
  OBVIOUS
<1>9. a \in Nat /\ b \in Nat /\ c \in Nat /\ d = (a - b) + c /\ a - b \in Nat
  BY ONLY <1>2, <1>4, <1>5, <1>6, <1>7, <1>8
<1>10. Rest = a + (IF orphan THEN 20 ELSE 0) /\ Rest' = d + (IF orphan THEN 20 ELSE 0)
  BY <1>8 DEF Rest
<1>11. IsFiniteSet(servers')
  BY <1>2, FS_AddElement
<1>12. ServersOK'
  BY <1>1, <1>2, <1>11 DEF ServersOK
<1> QED BY ONLY <1>1, <1>8, <1>9, <1>10, <1>12

\* It serves if the port and the GPU are free, otherwise it dies.
LEMMA ServerReadyRight ==
    ASSUME SweepInv, NEW s, SW!ServerReady(s)
    PROVE  SweepInv'
<1> DEFINE new == [s EXCEPT !.st = "ready"]
<1>1. /\ s \in servers /\ s.st = "loading"
      /\ UNCHANGED <<plan, step, at, orphan, disk, mon, run, rec, file, opened>>
      /\ servers' = (servers \ {s}) \cup (IF SW!Bound = {} /\ ~orphan THEN {new} ELSE {})
      /\ past' = [past EXCEPT !.died = past.died \/ SW!Bound # {} \/ orphan]
  BY DEF SW!ServerReady, SW!Results
<1>2. /\ servers \in SUBSET ServerType /\ IsFiniteSet(servers) /\ orphan \in BOOLEAN
      /\ s \in ServerType /\ past.died \in BOOLEAN
      /\ \A x, y \in servers : x.of = y.of /\ x.gen = y.gen => x = y
  BY <1>1 DEF SweepInv, SweepTypeOK, ServersOK, ResultsOK, ServersBegun
<1>3. new \in ServerType /\ new.of = s.of /\ new.gen = s.gen /\ new.st = "ready"
  BY <1>2 DEF ServerType
<1>4. new \notin servers
  <2>1. new # s
    BY <1>1, <1>3
  <2> QED BY <1>1, <1>2, <1>3, <2>1
<1> HIDE DEF new
<1>5. SW!Script' = SW!Script /\ SW!Configs' = SW!Configs
  BY <1>1, PlanStays
<1>6. CASE SW!Bound = {} /\ ~orphan
  <2>1. servers' = (servers \ {s}) \cup {new}
    BY <1>1, <1>6
  <2>2. /\ past' = [past EXCEPT !.died = past.died] /\ past'.died = past.died
        /\ past'.starts = past.starts /\ past'.outlived = past.outlived /\ past'.stale = past.stale
        /\ past'.torn = past.torn /\ past'.late = past.late
    BY <1>1, <1>2, <1>6 DEF SweepInv, SweepTypeOK, ResultsOK
  <2>3. ServersOK' /\ Rest' \in Nat /\ Rest \in Nat /\ Rest <= Rest'
    <3>1. Floor[s] <= Floor[new]
      BY <1>1, <1>2, <1>3 DEF Floor
    <3> QED BY <1>1, <1>3, <1>4, <2>1, <3>1, RestWith
  <2>4. ServersBegun' /\ ServersOwn'
    BY <1>1, <1>2, <1>3, <1>5, <2>1, <2>2 DEF SweepInv, ServersBegun, ServersOwn, Clean, Own
  <2>5. MonRight'
    BY <1>1, <1>5, <2>2, <2>3 DEF SweepInv, SweepTypeOK, MeasuresOK, BaseType, MonRight
  <2>6. SumsFollow'
    BY <1>1, <2>1, <2>2, <1>3 DEF SweepInv, SumsFollow, Clean
  <2> QED BY <1>1, <1>2, <2>2, <2>3, <2>4, <2>5, <2>6, ServerStep
<1>7. CASE ~(SW!Bound = {} /\ ~orphan)
  <2>1. servers' = servers \ {s} /\ IsFiniteSet(servers')
    BY <1>1, <1>2, <1>7, FS_Subset
  <2>2. /\ past' = [past EXCEPT !.died = TRUE] /\ past'.died
        /\ past'.starts = past.starts /\ past'.outlived = past.outlived /\ past'.stale = past.stale
        /\ past'.torn = past.torn /\ past'.late = past.late
    BY <1>1, <1>2, <1>7 DEF SweepInv, SweepTypeOK, ResultsOK
  <2>3. ServersOK'
    BY <1>1, <1>2, <2>1 DEF ServersOK
  <2>4. ServersBegun' /\ ServersOwn'
    BY <1>1, <1>2, <1>5, <2>1, <2>2 DEF SweepInv, ServersBegun, ServersOwn, Clean, Own
  <2>5. MonRight' /\ SumsFollow'
    BY <1>1, <1>5, <2>2 DEF SweepInv, MonRight, SumsFollow
  <2> QED BY <1>1, <2>2, <2>3, <2>4, <2>5, ServerStep
<1> QED BY <1>6, <1>7

\* It is gone.
LEMMA ServerDiesRight ==
    ASSUME SweepInv, NEW s, SW!ServerDies(s)
    PROVE  SweepInv'
<1>1. /\ servers' = servers \ {s} /\ past' = [past EXCEPT !.died = TRUE]
      /\ UNCHANGED <<plan, step, at, orphan, disk, mon, run, rec, file, opened>>
  BY DEF SW!ServerDies, SW!Results
<1>2. /\ servers \in SUBSET ServerType /\ IsFiniteSet(servers') /\ orphan \in BOOLEAN
      /\ \A x, y \in servers : x.of = y.of /\ x.gen = y.gen => x = y
  BY <1>1, FS_Subset DEF SweepInv, SweepTypeOK, ServersOK, ServersBegun
<1>3. SW!Script' = SW!Script /\ SW!Configs' = SW!Configs
  BY <1>1, PlanStays
<1>4. /\ past' = [past EXCEPT !.died = past'.died] /\ past'.died = TRUE
      /\ past'.starts = past.starts /\ past'.outlived = past.outlived /\ past'.stale = past.stale
      /\ past'.torn = past.torn /\ past'.late = past.late
  BY <1>1 DEF SweepInv, SweepTypeOK, ResultsOK
<1>5. ServersOK'
  BY <1>1, <1>2 DEF ServersOK
<1>6. ServersBegun' /\ ServersOwn'
  BY <1>1, <1>2, <1>3, <1>4 DEF SweepInv, ServersBegun, ServersOwn, Clean, Own
<1>7. MonRight' /\ SumsFollow'
  BY <1>1, <1>3, <1>4 DEF SweepInv, MonRight, SumsFollow
<1> QED BY <1>1, <1>4, <1>5, <1>6, <1>7, ServerStep

\* It waits for somebody to read its output; no monitor thread watches then.
LEMMA ServerBlocksRight ==
    ASSUME SweepInv, NEW s, SW!ServerBlocks(s)
    PROVE  SweepInv'
<1> DEFINE new == [s EXCEPT !.st = "stuck"]
<1>1. /\ s \in servers /\ s.st \in {"loading", "ready", "busy"} /\ SW!Script.pipe
      /\ servers' = (servers \ {s}) \cup {new}
      /\ UNCHANGED <<plan, step, at, orphan, disk, mon, run, rec, file, opened, past>>
  BY DEF SW!ServerBlocks, SW!Results
<1>2. /\ servers \in SUBSET ServerType /\ IsFiniteSet(servers) /\ s \in ServerType
      /\ \A x, y \in servers : x.of = y.of /\ x.gen = y.gen => x = y
  BY <1>1 DEF SweepInv, SweepTypeOK, ServersOK, ServersBegun
<1>3. new \in ServerType /\ new.of = s.of /\ new.gen = s.gen /\ new.st = "stuck"
  BY <1>2 DEF ServerType
<1>4. new \notin servers
  <2>1. new # s
    BY <1>1, <1>3
  <2> QED BY <1>1, <1>2, <1>3, <2>1
<1> HIDE DEF new
<1>5. /\ SW!Script' = SW!Script /\ SW!Configs' = SW!Configs /\ plan \in Plans
      /\ ~SW!Script.monitors /\ plan.script # "vram"
  BY <1>1, PlanStays, ScriptFacts DEF SW!Vram
<1>6. ServersOK'
  BY <1>1, <1>3, <1>4, RestWith
<1>7. ServersBegun' /\ ServersOwn'
  BY <1>1, <1>2, <1>3, <1>5 DEF SweepInv, ServersBegun, ServersOwn, Clean, Own
<1>8. MonRight' /\ SumsFollow'
  BY <1>1, <1>5 DEF MonRight, SumsFollow
<1>9. past' = [past EXCEPT !.died = past'.died] /\ past'.died \in BOOLEAN
  BY <1>1 DEF SweepInv, SweepTypeOK, ResultsOK
<1> QED BY <1>1, <1>6, <1>7, <1>8, <1>9, ServerStep

\* The script is killed and started again: its servers are stale, a file that was
\* open is torn, and results come from the files.
LEMMA InterruptRight == SweepInv /\ SW!Interrupt => SweepInv'
<1> SUFFICES ASSUME SweepInv, SW!Interrupt PROVE SweepInv'
  OBVIOUS
<1> DEFINE f == [s \in servers |-> IF s.st = "busy" THEN [s EXCEPT !.st = "ready"] ELSE s]
<1>1. /\ past.starts = 1 /\ step' = "pick" /\ at' = 1 /\ opened' = 0
      /\ UNCHANGED <<plan, orphan, disk, file>> /\ mon' = SW!MonOff /\ run' = SW!NewRun
      /\ rec' = IF plan.script # "progress" THEN [c \in {} |-> SW!NewRun]
                ELSE [c \in {x \in SW!Configs : file[x] # "none"} |-> SW!OldRun(c)]
      /\ past' = [past EXCEPT !.starts = 2, !.torn = opened # 0, !.stale = servers # {}]
      /\ servers' = {f[s] : s \in servers}
  BY DEF SW!Interrupt
<1>2. /\ servers \in SUBSET ServerType /\ IsFiniteSet(servers) /\ orphan \in BOOLEAN
      /\ \A s, t \in servers : s.of = t.of /\ s.gen = t.gen => s = t
  BY DEF SweepInv, SweepTypeOK, ServersOK, ServersBegun
<1>3. \A s \in servers : /\ f[s] \in ServerType /\ f[s].of = s.of /\ f[s].gen = s.gen
                         /\ f[s].st # "busy" /\ (f[s] = s \/ f[s].st = "ready")
  BY <1>2 DEF ServerType
<1> HIDE DEF f
<1>4. /\ \A t \in servers' : \E s \in servers :
            /\ t \in ServerType /\ t.of = s.of /\ t.gen = s.gen
            /\ t.st # "busy" /\ (t = s \/ t.st = "ready")
      /\ \A s, t \in servers' : s.of = t.of /\ s.gen = t.gen => s = t
      /\ servers' # {} <=> servers # {}
  BY <1>1, <1>2, <1>3
<1>5. IsFiniteSet(servers')
  BY <1>1, <1>2, ImageSize
<1>6. /\ SW!Script' = SW!Script /\ SW!Configs' = SW!Configs /\ SW!Configs \subseteq Nat \ {0}
      /\ SW!Configs = 1..Len(plan.configs) /\ plan \in Plans
  BY <1>1, PlanStays DEF SweepInv, SweepTypeOK, PlaceOK
<1>7. /\ past'.starts = 2 /\ past'.torn = (opened # 0) /\ past'.stale = (servers # {})
      /\ past'.kept = past.kept /\ past'.late = past.late /\ past'.died = past.died
      /\ past'.outlived = past.outlived
      /\ past' \in [outlived: BOOLEAN, died: BOOLEAN, torn: BOOLEAN, late: BOOLEAN, stale: BOOLEAN,
                    kept: SUBSET SW!Configs, starts: 1..2]
  <2>1. PICK b \in BOOLEAN, d \in BOOLEAN : b = (opened # 0) /\ d = (servers # {})
    OBVIOUS
  <2>2. past' = [past EXCEPT !.starts = 2, !.torn = b, !.stale = d]
    BY <1>1, <2>1
  <2>3. past \in [outlived: BOOLEAN, died: BOOLEAN, torn: BOOLEAN, late: BOOLEAN, stale: BOOLEAN,
                  kept: SUBSET SW!Configs, starts: 1..2]
    BY DEF SweepInv, SweepTypeOK, ResultsOK
  <2>4. /\ past'.starts = 2 /\ past'.torn = b /\ past'.stale = d
        /\ past'.kept = past.kept /\ past'.late = past.late /\ past'.died = past.died
        /\ past'.outlived = past.outlived
        /\ past' \in [outlived: BOOLEAN, died: BOOLEAN, torn: BOOLEAN, late: BOOLEAN, stale: BOOLEAN,
                      kept: SUBSET SW!Configs, starts: 1..2]
    <3>1. b \in BOOLEAN /\ d \in BOOLEAN /\ 2 \in 1..2
      BY <2>1
    <3>2. /\ past'.starts = 2 /\ past'.torn = b /\ past'.stale = d
          /\ past'.kept = past.kept /\ past'.late = past.late /\ past'.died = past.died
          /\ past'.outlived = past.outlived
      BY ONLY <2>2, <2>3
    <3> QED BY ONLY <2>2, <2>3, <3>1, <3>2
  <2> QED BY <2>1, <2>4
<1>8. SweepTypeOK'
  <2>1. PlaceOK'
    BY <1>1, <1>6 DEF SweepInv, SweepTypeOK, PlaceOK, Steps
  <2>2. ServersOK'
    BY <1>1, <1>2, <1>4, <1>5 DEF ServersOK
  <2>3. MeasuresOK'
    BY <1>1 DEF MeasuresOK, SW!MonOff, SW!NoBase, SW!NewRun, BaseType
  <2>4. ResultsOK'
    <3>1. DOMAIN rec' \subseteq SW!Configs
      BY <1>1
    <3> QED BY <1>1, <1>6, <1>7, <3>1 DEF SweepInv, SweepTypeOK, ResultsOK
  <2> QED BY <2>1, <2>2, <2>3, <2>4 DEF SweepTypeOK
<1>9. ServersBegun'
  <2>1. \A s \in servers : /\ s.of \in SW!Configs /\ s.gen <= 1 /\ s.gen \in Nat
                           /\ s.st = "stopping" => past.outlived
                           /\ s.st = "stuck" => SW!Script.pipe
    BY <1>1, <1>2 DEF SweepInv, ServersBegun, ServerType
  <2>2. \A s \in servers' : /\ s.of \in SW!Configs /\ s.gen <= 1 /\ s.gen \in Nat /\ s.st # "busy"
                            /\ s.st = "stopping" => past.outlived
                            /\ s.st = "stuck" => SW!Script.pipe
    BY <1>4, <2>1
  <2>3. orphan => plan.script # "vram"
    BY DEF SweepInv, ServersBegun
  <2>4. \A s \in servers' : s.gen <= past'.starts /\ s.gen # past'.starts /\ s.gen <= 2
    BY <1>7, <2>2
  <2>5. \A s \in servers' : /\ s.of \in SW!Configs' /\ s.gen <= past'.starts
                            /\ s.gen = past'.starts /\ step' \in {"pick", "launch"} => s.of < at'
                            /\ s.gen = past'.starts => s.of <= at'
                            /\ s.st = "busy" => step' = "reply" /\ s.of = run'.server /\ s.gen = run'.gen
                            /\ s.st = "stopping" => past'.outlived
                            /\ s.st = "stuck" => SW!Script'.pipe
    BY <1>6, <1>7, <2>2, <2>4
  <2>6. (past'.starts = 1 => ~past'.stale /\ ~past'.torn) /\ (orphan' => plan'.script # "vram")
    <3>1. orphan' = orphan /\ plan' = plan
      BY <1>1
    <3>2. past'.starts # 1
      BY <1>7
    <3> QED BY ONLY <2>3, <3>1, <3>2
  <2> QED BY ONLY <1>4, <2>5, <2>6 DEF ServersBegun
<1>10. ServersOwn' /\ RunRight'
  <2>1. ServersOwn'
    BY <1>1, <1>4, <1>7 DEF ServersOwn, Clean
  <2>2. \A c \in 1..at' - 1 : FALSE
    BY <1>1
  <2> QED BY <1>1, <2>1, <2>2 DEF RunRight, Served
<1>11. DiskRight' /\ MonRight' /\ SumsFollow'
  BY <1>1 DEF DiskRight, MonRight, SumsFollow, Sampled, Served, SW!MonOff
<1>12. FilesKept'
  <2>1. ~past.torn
    BY <1>1 DEF SweepInv, ServersBegun
  <2>2. plan.script = "progress" /\ ~past'.torn => \A c \in past.kept : file[c] = "ok" /\ c \in SW!Configs
    BY <1>7, <2>1 DEF SweepInv, FilesKept, SweepTypeOK, ResultsOK
  <2>3. plan.script = "progress" /\ ~past'.torn =>
           \A c \in past.kept : c \in DOMAIN rec' /\ rec'[c].ok
    BY <1>1, <2>2 DEF SW!OldRun, SW!NewRun
  <2> QED BY <1>1, <1>6, <1>7, <2>1, <2>2, <2>3 DEF SweepInv, FilesKept, SW!Outcome
<1>13. SW!ResultsRight'
  <2>1. \A c \in DOMAIN rec' : c \in Nat /\ rec'[c].of = -1
    <3>1. CASE plan.script # "progress"
      BY <1>1, <3>1
    <3>2. CASE plan.script = "progress"
      <4> SUFFICES ASSUME NEW c \in DOMAIN rec' PROVE c \in Nat /\ rec'[c].of = -1
        OBVIOUS
      <4>1. c \in SW!Configs /\ rec'[c] = SW!OldRun(c)
        BY <1>1, <3>2
      <4>2. SW!OldRun(c).of = -1
        BY DEF SW!OldRun, SW!NewRun
      <4> QED BY <1>6, <4>1, <4>2
    <3> QED BY <3>1, <3>2
  <2>2. \A c \in DOMAIN rec' : rec'[c].of # c
    BY <2>1
  <2> QED BY <2>2 DEF SW!ResultsRight, SW!OwnServer, SW!OffloadRight, SW!SamplesRight, SW!SumsRight,
                      SW!Measured
<1> QED BY <1>8, <1>9, <1>10, <1>11, <1>12, <1>13 DEF SweepInv

-----------------------------------------------------------------------------

\* Every step of the scripts, their servers and the monitor keeps the invariant.
LEMMA SweepNext == SweepInv /\ [SW!Next]_sweepVars => SweepInv'
<1> SUFFICES ASSUME SweepInv, [SW!Next]_sweepVars PROVE SweepInv'
  OBVIOUS
<1>1. ASSUME SW!Script_ PROVE SweepInv'
  BY <1>1, SkipRight, PrepareRight, LaunchRight, ReadyRight, NotReadyRight, StartMonitorRight,
     RequestRight, ReplyRight, NoReplyRight, StopMonitorRight, SamplesRight, FinishRight,
     OpenFileRight, WriteFileRight, KeepInMemoryRight, EndRight DEF SW!Script_
<1>2. ASSUME SW!Sample \/ SW!AddSample PROVE SweepInv'
  BY <1>2, SampleRight, AddSampleRight
<1>3. ASSUME SW!Servers_ PROVE SweepInv'
  BY <1>3, ServerReadyRight, ServerDiesRight, ServerBlocksRight DEF SW!Servers_
<1>4. ASSUME SW!Interrupt PROVE SweepInv'
  BY <1>4, InterruptRight
<1>5. CASE UNCHANGED sweepVars
  <2>1. SweepTypeOK'
    BY <1>5 DEF SweepInv, SweepTypeOK, PlaceOK, ServersOK, MeasuresOK, ResultsOK, SW!Configs, SW!Script,
            sweepVars
  <2>2. SW!Script' = SW!Script /\ SW!Configs' = SW!Configs
    BY <1>5 DEF sweepVars, SW!Script, SW!Configs
  <2>3. ServersBegun' /\ ServersOwn' /\ RunRight' /\ DiskRight'
    BY <1>5, <2>2 DEF SweepInv, ServersBegun, ServersOwn, RunRight, DiskRight, Clean, Own, sweepVars
  <2>4. MonRight' /\ SumsFollow'
    BY <1>5, <2>2 DEF SweepInv, MonRight, SumsFollow, Clean, Rest, sweepVars
  <2>5. FilesKept' /\ SW!ResultsRight'
    <3>1. \A c : SW!Outcome(c)' = SW!Outcome(c)
      BY <1>5 DEF SW!Outcome, sweepVars
    <3>2. UNCHANGED <<plan, rec, past>>
      BY <1>5 DEF sweepVars
    <3> QED BY <1>5, <2>2, <3>1, <3>2, ResultsStay DEF SweepInv, FilesKept, Remembered, sweepVars
  <2> QED BY <2>1, <2>3, <2>4, <2>5 DEF SweepInv
<1> QED BY <1>1, <1>2, <1>3, <1>4, <1>5 DEF SW!Next

\* The scripts that run vLLM servers: every result is of the server and the directory of
\* its configuration unless a server outlived its SIGTERM or the script, samples agree with the
\* statistics unless the monitor outlived its join, and a written result survives a restart.
THEOREM SweepSafe == SW!Spec => []SweepKeepsResults
<1>1. SW!Init => SweepInv
  BY SweepInit
<1>2. SweepInv /\ [SW!Next]_SW!vars => SweepInv'
  BY SweepNext DEF SW!vars, sweepVars
<1>3. SweepInv => SweepKeepsResults
  <2> SUFFICES ASSUME SweepInv PROVE SW!ProgressKept
    BY DEF SweepInv, SweepKeepsResults
  <2>1. (\A c \in past.kept : file[c] = "ok") \/ (plan.script = "progress" /\ (past.torn \/ opened # 0))
    BY DEF SweepInv, FilesKept
  <2>2. step = "end" /\ SW!Script.reports => DOMAIN rec = SW!Configs
    <3> SUFFICES ASSUME step = "end", SW!Script.reports PROVE SW!Configs \subseteq DOMAIN rec
      BY DEF SweepInv, SweepTypeOK, ResultsOK
    <3>1. SW!Configs = 1..Len(plan.configs) /\ Len(plan.configs) \in Nat
      BY ScriptFacts DEF SweepInv, SweepTypeOK, PlaceOK
    <3>2. at \in Nat /\ at > Len(plan.configs) /\ \A c \in 1..at - 1 : c \in DOMAIN rec
      BY DEF SweepInv, SweepTypeOK, PlaceOK, RunRight
    <3> QED BY <3>1, <3>2
  <2> QED BY <2>1, <2>2 DEF SW!ProgressKept
<1> QED BY <1>1, <1>2, <1>3, PTL DEF SW!Spec
=============================================================================
