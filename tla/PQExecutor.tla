----------------------------- MODULE PQExecutor -----------------------------
(***************************************************************************)
(* The priority-queue executors that run the disk and remote I/O jobs:     *)
(* AsyncPQExecutor and AsyncPQThreadPoolExecutor (ThreadPool) of           *)
(* pq_executor.py.  One step is what the event loop runs between two       *)
(* awaits.                                                                 *)
(*                                                                         *)
(* A cancelled worker leaves its job with CancelledError, which `except    *)
(* Exception` does not catch: task_done() is called and the done future is *)
(* never resolved.  A worker that waits in queue.get() when the sentinels  *)
(* arrive is woken before the cancellation is delivered to it.             *)
(*                                                                         *)
(* shutdown(wait=True) blocks its thread in future.result().  The close()  *)
(* of the remote connectors calls it from a coroutine that RemoteBackend   *)
(* runs on the executor's own loop; LocalDiskWorker calls it from outside. *)
(***************************************************************************)
EXTENDS Integers, FiniteSets

CONSTANTS
    Jobs, Workers,
    Priority,      \* the priority kwarg of each job
    Modes          \* configurations: executor and use, as described at ModeType

\* pool: AsyncPQThreadPoolExecutor or AsyncPQExecutor; wait: shutdown(wait);
\* onLoop: shutdown() is called by a coroutine of the loop; late: submit_job
\* is called after the shutdown began.
ModeType == [pool: BOOLEAN, wait: BOOLEAN, onLoop: BOOLEAN, late: BOOLEAN]

ASSUME WorkerAssumption == IsFiniteSet(Workers) /\ Workers # {}
ASSUME PriorityAssumption == Priority \in [Jobs -> Nat]
ASSUME ModeAssumption == Modes \subseteq ModeType

VARIABLES
    mode,          \* the configuration, never changed
    queued,        \* jobs in _queue
    sentinels,     \* number of sentinels in _queue
    order,         \* the _counter value each job got, 0 for none
    counter,
    unfinished,    \* unfinished tasks of the queue: join() waits for 0
    worker,        \* what each worker does: "get", "run", "exit"
    running,       \* the job each running worker awaits
    doneFuture,    \* "none", "pending", "resolved"
    toCancel,      \* workers with a cancellation on its way
    shutdown       \* where the shutdown is, from "no" to "returned"

vars == <<mode, queued, sentinels, order, counter, unfinished, worker, running,
          doneFuture, toCancel, shutdown>>

ThreadPool == mode.pool
Wait == mode.wait
CallerOnLoop == mode.onLoop
LateSubmits == mode.late

Init ==
    /\ mode \in Modes
    /\ queued = {}
    /\ sentinels = 0
    /\ order = [j \in Jobs |-> 0]
    /\ counter = 1
    /\ unfinished = 0
    /\ worker = [w \in Workers |-> "get"]
    /\ running = [w \in Workers |-> {}]
    /\ doneFuture = [j \in Jobs |-> "none"]
    /\ toCancel = {}
    /\ shutdown = "no"

\* future.result() on the loop's own thread: no callback runs any more.
LoopBlocked == CallerOnLoop /\ Wait /\ shutdown \notin {"no", "returned"}

-----------------------------------------------------------------------------
\* queue.task_done(); at zero it wakes a join() that is waiting.
TaskDone ==
    /\ unfinished' = unfinished - 1
    /\ shutdown' = IF shutdown = "join" /\ unfinished = 1 THEN "joined" ELSE shutdown

\* submit_job up to `await done`; it does not look at _closed.
SubmitJob(j) ==
    /\ ~LoopBlocked /\ doneFuture[j] = "none"
    /\ shutdown = "no" \/ LateSubmits
    /\ queued' = queued \cup {j}
    /\ order' = [order EXCEPT ![j] = counter]
    /\ counter' = counter + 1
    /\ unfinished' = unfinished + 1
    /\ doneFuture' = [doneFuture EXCEPT ![j] = "pending"]
    /\ UNCHANGED <<mode, sentinels, worker, running, toCancel, shutdown>>

\* The job that queue.get() returns: lowest priority value, then FCFS.
First(j) ==
    /\ j \in queued
    /\ \A i \in queued \ {j} : \/ Priority[j] < Priority[i]
                               \/ Priority[j] = Priority[i] /\ order[j] < order[i]

GetJob(w, j) ==
    /\ ~LoopBlocked /\ worker[w] = "get" /\ First(j)
    /\ queued' = queued \ {j}
    /\ worker' = [worker EXCEPT ![w] = "run"]
    /\ running' = [running EXCEPT ![w] = {j}]
    /\ UNCHANGED <<mode, sentinels, order, counter, unfinished, doneFuture, toCancel, shutdown>>

\* The job returns or raises an Exception: either resolves the done future.
JobDone(w) ==
    /\ ~LoopBlocked /\ worker[w] = "run"
    /\ doneFuture' = [j \in Jobs |-> IF j \in running[w] THEN "resolved" ELSE doneFuture[j]]
    /\ running' = [running EXCEPT ![w] = {}]
    /\ worker' = [worker EXCEPT ![w] = "get"]
    /\ TaskDone
    /\ UNCHANGED <<mode, queued, sentinels, order, counter, toCancel>>

GetSentinelUncounted(w) ==
    /\ ~LoopBlocked /\ worker[w] = "get" /\ queued = {} /\ sentinels > 0
    /\ sentinels' = sentinels - 1
    /\ worker' = [worker EXCEPT ![w] = "exit"]
    /\ UNCHANGED <<mode, queued, order, counter, unfinished, running, doneFuture, toCancel, shutdown>>

\* A sentinel has the largest priority value: it comes after every job.
GetSentinel(w) ==
    /\ ~LoopBlocked /\ worker[w] = "get" /\ queued = {} /\ sentinels > 0
    /\ sentinels' = sentinels - 1
    /\ worker' = [worker EXCEPT ![w] = "exit"]
    /\ TaskDone
    /\ UNCHANGED <<mode, queued, order, counter, running, doneFuture, toCancel>>

\* Mutant: the interrupted job is not counted down.
CancelledUncounted(w) ==
    /\ ~LoopBlocked /\ w \in toCancel /\ worker[w] # "get"
    /\ toCancel' = toCancel \ {w}
    /\ worker' = [worker EXCEPT ![w] = "exit"]
    /\ running' = [running EXCEPT ![w] = {}]
    /\ UNCHANGED <<mode, queued, sentinels, order, counter, unfinished, doneFuture, shutdown>>

\* A cancellation reaches a worker inside a job: `finally` calls task_done()
\* and the coroutine ends.  It has no effect on a worker that has exited.  A
\* worker in queue.get() has an item (there is a sentinel for each worker).
Cancelled(w) ==
    /\ ~LoopBlocked /\ w \in toCancel /\ worker[w] # "get"
    /\ toCancel' = toCancel \ {w}
    /\ worker' = [worker EXCEPT ![w] = "exit"]
    /\ IF worker[w] = "run" THEN TaskDone ELSE UNCHANGED <<unfinished, shutdown>>
    /\ running' = [running EXCEPT ![w] = {}]
    /\ UNCHANGED <<mode, queued, sentinels, order, counter, doneFuture>>

-----------------------------------------------------------------------------
Alive == {w \in Workers : worker[w] # "exit"}

\* shutdown(): run_coroutine_threadsafe, then future.result() if wait.
ShutdownCall ==
    /\ shutdown = "no"
    /\ shutdown' = "scheduled"
    /\ UNCHANGED <<mode, queued, sentinels, order, counter, unfinished, worker, running,
                   doneFuture, toCancel>>

\* _shutdown_async up to its first await: one sentinel per worker; the async
\* executor, and any executor with wait=False, cancels the workers at once.
Shutdown ==
    /\ ~LoopBlocked /\ shutdown = "scheduled"
    /\ sentinels' = Cardinality(Workers)
    /\ unfinished' = unfinished + Cardinality(Workers)
    /\ toCancel' = IF ThreadPool /\ Wait THEN {} ELSE Alive
    /\ shutdown' = IF Wait THEN "join" ELSE "returned"
    /\ UNCHANGED <<mode, queued, order, counter, worker, running, doneFuture>>

\* queue.join() returns; the thread pool executor cancels what is left.
JoinDone ==
    /\ ~LoopBlocked /\ shutdown = "joined"
    /\ toCancel' = IF ThreadPool THEN Alive ELSE toCancel
    /\ shutdown' = "gather"
    /\ UNCHANGED <<mode, queued, sentinels, order, counter, unfinished, worker, running, doneFuture>>

\* gather() returns; a future that has been cancelled is done at once.
GatherDone ==
    /\ ~LoopBlocked /\ shutdown = "gather" /\ Alive \subseteq toCancel
    /\ shutdown' = "returned"
    /\ UNCHANGED <<mode, queued, sentinels, order, counter, unfinished, worker, running,
                   doneFuture, toCancel>>

-----------------------------------------------------------------------------
WorkerStep(w) == (\E j \in Jobs : GetJob(w, j)) \/ JobDone(w) \/ GetSentinel(w) \/ Cancelled(w)

Next ==
    \/ \E j \in Jobs : SubmitJob(j)
    \/ \E w \in Workers, j \in Jobs : GetJob(w, j)
    \/ \E w \in Workers : JobDone(w)
    \/ \E w \in Workers : GetSentinel(w)
    \/ \E w \in Workers : Cancelled(w)
    \/ ShutdownCall
    \/ Shutdown
    \/ JoinDone
    \/ GatherDone

Spec == Init /\ [][Next]_vars

\* The event loop runs every ready callback and the I/O of a job ends.
FairSpec == Spec /\ (\A w \in Workers : WF_vars(WorkerStep(w)))
                 /\ WF_vars(Shutdown) /\ WF_vars(JoinDone) /\ WF_vars(GatherDone)

-----------------------------------------------------------------------------
(* Properties *)

\* Every variable has its type.
TypeOK ==
    /\ mode \in Modes
    /\ queued \subseteq Jobs
    /\ sentinels \in Nat /\ counter \in Nat /\ unfinished \in Nat
    /\ order \in [Jobs -> Nat]
    /\ worker \in [Workers -> {"get", "run", "exit"}]
    /\ running \in [Workers -> SUBSET Jobs]
    /\ doneFuture \in [Jobs -> {"none", "pending", "resolved"}]
    /\ toCancel \subseteq Workers
    /\ shutdown \in {"no", "scheduled", "join", "joined", "gather", "returned"}

RunningWorkers == {w \in Workers : worker[w] = "run"}

\* The queue's count is the work that really is outstanding, so join() does
\* not return early and is not kept waiting by work nobody will do.
CountExact ==
    unfinished = Cardinality(queued) + sentinels + Cardinality(RunningWorkers)

\* "Let workers drain tasks and exit gracefully": when shutdown(wait=True)
\* returns, every job it found has resolved the future its submitter awaits.
Drained ==
    (shutdown = "returned" /\ Wait /\ ~LateSubmits) => \A j \in Jobs : doneFuture[j] # "pending"

\* Work that was submitted is counted and drained: the count join() waits for is
\* the work outstanding, and a shutdown(wait=True) that returns left none.
WorkDrained == TypeOK /\ CountExact /\ Drained

\* Executors settle: a shutdown() under way returns, whatever is queued, running
\* or submitted meanwhile, and the thread pool executor resolves the jobs it was
\* given, also when later jobs of a higher priority overtake them.
Settles ==
    []<>(/\ shutdown \in {"no", "returned"}
         /\ ThreadPool /\ Wait /\ ~LateSubmits => \A j \in Jobs : doneFuture[j] # "pending")

\* "Let workers drain tasks and exit gracefully": a shutdown() returns.
ShutdownReturns == (shutdown = "scheduled") ~> (shutdown = "returned")
=============================================================================
