------------------------------ MODULE MCObjects ------------------------------
(* Who holds a chunk's memory: the objects of an allocator with their        *)
(* references and pins, and the asynchronous lookups that prefetch chunks    *)
(* for a request.  A behaviour is one of one part; the state of the other    *)
(* stays as it is.                                                           *)
EXTENDS MemoryObj

CONSTANTS
    Parts,                                     \* which of them to run
    o1, o2,
    r1, r2, Reqs, Workers, MaxAttempts, Uses   \* of AsyncLookup

VARIABLES
    part,
    use, req, attempt, promise, toLoad, reqsStatus, firstLookupTime, resForEachWorker,
    abortedLookups, toWorker, toScheduler, lookup, buffers, events, shortLoads

lookupVars ==
    <<use, req, attempt, promise, toLoad, reqsStatus, firstLookupTime, resForEachWorker,
      abortedLookups, toWorker, toScheduler, lookup, buffers, events, shortLoads>>

AL == INSTANCE AsyncLookup WITH Modes <- Uses, mode <- use

ASSUME LookupAssumption ==
    /\ IsFiniteSet(Workers) /\ Workers # {} /\ IsFiniteSet(Reqs) /\ MaxAttempts \in Nat
    /\ Uses \subseteq AL!ModeType

MCInit ==
    /\ part \in Parts
    /\ (IF part = "objects" THEN TRUE ELSE mode = CHOOSE m \in Modes : TRUE) /\ Init
    /\ (IF part = "lookup" THEN TRUE ELSE use = CHOOSE u \in Uses : TRUE) /\ AL!Init
Objects(A) == part = "objects" /\ A /\ UNCHANGED <<part, lookupVars>>
Lookups(A) == part = "lookup" /\ A /\ UNCHANGED <<part, vars>>
MCVars == <<part, vars, lookupVars>>
MCSpec == MCInit /\ [][Objects(Next) \/ Lookups(AL!Next)]_MCVars

\* The fairness of MemoryObj and of AsyncLookup.
MCFairSpec ==
    /\ MCSpec
    /\ WF_MCVars(Objects(Tick)) /\ WF_MCVars(Objects(Monitor))
    /\ \A w \in Workers : /\ WF_MCVars(Lookups(AL!WorkerStep(w)))
                          /\ WF_MCVars(Lookups(AL!ProcessResponse(w)))

\* The tensor allocator with pins that time out, the paged one without.
SafeModes == {[paged |-> FALSE, monitor |-> TRUE, heap |-> {o1}],
              [paged |-> TRUE, monitor |-> FALSE, heap |-> {o1, o2}]}

\* A lookup hits nothing, one tier, or two tiers.
TwoTierPlans == {<<>>, <<1>>, <<1, 1>>}
FirstHitPlans == {<<1>>, <<1, 1>>}
Quiet == [reqs |-> {r1}, attempts |-> 2, plans |-> TwoTierPlans, partial |-> FALSE,
          fail |-> FALSE, timeout |-> FALSE, abort |-> FALSE, skip |-> FALSE]

\* Incomplete and failing loads with aborts and preemptions; timeouts with one
\* lookup per request; preemptions where all workers hit; two requests of
\* which one may clean up after the other.
SafeUses == {
    [Quiet EXCEPT !.partial = TRUE, !.fail = TRUE, !.abort = TRUE, !.skip = TRUE],
    [Quiet EXCEPT !.partial = TRUE, !.fail = TRUE, !.timeout = TRUE, !.skip = TRUE, !.attempts = 1],
    [Quiet EXCEPT !.plans = FirstHitPlans],
    [Quiet EXCEPT !.abort = TRUE],
    [Quiet EXCEPT !.reqs = {r1, r2}, !.plans = {<<1>>}, !.abort = TRUE, !.attempts = 1]}

\* A timeout before the preemption.
RetryUses == {[Quiet EXCEPT !.plans = FirstHitPlans, !.timeout = TRUE]}
-----------------------------------------------------------------------------
(* Properties.                                                               *)

\* lmcache_async_lookup_client.py and storage_manager.py: a scheduled request
\* finds on every worker what its lookup promised, the cleanup of an aborted one
\* never meets a loading one, and prefetched buffers keep an owner and are
\* given back.
LookupSafe == AL!LookupSafe

\* The worker of a scheduled request finds the tokens the lookup promised: fewer
\* of them "should not happen" (vllm_v1_adapter.py).
LoadDelivers == AL!LoadDelivers

\* Every lookup is answered where the tiers load what they promised.
LookupAnswered == AL!Answered
=============================================================================
