-------------------------- MODULE CacheController --------------------------
(***************************************************************************)
(* The cache controller and its workers.  Each worker reports what enters  *)
(* and leaves its CPU hot cache (BatchedMessageSender), heartbeats, and on *)
(* the controller's command sends a full copy of its keys                  *)
(* (FullSyncSender); the controller keeps a registry of the workers and of *)
(* the keys each one holds (RegistryTree, KVController, FullSyncTracker,   *)
(* RegistrationController) and runs cluster operations on the workers      *)
(* (LMCacheClusterExecutor).                                               *)
(*                                                                         *)
(* A worker has three sockets: PUSH (operations, batches, deregistration:  *)
(* one FIFO), REQ for sync start and status, and one for heartbeats, so    *)
(* the three are not ordered with each other.  The controller's handlers   *)
(* never yield between reading and writing the registry: one handler is    *)
(* one step.  A request whose answer times out may have been handled.      *)
(***************************************************************************)
EXTENDS Integers, Sequences, FiniteSets, SequencesExt

CONSTANTS
    Workers, Keys,
    BatchSize,     \* full_sync_batch_size
    MaxPolls,      \* full_sync_max_poll_attempts
    Modes          \* configurations and bounds, as described at ModeType

\* thr: full_sync_completion_threshold in percent; workers: the ones in use;
\* retry: full_sync_max_retry_count; ops, syncs: bounds on the KV operations of
\* one worker process and on the full syncs of a worker; faults: bound on lost
\* messages, timeouts, crashes and restarts; may: what may happen besides stores
\* and syncs: "push" (a pushed message is lost), "rpc" (a request or its answer
\* is), "late" (heartbeats come too late), "worker" and "controller" (the process
\* is restarted), "clear" (a cluster operation), "close" (a worker leaves).
Extra == {"push", "rpc", "late", "worker", "controller", "clear", "close"}
ModeType == [thr: 0..100, workers: SUBSET Workers, may: SUBSET Extra,
             ops: [Workers -> Nat], syncs: Nat, retry: Nat, faults: Nat]

ASSUME ModeAssumption == \A m \in Modes : m \in ModeType
ASSUME BoundAssumption == BatchSize \in Nat \ {0} /\ MaxPolls \in Nat
\* 0 stands for a caller of a lookup that is none of the workers.
ASSUME NobodyAssumption == 0 \notin Workers

VARIABLES
    mode,
    up,          \* worker process: "new", "up" (registered), "closed"
    hot,         \* keys of LocalCPUBackend.hot_cache
    storing,     \* keys of store() calls that passed the freeze check
    frozen,      \* StorageManager._freeze
    opq,         \* BatchedMessageSender.message_queue
    seqno,       \* BatchedMessageSender.sequence_number
    push,        \* LMCacheWorker.msg_queue and the PUSH pipe behind it
    snd,         \* FullSyncSender: where start_full_sync is
    nsync,       \* sync ids drawn by a worker (uuids)
    node,        \* RegistryTree: the WorkerNode, or NoNode
    cached,      \* _worker_node_cache: the node of a worker as it knows it
    needAll,     \* FullSyncTracker._need_full_sync_all
    exec,        \* the request the worker's REQ socket waits an answer for
    gap,         \* a sequence discontinuity was counted for this process
    faults,
    \* History: keys whose last operation did not reach the registry, keys of
    \* batches that did not, the keys of the last full copy accepted, and whether
    \* any operation of this process was lost or discarded.
    dirty, unsent, copy, dropped

worker == <<up, hot, storing, frozen>>
sender == <<opq, seqno, push, snd, nsync>>
registry == <<node, cached, needAll, gap>>
history == <<dirty, unsent, copy, dropped>>
vars == <<mode, worker, sender, registry, exec, faults, history>>

NoSync == [sid |-> 0, state |-> "none", count |-> 0, got |-> {}]
NoNode == [kv |-> {}, seq |-> -2, sync |-> NoSync, reg |-> FALSE]
\* -1: no sequence number seen yet (seq_tracker has no entry).
FreshNode == [kv |-> {}, seq |-> -1, sync |-> NoSync, reg |-> TRUE]
Idle == [phase |-> "idle", sid |-> 0, snap |-> <<>>, next |-> 0, tries |-> 0,
         resend |-> <<>>, resends |-> 0, polls |-> 0]

Registered(w) == node[w].reg
Syncing(w) == node[w].sync.state = "syncing"
Op(adm, k, n) == [adm |-> adm, key |-> k, seq |-> n]

Init ==
    /\ mode \in Modes
    /\ up = [w \in Workers |-> "new"]
    /\ hot = [w \in Workers |-> {}]
    /\ storing = [w \in Workers |-> {}]
    /\ frozen = [w \in Workers |-> FALSE]
    /\ opq = [w \in Workers |-> <<>>]
    /\ seqno = [w \in Workers |-> 0]
    /\ push = [w \in Workers |-> <<>>]
    /\ snd = [w \in Workers |-> Idle]
    /\ nsync = [w \in Workers |-> 0]
    /\ node = [w \in Workers |-> NoNode]
    /\ cached = [w \in Workers |-> "none"]
    /\ needAll = TRUE
    /\ exec = [w \in Workers |-> "none"]
    /\ gap = [w \in Workers |-> FALSE]
    /\ faults = 0
    /\ dirty = [w \in Workers |-> {}]
    /\ unsent = [w \in Workers |-> {}]
    /\ copy = [w \in Workers |-> {}]
    /\ dropped = [w \in Workers |-> FALSE]

Fault(kind) ==
    /\ kind \in mode.may
    /\ faults < mode.faults
    /\ faults' = faults + 1

-----------------------------------------------------------------------------
(* The worker's cache and BatchedMessageSender.                             *)

OpsLeft(w) == seqno[w] + Len(opq[w]) < mode.ops[w]

\* add_kv_op: queued without a sequence number.
AddKvOp(w, adm, k) == opq' = [opq EXCEPT ![w] = Append(@, Op(adm, k, -1))]

\* store() looks at the freeze mode once, before it allocates and copies.
StoreBegin(w, k) ==
    /\ up[w] = "up" /\ OpsLeft(w)
    /\ ~frozen[w]
    /\ storing[w] = {} /\ k \notin hot[w]
    /\ storing' = [storing EXCEPT ![w] = @ \cup {k}]
    /\ UNCHANGED <<mode, up, hot, frozen, sender, registry, exec, faults, history>>

\* submit_put_task of the hot cache.
StorePut(w, k) ==
    /\ k \in storing[w]
    /\ storing' = [storing EXCEPT ![w] = @ \ {k}]
    /\ IF k \in hot[w] THEN UNCHANGED <<hot, opq>>
       ELSE /\ hot' = [hot EXCEPT ![w] = @ \cup {k}]
            /\ AddKvOp(w, TRUE, k)
    /\ UNCHANGED <<mode, up, frozen, seqno, push, snd, nsync, registry, exec,
                   faults, history>>

\* An allocation of a store evicts a chunk: LocalCPUBackend.remove.
Evict(w, k) ==
    /\ storing[w] # {} /\ k \in hot[w] /\ OpsLeft(w)
    /\ hot' = [hot EXCEPT ![w] = @ \ {k}]
    /\ AddKvOp(w, FALSE, k)
    /\ UNCHANGED <<mode, up, storing, frozen, seqno, push, snd, nsync, registry,
                   exec, faults, history>>

\* put_msg.
PutMsg(w, m) == push' = [push EXCEPT ![w] = Append(@, m)]

\* _consumer_loop and _drain_and_send: everything queued leaves as one message,
\* numbered in the order it was queued.
DrainAndSend(w) ==
    /\ up[w] = "up" /\ opq[w] # <<>>
    /\ PutMsg(w, [type |-> "ops",
                  ops |-> [i \in DOMAIN opq[w] |->
                              [opq[w][i] EXCEPT !.seq = seqno[w] + i - 1]]])
    /\ seqno' = [seqno EXCEPT ![w] = @ + Len(opq[w])]
    /\ opq' = [opq EXCEPT ![w] = <<>>]
    /\ UNCHANGED <<mode, worker, snd, nsync, registry, exec, faults, history>>

-----------------------------------------------------------------------------
(* Registration and heartbeats.                                             *)

\* Removing a node leaves a node the cached list holds in that list.
Forget(w) ==
    cached' = [cached EXCEPT ![w] =
        IF @ # "live" THEN @
        ELSE IF node[w].sync.state \in {"none", "completed"} THEN "ready" ELSE "busy"]

\* RegistrationController.register: a known worker only has its keys cleared,
\* its sync state stays.
RegisterNode(w) ==
    node' = [node EXCEPT ![w] =
        IF @.reg THEN [@ EXCEPT !.kv = {}, !.seq = -1] ELSE FreshNode]

\* LMCacheWorker.register at start-up: without an answer the worker stays
\* unregistered and runs none of its loops.
Register(w) ==
    /\ w \in mode.workers /\ up[w] = "new"
    /\ RegisterNode(w)
    /\ up' = [up EXCEPT ![w] = "up"]
    /\ dirty' = [dirty EXCEPT ![w] = {}]
    /\ unsent' = [unsent EXCEPT ![w] = {}]
    /\ UNCHANGED <<mode, hot, storing, frozen, sender, cached, needAll, gap, exec,
                   faults, copy, dropped>>

\* should_request_full_sync.
ShouldRequestFullSync(w) ==
    \/ needAll /\ node[w].sync.state \notin {"syncing", "completed"}
    \/ node[w].sync.state = "failed"

\* FullSyncCommand.execute.
ExecuteFullSync(w) ==
    IF snd[w].phase = "idle" /\ nsync[w] < mode.syncs
    THEN snd' = [snd EXCEPT ![w].phase = "delay"]
    ELSE UNCHANGED snd

\* RegistrationController.heartbeat, and the command in its answer.  An
\* unknown worker is registered anew, with an empty key set.
Heartbeat(w) ==
    /\ up[w] = "up"
    /\ IF ~Registered(w)
       THEN /\ RegisterNode(w)
            /\ ExecuteFullSync(w)
            /\ dirty' = [dirty EXCEPT ![w] = Keys]
            /\ dropped' = [dropped EXCEPT ![w] = TRUE]
       ELSE /\ ShouldRequestFullSync(w)
            /\ ExecuteFullSync(w)
            /\ UNCHANGED <<node, dirty, dropped>>
    /\ UNCHANGED <<mode, worker, opq, seqno, push, nsync, cached, needAll, gap, exec,
                   faults, unsent, copy>>

\* The answer to a heartbeat times out: the worker sees no command.
HeartbeatLost(w) ==
    /\ up[w] = "up" /\ ~Registered(w)
    /\ Fault("rpc")
    /\ RegisterNode(w)
    /\ dirty' = [dirty EXCEPT ![w] = Keys]
    /\ dropped' = [dropped EXCEPT ![w] = TRUE]
    /\ UNCHANGED <<mode, worker, sender, cached, needAll, gap, exec, unsent, copy>>

\* deregister_worker; the REQ socket of the node is closed.
DeregisterNode(w) ==
    /\ node' = [node EXCEPT ![w] = NoNode]
    /\ exec' = [exec EXCEPT ![w] = "none"]
    /\ Forget(w)

\* health_check: no heartbeat for lmcache_worker_timeout.
HealthCheck(w) ==
    /\ Registered(w)
    /\ up[w] = "closed" \/ "late" \in mode.may
    /\ IF up[w] = "closed" THEN UNCHANGED faults ELSE Fault("late")
    /\ DeregisterNode(w)
    /\ UNCHANGED <<mode, worker, sender, needAll, gap, history>>

\* LMCacheWorker.close: the deregistration is queued, the loop stopped; what
\* the loop has not pushed by then is gone.
Close(w) ==
    /\ "close" \in mode.may
    /\ up[w] = "up" /\ snd[w].phase = "idle" /\ storing[w] = {}
    /\ up' = [up EXCEPT ![w] = "closed"]
    /\ \E n \in 0..Len(push[w]) + 1 :
          push' = [push EXCEPT ![w] =
                      SubSeq(Append(@, [type |-> "dereg"]), 1, n)]
    /\ opq' = [opq EXCEPT ![w] = <<>>]
    /\ UNCHANGED <<mode, hot, storing, frozen, seqno, snd, nsync, registry, exec,
                   faults, history>>

-----------------------------------------------------------------------------
(* Full sync, worker side (FullSyncSender).                                 *)

Batches(s) == IF Len(s) = 0 THEN 1 ELSE (Len(s) + BatchSize - 1) \div BatchSize
BatchKeys(s, b) ==
    LET last == IF (b + 1) * BatchSize < Len(s) THEN (b + 1) * BatchSize ELSE Len(s)
    IN  ToSet(SubSeq(s, b * BatchSize + 1, last))

\* Mutant: the finally clause resets the sender only.
EndSyncFrozen(w) ==
    /\ snd' = [snd EXCEPT ![w] = Idle]
    /\ UNCHANGED frozen

\* start_full_sync's finally clause.
EndSync(w) ==
    /\ frozen' = [frozen EXCEPT ![w] = FALSE]
    /\ snd' = [snd EXCEPT ![w] = Idle]

\* _initialize_sync after the start-up delay: freeze, then list the keys.
Freeze(w) ==
    /\ snd[w].phase = "delay"
    /\ frozen' = [frozen EXCEPT ![w] = TRUE]
    /\ nsync' = [nsync EXCEPT ![w] = @ + 1]
    /\ snd' = [snd EXCEPT ![w].phase = "start", ![w].sid = nsync[w] + 1,
                          ![w].snap = SetToSeq(hot[w])]
    /\ UNCHANGED <<mode, up, hot, storing, opq, seqno, push, registry, exec, faults,
                   history>>

\* FullSyncTracker.start_sync.
StartSyncAccepted(w) ==
    /\ Registered(w)
    /\ Syncing(w) => node[w].sync.sid = snd[w].sid

\* Mutant: the old key set stays.
HandleFullSyncStartKeep(w) ==
    IF StartSyncAccepted(w)
    THEN /\ node' = [node EXCEPT
                ![w].sync = [sid |-> snd[w].sid, state |-> "syncing",
                             count |-> Batches(snd[w].snap), got |-> {}]]
         /\ dirty' = [dirty EXCEPT ![w] =
                {k \in Keys : (k \in hot[w]) # (k \in ToSet(snd[w].snap))}]
         /\ unsent' = [unsent EXCEPT ![w] = {}]
         /\ copy' = [copy EXCEPT ![w] = ToSet(snd[w].snap)]
    ELSE UNCHANGED <<node, dirty, unsent, copy>>

\* handle_full_sync_start: the key set and the sequence number are dropped
\* only when there are keys.
HandleFullSyncStart(w) ==
    IF StartSyncAccepted(w)
    THEN /\ node' = [node EXCEPT
                ![w].sync = [sid |-> snd[w].sid, state |-> "syncing",
                             count |-> Batches(snd[w].snap), got |-> {}],
                ![w].kv = {},
                ![w].seq = IF node[w].kv # {} THEN -1 ELSE @]
         /\ dirty' = [dirty EXCEPT ![w] =
                {k \in Keys : (k \in hot[w]) # (k \in ToSet(snd[w].snap))}]
         /\ unsent' = [unsent EXCEPT ![w] = {}]
         /\ copy' = [copy EXCEPT ![w] = ToSet(snd[w].snap)]
    ELSE UNCHANGED <<node, dirty, unsent, copy>>

\* One attempt of _initialize_sync: the request is lost, handled without an
\* answer, or answered.
SendSyncStart(w) ==
    LET handled == HandleFullSyncStart(w)
        again == IF snd[w].tries + 1 < mode.retry
                 THEN /\ snd' = [snd EXCEPT ![w].tries = @ + 1]
                      /\ UNCHANGED frozen
                 ELSE EndSync(w)
    IN  /\ snd[w].phase = "start"
        /\ \/ /\ handled
              /\ IF StartSyncAccepted(w)
                 THEN /\ snd' = [snd EXCEPT ![w].phase = "batches"]
                      /\ UNCHANGED frozen
                 ELSE again
              /\ UNCHANGED faults
           \/ handled /\ again /\ Fault("rpc")
           \/ again /\ Fault("rpc") /\ UNCHANGED <<node, dirty, unsent, copy>>
        /\ UNCHANGED <<mode, up, hot, storing, opq, seqno, push, nsync, cached, needAll,
                       gap, exec, dropped>>

BatchMsg(w, b) ==
    [type |-> "batch", sid |-> snd[w].sid, id |-> b, keys |-> BatchKeys(snd[w].snap, b)]
EndMsg(w) == [type |-> "end", sid |-> snd[w].sid]

\* _send_key_batches, one batch a step, then FullSyncEndMsg.
SendKeyBatches(w) ==
    /\ snd[w].phase = "batches"
    /\ IF snd[w].next < Batches(snd[w].snap)
       THEN /\ PutMsg(w, BatchMsg(w, snd[w].next))
            /\ snd' = [snd EXCEPT ![w].next = @ + 1]
       ELSE /\ PutMsg(w, EndMsg(w))
            /\ snd' = [snd EXCEPT ![w].phase = "poll"]
    /\ UNCHANGED <<mode, worker, opq, seqno, nsync, registry, exec, faults, history>>

\* _resend_missing_batches, then the end message again.
ResendMissing(w) ==
    /\ snd[w].phase = "resend"
    /\ IF snd[w].resend # <<>>
       THEN /\ PutMsg(w, BatchMsg(w, Head(snd[w].resend)))
            /\ snd' = [snd EXCEPT ![w].resend = Tail(@)]
       ELSE /\ PutMsg(w, EndMsg(w))
            /\ snd' = [snd EXCEPT ![w].phase = "poll"]
    /\ UNCHANGED <<mode, worker, opq, seqno, nsync, registry, exec, faults, history>>

\* get_global_progress: of the nodes the cached list holds.
Ready(w, c) ==
    \/ c[w] = "ready"
    \/ c[w] = "live" /\ node[w].sync.state \in {"none", "completed"}
CanExitFreeze(c) ==
    LET all == {w \in Workers : c[w] # "none"}
    IN  /\ all # {}
        /\ Cardinality({w \in all : Ready(w, c)}) * 100 >= mode.thr * Cardinality(all)
RefreshedList == [w \in Workers |-> IF Registered(w) THEN "live" ELSE "none"]

\* get_missing_batches: none once the sync is completed.
MissingBatches(w) ==
    IF node[w].sync.sid = snd[w].sid /\ Syncing(w)
    THEN (0..node[w].sync.count - 1) \ node[w].sync.got
    ELSE {}

\* One poll: handle_full_sync_status with the cached list or a new one, and
\* what _poll_for_completion does with the answer; or the end of the last poll,
\* which may have resent batches too.
PollForCompletion(w) ==
    LET more == snd[w].polls < MaxPolls
        goOn == snd' = [snd EXCEPT ![w].polls = @ + 1] /\ UNCHANGED frozen
    IN  /\ snd[w].phase = "poll"
        /\ \/ \E c \in {cached, RefreshedList} :
                /\ more
                /\ cached' = c
                /\ needAll' = (needAll /\ ~CanExitFreeze(c))
                /\ \/ CanExitFreeze(c) /\ EndSync(w)
                   \/ /\ ~CanExitFreeze(c)
                      /\ MissingBatches(w) # {} /\ snd[w].resends < mode.retry
                      /\ snd' = [snd EXCEPT ![w].phase = "resend",
                                            ![w].resend = SetToSeq(MissingBatches(w)),
                                            ![w].resends = @ + 1,
                                            ![w].polls = @ + 1]
                      /\ UNCHANGED frozen
                   \/ /\ ~CanExitFreeze(c)
                      /\ MissingBatches(w) = {} \/ snd[w].resends >= mode.retry
                      /\ goOn
                /\ UNCHANGED faults
           \/ more /\ goOn /\ Fault("rpc") /\ UNCHANGED <<cached, needAll>>
           \/ ~more /\ EndSync(w) /\ UNCHANGED <<faults, cached, needAll>>
        /\ UNCHANGED <<mode, up, hot, storing, opq, seqno, push, nsync, node, gap, exec,
                       history>>

-----------------------------------------------------------------------------
(* The controller's handlers of pushed messages.                            *)

\* The effect on the history of an operation that did not reach the registry:
\* its key is wrong there unless the snapshot of the sync has the same outcome.
DirtyAfter(w, ops, d) ==
    {k \in Keys :
        LET at == {i \in DOMAIN ops : ops[i].key = k}
        IN  IF at = {} THEN k \in d
            ELSE Syncing(w) => \A i \in at : (\A j \in at : j <= i) =>
                                   ops[i].adm # (k \in copy[w])}
Without(ops, d) == d \ {ops[i].key : i \in DOMAIN ops}

\* WorkerNode.handle_batched_kv_operations: the last operation of a key wins.
ApplyOps(kv, ops) ==
    {k \in Keys :
        LET at == {i \in DOMAIN ops : ops[i].key = k}
        IN  IF at = {} THEN k \in kv
            ELSE \E i \in at : (\A j \in at : j <= i) /\ ops[i].adm}
SeqBroken(n, ops) ==
    \/ n # -1 /\ ops[1].seq # n + 1
    \/ \E i \in 2..Len(ops) : ops[i].seq # ops[i - 1].seq + 1

\* KVController.handle_batched_kv_operations: discarded while the worker
\* syncs or when it is not registered.
HandleOps(w, m) ==
    IF Syncing(w) \/ ~Registered(w)
    THEN /\ dirty' = [dirty EXCEPT ![w] =
                DirtyAfter(w, m.ops, @)]
         /\ dropped' = [dropped EXCEPT ![w] = TRUE]
         /\ UNCHANGED <<node, gap, unsent, copy>>
    ELSE /\ node' = [node EXCEPT ![w].kv = ApplyOps(@, m.ops),
                                 ![w].seq = m.ops[Len(m.ops)].seq]
         /\ gap' = [gap EXCEPT ![w] = @ \/ SeqBroken(node[w].seq, m.ops)]
         /\ dirty' = [dirty EXCEPT ![w] = Without(m.ops, @)]
         /\ unsent' = [unsent EXCEPT ![w] = Without(m.ops, @)]
         /\ UNCHANGED <<copy, dropped>>

\* receive_batch and handle_full_sync_batch.
HandleFullSyncBatch(w, m) ==
    /\ IF Registered(w) /\ node[w].sync.sid = m.sid /\ Syncing(w)
       THEN /\ node' = [node EXCEPT ![w].kv = @ \cup m.keys,
                                    ![w].sync.got = @ \cup {m.id}]
            /\ unsent' = [unsent EXCEPT ![w] = @ \ m.keys]
       ELSE /\ unsent' = [unsent EXCEPT ![w] = @ \cup m.keys]
            /\ UNCHANGED node
    /\ UNCHANGED <<gap, dirty, copy, dropped>>

\* complete_sync: whatever the state and the batches received.
HandleFullSyncEnd(w, m) ==
    /\ IF Registered(w) /\ node[w].sync.sid = m.sid
       THEN node' = [node EXCEPT ![w].sync.state = "completed"]
       ELSE UNCHANGED node
    /\ UNCHANGED <<gap, history>>

\* handle_batched_push_request and handle_worker_message.
HandleWorkerMessage(w) ==
    /\ push[w] # <<>>
    /\ LET m == Head(push[w])
       IN  \/ m.type = "ops" /\ HandleOps(w, m) /\ UNCHANGED <<cached, exec>>
           \/ m.type = "batch" /\ HandleFullSyncBatch(w, m) /\ UNCHANGED <<cached, exec>>
           \/ m.type = "end" /\ HandleFullSyncEnd(w, m) /\ UNCHANGED <<cached, exec>>
           \/ m.type = "dereg" /\ DeregisterNode(w) /\ UNCHANGED <<gap, history>>
    /\ push' = [push EXCEPT ![w] = Tail(@)]
    /\ UNCHANGED <<mode, worker, opq, seqno, snd, nsync, needAll, faults>>

\* The PUSH pipe loses its oldest message (a reconnect, the high-water mark).
LosePushed(w) ==
    /\ push[w] # <<>> /\ Fault("push")
    /\ push' = [push EXCEPT ![w] = Tail(@)]
    /\ LET m == Head(push[w])
       IN  /\ dirty' = [dirty EXCEPT ![w] =
                  IF m.type = "ops" THEN DirtyAfter(w, m.ops, @) ELSE @]
           /\ unsent' = [unsent EXCEPT ![w] = IF m.type = "batch" THEN @ \cup m.keys ELSE @]
           /\ dropped' = [dropped EXCEPT ![w] = @ \/ m.type = "ops"]
    /\ UNCHANGED <<copy, mode, worker, opq, seqno, snd, nsync, registry, exec>>

-----------------------------------------------------------------------------
(* Restarts, and cluster operations.                                        *)

\* A new controller: no nodes, and every worker is to send its keys.
RestartController ==
    /\ Fault("controller")
    /\ node' = [w \in Workers |-> NoNode]
    /\ cached' = [w \in Workers |-> "none"]
    /\ needAll' = TRUE
    /\ exec' = [w \in Workers |-> "none"]
    /\ gap' = [w \in Workers |-> FALSE]
    /\ dirty' = [w \in Workers |-> Keys]
    /\ UNCHANGED <<mode, worker, sender, unsent, copy, dropped>>

\* A new worker process under the same ids: its queues are gone.
RestartWorker(w) ==
    /\ up[w] = "up" /\ Fault("worker")
    /\ up' = [up EXCEPT ![w] = "new"]
    /\ hot' = [hot EXCEPT ![w] = {}]
    /\ storing' = [storing EXCEPT ![w] = {}]
    /\ frozen' = [frozen EXCEPT ![w] = FALSE]
    /\ opq' = [opq EXCEPT ![w] = <<>>]
    /\ seqno' = [seqno EXCEPT ![w] = 0]
    /\ push' = [push EXCEPT ![w] = <<>>]
    /\ snd' = [snd EXCEPT ![w] = Idle]
    /\ gap' = [gap EXCEPT ![w] = FALSE]
    /\ dropped' = [dropped EXCEPT ![w] = FALSE]
    /\ UNCHANGED <<mode, nsync, node, cached, needAll, exec, dirty, unsent, copy>>

\* LMCacheClusterExecutor.clear: one request to every worker over its REQ
\* socket; a socket that still waits for an answer cannot send.
ExecClear ==
    LET all == {w \in mode.workers : Registered(w)}
    IN  /\ "clear" \in mode.may /\ all # {}
        /\ \A w \in all : exec[w] = "none" /\ up[w] = "up" /\ OpsLeft(w)
        /\ exec' = [w \in Workers |-> IF w \in all THEN "clear" ELSE exec[w]]
        /\ UNCHANGED <<mode, worker, sender, registry, faults, history>>

\* LMCacheWorker.handle_request: clear() of the engine, in freeze mode too.
HandleClear(w) ==
    /\ up[w] = "up" /\ exec[w] = "clear"
    /\ seqno[w] + Len(opq[w]) + Cardinality(hot[w]) <= mode.ops[w]
    /\ exec' = [exec EXCEPT ![w] = "none"]
    /\ LET ks == SetToSeq(hot[w])
       IN  opq' = [opq EXCEPT ![w] = @ \o [i \in DOMAIN ks |-> Op(FALSE, ks[i], -1)]]
    /\ hot' = [hot EXCEPT ![w] = {}]
    /\ UNCHANGED <<mode, up, storing, frozen, seqno, push, snd, nsync, registry,
                   faults, history>>

SenderStep(w) ==
    \/ Freeze(w) \/ SendSyncStart(w) \/ SendKeyBatches(w) \/ ResendMissing(w)
    \/ PollForCompletion(w)

Next ==
    \/ \E w \in Workers, k \in Keys : StoreBegin(w, k) \/ StorePut(w, k) \/ Evict(w, k)
    \/ \E w \in Workers :
          \/ DrainAndSend(w) \/ Register(w) \/ Heartbeat(w) \/ HeartbeatLost(w)
          \/ HealthCheck(w) \/ Close(w) \/ SenderStep(w)
          \/ HandleWorkerMessage(w) \/ LosePushed(w) \/ RestartWorker(w) \/ HandleClear(w)
    \/ RestartController \/ ExecClear

Spec == Init /\ [][Next]_vars

\* The loops of the processes keep running.
Fairness ==
    \A w \in Workers :
        /\ WF_vars(SenderStep(w))
        /\ WF_vars(HandleWorkerMessage(w))
        /\ WF_vars(DrainAndSend(w))
        /\ WF_vars(Heartbeat(w))
        /\ WF_vars(\E k \in Keys : StorePut(w, k))

FairSpec == Spec /\ Fairness

-----------------------------------------------------------------------------
Quiet(w) ==
    /\ up[w] = "up" /\ Registered(w) /\ ~Syncing(w)
    /\ snd[w].phase = "idle" /\ opq[w] = <<>> /\ push[w] = <<>>

\* find_kv_with_worker_info: the workers whose node has the key; the caller's
\* own instance is left out.
FindKv(k, self) == {w \in Workers \ {self} : Registered(w) /\ k \in node[w].kv}

\* batched_p2p_lookup: the number of leading chunks the worker has.
NumHitChunks(hashes, w) ==
    CHOOSE n \in 0..Len(hashes) :
        /\ \A i \in 1..n : hashes[i] \in node[w].kv
        /\ n < Len(hashes) => hashes[n + 1] \notin node[w].kv

\* The parts of the state that are sets of keys and flags per worker.
TypeOK ==
    /\ hot \in [Workers -> SUBSET Keys] /\ storing \in [Workers -> SUBSET Keys]
    /\ frozen \in [Workers -> BOOLEAN] /\ dropped \in [Workers -> BOOLEAN]
    /\ \A w \in Workers : node[w].kv \subseteq Keys

\* When a worker's queues are empty and no sync is open, a P2P lookup of any
\* sequence of chunks finds at that worker the chunks its hot cache has, except
\* for keys whose last operation or batch was discarded or lost: replaying the
\* queued operations over a full copy taken while they were on their way
\* (kv_controller.py, full_sync_sender.py) ends in the worker's own state.
ConvergedWhenQuiet ==
    \A w \in Workers : Quiet(w) =>
        \A hashes \in SeqOf(Keys \ (dirty[w] \cup unsent[w]), 2) :
            LET n == NumHitChunks(hashes, w)
            IN  /\ \A i \in 1..n : hashes[i] \in hot[w]
                /\ n < Len(hashes) => hashes[n + 1] \notin hot[w]
                /\ hashes # <<>> => (w \in FindKv(hashes[1], 0) <=> hashes[1] \in hot[w])

\* A sync that counts as completed has had every batch of its copy, as long as
\* no pushed message is lost: complete_sync does not look at the batches, it
\* relies on the end being pushed last and on its sync id.
CompletedHasAll ==
    "push" \notin mode.may =>
        \A w \in Workers : LET y == node[w].sync
                           IN  y.state = "completed" =>
                                   y.got = 0..y.count - 1

\* The discontinuity counter of the registry (utils.py) only rises for a
\* worker some of whose operations were lost or discarded.
GapMeansDrop == \A w \in Workers : gap[w] => dropped[w]

\* The registry of the controller as a whole: it converges to the workers' own
\* state, a completed full sync is complete and a counted gap was a loss.
RegistryRight == TypeOK /\ ConvergedWhenQuiet /\ CompletedHasAll /\ GapMeansDrop

\* A full sync never leaves its worker frozen, whatever is lost or restarted on
\* the way: the retries and polls of start_full_sync are bounded and its
\* finally clause thaws.
ThawsEventually == \A w \in Workers : []<>~frozen[w]
=============================================================================
