------------------------------ MODULE Transfer ------------------------------
(***************************************************************************)
(* Moving chunks between engines over a transfer channel that writes into, *)
(* or reads from, the paged buffer of the other side.                      *)
(*                                                                         *)
(* PDBackend: prefill engines push.  The decoder's alloc loop gives out a  *)
(* page per new key and publishes the key at once; the sender then writes  *)
(* the pages and, after the last put of a request, notifies the proxy,     *)
(* which lets the decoder retrieve and release the request's chunks.       *)
(*                                                                         *)
(* P2PBackend: an engine pulls.  It allocates pages, sends their indexes   *)
(* to the engine the controller named, and that engine's REP loop writes   *)
(* them.  A request without answer is sent again on a fresh socket.        *)
(* LMCacheEngine.move uses the same loop to make the peer read its chunks. *)
(***************************************************************************)
EXTENDS Integers, Sequences, FiniteSets, SequencesExt, FiniteSetsExt

CONSTANTS
    Keys,
    MaxJobs,     \* bound of the number of jobs of a mode
    Modes        \* configurations and bounds, as described at ModeType

\* kind: the backend; rounds: messages of the channel's handshake; cap: pages
\* of the decoder (pd) or of the asking engine (p2p); tries: max_retry_count;
\* held: chunks the peer holds; jobs: the requests, each of one engine.  puts:
\* the batches of a request; op: "push", "get" or "move"; n: the hits the
\* controller reports.  may: "err" (a transfer ends in ERR), "slow" (an answer
\* is later than the receive timeout), "restart" (of the peer), "force" (a
\* forced removal at the peer).
Job == [by: Nat \ {0}, op: {"push", "get", "move"}, puts: Seq(Seq(Keys)), n: Nat]
ModeType == [kind: {"pd", "p2p"}, rounds: Seq({"init", "mem", "side"}), cap: Nat,
             tries: Nat \ {0}, held: SUBSET Keys, jobs: Seq(Job),
             may: SUBSET {"err", "slow", "restart", "force"}]

VARIABLES
    mode,
    page,        \* the pages: reference count and what was last written
    shake,       \* init socket of each engine: the round, and if answered
    handlers,    \* engines the peer can transfer with: remote_xfer_handlers_dict
    conn,        \* engines that know the peer: initialized_peers
    pc,          \* of each job
    put,         \* the batch a pushing job is at
    mine,        \* pages of a job, one per key it asked for
    srv,         \* what the peer's REP loop is at
    wire,        \* requests on their way to that loop: job, attempt, pages
    reply,       \* the answer a job has received
    lent,        \* chunks a sender holds a reference on
    data,        \* PDBackend.data of the decoder: key -> page
    notified,    \* requests the proxy was told about
    dec,         \* the decoder's retrieve: request, chunk, whether removed
    loop,        \* the job whose allocation occupies the event loop
    locks,       \* update_peer_lock and lookup_lock: the job holding it; stuck:
                 \* the lookup socket still waits for an answer it will not get
    tried,       \* retry_count
    held, pins,  \* hot_cache of the peer and its pin counts
    \* History: chunks loaded with other content; chunks called already sent
    \* before they were written; pages written for a job that gave up; keys
    \* removed by force; a handshake cut by a restart; moves that read nothing.
    bad, early, late, forced, cut, unread

pdVars == <<put, lent, data, notified, dec, early>>
p2pVars == <<loop, locks, tried, held, pins, late, forced, unread>>
chanVars == <<shake, handlers, conn, cut>>
vars == <<mode, page, chanVars, pc, mine, srv, wire, reply, pdVars, p2pVars, bad>>

Jobs == 1..Len(mode.jobs)
Engines == {mode.jobs[j].by : j \in Jobs}
Pages == 1..mode.cap
By(j) == mode.jobs[j].by
Op(j) == mode.jobs[j].op
Idle == [job |-> 0]
Quiet == [at |-> 0, answered |-> FALSE]
None == [what |-> "none"]
Free == {p \in Pages : page[p].ref = 0}
AllKeys(j) == FlattenSeq(mode.jobs[j].puts)
\* The keys a job's current request names: of a get, the ones reported as hits.
Asked(j) == IF Op(j) = "push" THEN mode.jobs[j].puts[put[j]]
            ELSE SubSeq(AllKeys(j), 1, mode.jobs[j].n)
Set(v, j, x) == [v EXCEPT ![j] = x]

Init ==
    /\ mode \in Modes
    /\ page = [p \in Pages |-> [ref |-> 0, has |-> "junk"]]
    /\ shake = [e \in Engines |-> Quiet] /\ handlers = {} /\ conn = {} /\ cut = FALSE
    /\ pc = [j \in Jobs |-> "new"]
    /\ put = [j \in Jobs |-> 1]
    /\ mine = [j \in Jobs |-> <<>>]
    /\ srv = Idle /\ wire = {} /\ reply = [j \in Jobs |-> None]
    /\ lent = [j \in Jobs |-> 0]
    /\ data = [k \in {} |-> 0] /\ notified = {} /\ dec = Idle /\ early = {}
    /\ loop = 0 /\ locks = [peer |-> 0, lookup |-> 0, stuck |-> FALSE]
    /\ tried = [j \in Jobs |-> 0]
    /\ held = mode.held /\ pins = [k \in Keys |-> 0]
    /\ late = {} /\ forced = {} /\ unread = {} /\ bad = {}

-----------------------------------------------------------------------------
(* The channel's handshake: lazy_init_peer_connection against _init_loop.   *)

Rounds == 1..Len(mode.rounds)
\* The peer registers the caller's memory with the last message but the side one.
Registers(i) == mode.rounds[i] # "side"
                /\ \A h \in Rounds : h > i => mode.rounds[h] = "side"

Fresh == [at |-> 1, answered |-> FALSE]
Dial(e) == shake' = [shake EXCEPT ![e] = Fresh]

\* _handle_init_msg: one message of the init loop.
HandleInitMsg(e) ==
    /\ shake[e] # Quiet /\ ~shake[e].answered
    /\ shake' = [shake EXCEPT ![e].answered = TRUE]
    /\ handlers' = IF Registers(shake[e].at) THEN handlers \cup {e} ELSE handlers
    /\ UNCHANGED <<mode, page, conn, cut, pc, mine, srv, wire, reply, pdVars, p2pVars, bad>>

NextRound(e) ==
    /\ shake[e] # Quiet /\ shake[e].answered /\ shake[e].at < Len(mode.rounds)
    /\ shake' = [shake EXCEPT ![e] = [at |-> @.at + 1, answered |-> FALSE]]
    /\ UNCHANGED <<mode, page, handlers, conn, cut, pc, mine, srv, wire, reply,
                   pdVars, p2pVars, bad>>

Shaken(e) == shake[e] # Quiet /\ shake[e].answered /\ shake[e].at = Len(mode.rounds)
HangUp(e) == shake' = [shake EXCEPT ![e] = Quiet] /\ conn' = conn \cup {e}

-----------------------------------------------------------------------------
(* PDBackend, the sender: batched_submit_put_task, one at a time per engine.*)

Busy(j) == pc[j] \notin {"new", "done", "failed"}
PdMine(j) == mode.kind = "pd" /\ \A i \in Jobs : By(i) = By(j) => i = j \/ ~Busy(i)

\* References on the chunks, then _ensure_peer_connection.
SubmitPut(j) ==
    /\ mode.kind = "pd" /\ pc[j] = "new" /\ PdMine(j)
    /\ lent' = Set(lent, j, Len(Asked(j)))
    /\ IF By(j) \in conn
       THEN pc' = Set(pc, j, "ask") /\ UNCHANGED shake
       ELSE pc' = Set(pc, j, "dial") /\ Dial(By(j))
    /\ UNCHANGED <<mode, page, handlers, conn, cut, mine, srv, wire, reply, put, data,
                   notified, dec, early, p2pVars, bad>>

PutConnected(j) ==
    /\ mode.kind = "pd" /\ pc[j] = "dial" /\ Shaken(By(j))
    /\ HangUp(By(j))
    /\ pc' = Set(pc, j, "ask")
    /\ UNCHANGED <<mode, page, handlers, cut, mine, srv, wire, reply, pdVars, p2pVars, bad>>

\* _remote_allocate sends and waits without a timeout.
RemoteAllocate(j) ==
    /\ mode.kind = "pd" /\ pc[j] = "ask"
    /\ pc' = Set(pc, j, "wait")
    /\ wire' = wire \cup {[job |-> j, try |-> put[j], pages |-> <<>>]}
    /\ UNCHANGED <<mode, page, chanVars, mine, srv, reply, pdVars, p2pVars, bad>>

\* The chunks to write: the ones not called already sent, with their pages.
Writes(j) ==
    LET send == SelectSeq([i \in 1..Len(Asked(j)) |-> i], LAMBDA i : i \notin reply[j].already)
    IN [i \in 1..Len(send) |-> [p |-> reply[j].got[i], k |-> Asked(j)[send[i]]]]
Written(ws) ==
    [p \in Pages |-> LET w == {i \in 1..Len(ws) : ws[i].p = p} IN
                     IF w = {} THEN page[p] ELSE [page[p] EXCEPT !.has = ws[Max(w)].k]]

\* batched_write spins until the transfer is DONE; the references go after it.
BatchedWrite(j) ==
    /\ mode.kind = "pd" /\ pc[j] = "wait" /\ reply[j] # None
    /\ By(j) \in conn
    /\ page' = Written(Writes(j))
    /\ lent' = Set(lent, j, 0)
    /\ pc' = Set(pc, j, "sent")
    /\ UNCHANGED <<mode, chanVars, mine, srv, wire, reply, put, data, notified, dec,
                   early, p2pVars, bad>>

\* ERR raises out of the put: the references of the chunks to send stay.
WriteFails(j) ==
    /\ mode.kind = "pd" /\ "err" \in mode.may
    /\ pc[j] = "wait" /\ reply[j] # None /\ Writes(j) # <<>>
    /\ lent' = Set(lent, j, Len(Writes(j)))
    /\ pc' = Set(pc, j, "failed")
    /\ UNCHANGED <<mode, page, chanVars, mine, srv, wire, reply, put, data, notified,
                   dec, early, p2pVars, bad>>

\* ProxyNotif after the last put (is_last_prefill); else the next one follows.
NotifyProxy(j) ==
    /\ mode.kind = "pd" /\ pc[j] = "sent"
    /\ reply' = Set(reply, j, None)
    /\ IF put[j] = Len(mode.jobs[j].puts)
       THEN /\ notified' = notified \cup {j}
            /\ pc' = Set(pc, j, "done")
            /\ UNCHANGED <<put, lent>>
       ELSE /\ put' = [put EXCEPT ![j] = @ + 1]
            /\ pc' = Set(pc, j, "new")
            /\ UNCHANGED <<notified, lent>>
    /\ UNCHANGED <<mode, page, chanVars, mine, srv, wire, data, dec, early, p2pVars, bad>>

-----------------------------------------------------------------------------
(* PDBackend, the decoder: _mem_alloc_loop and the engine's retrieve.       *)

AllocRecv(m) ==
    /\ mode.kind = "pd" /\ srv = Idle /\ m \in wire
    /\ srv' = [job |-> m.job, i |-> 1, already |-> {}, got |-> <<>>]
    /\ wire' = wire \ {m}
    /\ UNCHANGED <<mode, page, chanVars, pc, mine, reply, pdVars, p2pVars, bad>>

SrvKey == Asked(srv.job)[srv.i]
Serving == mode.kind = "pd" /\ srv # Idle /\ srv.i <= Len(Asked(srv.job))

\* contains(pin=True) takes a reference on a chunk the decoder has.
AllocKnown ==
    /\ Serving /\ SrvKey \in DOMAIN data
    /\ page' = [page EXCEPT ![data[SrvKey]].ref = @ + 1]
    /\ early' = IF page[data[SrvKey]].has = SrvKey THEN early
                ELSE early \cup {<<srv.job, SrvKey>>}
    /\ srv' = [srv EXCEPT !.i = @ + 1, !.already = @ \cup {srv.i}]
    /\ UNCHANGED <<mode, chanVars, pc, mine, wire, reply, put, lent, data, notified, dec,
                   p2pVars, bad>>

\* A new chunk waits for a free page; put() publishes it before it is written.
AllocNew ==
    /\ Serving /\ SrvKey \notin DOMAIN data /\ Free # {}
    /\ LET p == Min(Free) IN
         /\ page' = [page EXCEPT ![p].ref = 1]
         /\ data' = [k \in DOMAIN data \cup {SrvKey} |-> IF k = SrvKey THEN p ELSE data[k]]
         /\ srv' = [srv EXCEPT !.i = @ + 1, !.got = Append(@, p)]
    /\ UNCHANGED <<mode, chanVars, pc, mine, wire, reply, put, lent, notified, dec, early,
                   p2pVars, bad>>

AllocAnswer ==
    /\ mode.kind = "pd" /\ srv # Idle /\ srv.i > Len(Asked(srv.job))
    /\ reply' = Set(reply, srv.job, [already |-> srv.already, got |-> srv.got])
    /\ srv' = Idle
    /\ UNCHANGED <<mode, page, chanVars, pc, mine, wire, pdVars, p2pVars, bad>>

\* retrieve: the prefix that contains() finds, loaded by get_blocking.
Retrieve(j) ==
    /\ mode.kind = "pd" /\ dec = Idle /\ j \in notified
    /\ LET ks == AllKeys(j)
           hit == Max({n \in 0..Len(ks) : \A i \in 1..n : ks[i] \in DOMAIN data})
       IN /\ dec' = [job |-> j, i |-> 1, n |-> hit, removed |-> FALSE,
                     objs |-> [i \in 1..hit |-> data[ks[i]]]]
          /\ bad' = bad \cup {<<j, ks[i]>> : i \in {i \in 1..hit : page[data[ks[i]]].has # ks[i]}}
                        \cup {<<j, ks[i]>> : i \in hit + 1..Len(ks)}
    /\ notified' = notified \ {j}
    /\ UNCHANGED <<mode, page, chanVars, pc, mine, srv, wire, reply, put, lent, data, early,
                   p2pVars>>

\* remove(): only the last reference takes the key out of data.
RetrieveRemove ==
    /\ mode.kind = "pd" /\ dec # Idle /\ dec.i <= dec.n /\ ~dec.removed
    /\ dec' = [dec EXCEPT !.removed = TRUE]
    /\ LET k == AllKeys(dec.job)[dec.i] IN
         data' = IF k \in DOMAIN data /\ page[data[k]].ref = 1
                 THEN [x \in DOMAIN data \ {k} |-> data[x]] ELSE data
    /\ UNCHANGED <<mode, page, chanVars, pc, mine, srv, wire, reply, put, lent, notified,
                   early, p2pVars, bad>>

RetrieveRelease ==
    /\ mode.kind = "pd" /\ dec # Idle /\ (dec.i > dec.n \/ dec.removed)
    /\ IF dec.i > dec.n
       THEN dec' = Idle /\ UNCHANGED page
       ELSE /\ page' = [page EXCEPT ![dec.objs[dec.i]].ref = @ - 1]
            /\ dec' = [dec EXCEPT !.i = @ + 1, !.removed = FALSE]
    /\ UNCHANGED <<mode, chanVars, pc, mine, srv, wire, reply, put, lent, data, notified,
                   early, p2pVars, bad>>

-----------------------------------------------------------------------------
(* P2PBackend, the asking engine.  Its coroutines share one event loop.     *)

OnLoop(j) == mode.kind = "p2p" /\ loop \in {0, j}
Rest == <<mode, handlers, cut, srv, pdVars, held, pins, late, forced>>

\* batched_async_contains, or move's lookup: the controller's hits, then
\* _ensure_peer_connection, twice checked around update_peer_lock.
AsyncContains(j) ==
    /\ OnLoop(j) /\ pc[j] = "new"
    /\ pc' = Set(pc, j, CASE mode.jobs[j].n = 0 -> "none"
                          [] By(j) \in conn -> "ready"
                          [] OTHER -> "dial")
    /\ UNCHANGED <<Rest, page, shake, conn, mine, wire, reply, loop, locks, tried, unread, bad>>

\* "redial" is the forced update after an error or a timeout.
LockPeer(j) ==
    /\ OnLoop(j) /\ pc[j] \in {"dial", "redial"} /\ locks.peer = 0
    /\ IF pc[j] = "dial" /\ By(j) \in conn
       THEN pc' = Set(pc, j, "ready") /\ UNCHANGED <<locks, shake>>
       ELSE locks' = [locks EXCEPT !.peer = j] /\ Dial(By(j)) /\ UNCHANGED pc
    /\ UNCHANGED <<Rest, page, conn, mine, wire, reply, loop, tried, unread, bad>>

GaveUp(j) == tried[j] = mode.tries
AfterDial(j) == CASE pc[j] = "dial" -> "ready"
                  [] ~GaveUp(j) -> "again"
                  [] OTHER -> "empty"
\* Mutant: the lookup lock is not left when the last attempt is used up.
UnlockKeeps(j) ==
    [peer |-> 0, lookup |-> IF locks.lookup = j /\ ~GaveUp(j) THEN 0 ELSE locks.lookup,
     stuck |-> FALSE]
\* The lookup socket is new.
UnlockAfterDial(j) ==
    [peer |-> 0, lookup |-> IF locks.lookup = j THEN 0 ELSE locks.lookup, stuck |-> FALSE]
PeerConnected(j) ==
    /\ OnLoop(j) /\ locks.peer = j /\ Shaken(By(j))
    /\ HangUp(By(j))
    /\ pc' = Set(pc, j, AfterDial(j))
    /\ locks' = UnlockAfterDial(j)
    /\ UNCHANGED <<Rest, page, mine, wire, reply, loop, tried, unread, bad>>

\* batched_get_non_blocking allocates page by page; without a free one the
\* allocation sleeps in a loop, on the event loop's thread.  The chunks of a
\* move are in pages already.
GetAllocate(j) ==
    /\ OnLoop(j) /\ pc[j] = "ready" /\ Len(mine[j]) < Len(Asked(j))
    /\ IF Free = {}
       THEN loop = 0 /\ loop' = j /\ UNCHANGED <<page, mine>>
       ELSE /\ page' = [page EXCEPT ![Min(Free)] =
                 [ref |-> 1, has |-> IF Op(j) = "move" THEN Asked(j)[Len(mine[j]) + 1]
                               ELSE page[Min(Free)].has]]
            /\ mine' = [mine EXCEPT ![j] = Append(@, Min(Free))]
            /\ loop' = IF Len(mine[j]) + 1 < Len(Asked(j)) THEN j ELSE 0
    /\ UNCHANGED <<Rest, shake, conn, pc, wire, reply, locks, tried, unread, bad>>

\* One request at a time per peer: lookup_lock.
MaySend(j) ==
    /\ OnLoop(j) /\ locks.lookup = 0
    /\ pc[j] \in {"ready", "again"} /\ Len(mine[j]) = Len(Asked(j))
SendRequest(j) ==
    /\ MaySend(j) /\ ~locks.stuck
    /\ locks' = [locks EXCEPT !.lookup = j]
    /\ tried' = [tried EXCEPT ![j] = @ + 1]
    /\ reply' = Set(reply, j, None)
    /\ wire' = wire \cup {[job |-> j, try |-> tried[j] + 1, pages |-> mine[j]]}
    /\ pc' = Set(pc, j, "wait")
    /\ UNCHANGED <<Rest, page, shake, conn, mine, loop, unread, bad>>

\* A REQ socket does not send before it has received: a get replaces it and
\* tries again, of a move the error goes to the caller.
SendFails(j) ==
    /\ MaySend(j) /\ locks.stuck
    /\ tried' = [tried EXCEPT ![j] = @ + 1]
    /\ IF Op(j) = "get"
       THEN pc' = Set(pc, j, "redial") /\ locks' = [locks EXCEPT !.lookup = j]
       ELSE pc' = Set(pc, j, "failed") /\ UNCHANGED locks
    /\ UNCHANGED <<Rest, page, shake, conn, mine, wire, reply, loop, unread, bad>>

\* No answer in time: a get replaces the socket.  Of a move the error goes to
\* the caller, the chunks keep their references and the socket stays.
Timeout(j) ==
    /\ OnLoop(j) /\ pc[j] = "wait" /\ reply[j] = None
    /\ {"slow", "restart"} \cap mode.may # {}
    /\ IF Op(j) = "get" THEN pc' = Set(pc, j, "redial") /\ UNCHANGED locks
       ELSE pc' = Set(pc, j, "failed") /\ locks' = [locks EXCEPT !.lookup = 0, !.stuck = TRUE]
    /\ UNCHANGED <<Rest, page, shake, conn, mine, wire, reply, loop, tried, unread, bad>>

\* Mutant: the caller is given every page it asked for.
KeepAll(j, n) == UNCHANGED <<page, mine>>
\* The first n pages are the result; the others are released.
Keep(j, n) ==
    /\ page' = [p \in Pages |-> IF \E i \in n + 1..Len(mine[j]) : mine[j][i] = p
                                THEN [page[p] EXCEPT !.ref = @ - 1] ELSE page[p]]
    /\ mine' = Set(mine, j, SubSeq(mine[j], 1, n))
GetAnswered(j) ==
    /\ OnLoop(j) /\ pc[j] = "wait" /\ reply[j] # None /\ Op(j) = "get"
    /\ IF reply[j].what = "unknown"
       THEN pc' = Set(pc, j, "redial") /\ UNCHANGED <<page, mine, locks>>
       ELSE /\ pc' = Set(pc, j, "loaded")
            /\ Keep(j, reply[j].n)
            /\ locks' = [locks EXCEPT !.lookup = 0]
    /\ UNCHANGED <<Rest, shake, conn, wire, reply, loop, tried, unread, bad>>

\* The last attempt is used up: _cleanup_memory_objects.
GetEmpty(j) ==
    /\ OnLoop(j) /\ pc[j] = "empty"
    /\ Keep(j, 0)
    /\ pc' = Set(pc, j, "loaded")
    /\ UNCHANGED <<Rest, shake, conn, wire, reply, loop, locks, tried, unread, bad>>

\* The engine's thread copies the chunks to the GPU and releases them.
Consume(j) ==
    /\ mode.kind = "p2p" /\ pc[j] = "loaded"
    /\ bad' = bad \cup {<<j, mine[j][i]>> : i \in {i \in 1..Len(mine[j]) :
                                                    page[mine[j][i]].has # Asked(j)[i]}}
    /\ Keep(j, 0)
    /\ pc' = Set(pc, j, "done")
    /\ UNCHANGED <<Rest, shake, conn, wire, reply, loop, locks, tried, unread>>

\* move ignores how many chunks were read, and releases none of its own.
MoveAnswered(j) ==
    /\ OnLoop(j) /\ pc[j] = "wait" /\ reply[j] # None /\ Op(j) = "move"
    /\ pc' = Set(pc, j, "done")
    /\ locks' = [locks EXCEPT !.lookup = 0]
    /\ unread' = IF reply[j].what = "raised" THEN unread \cup {j} ELSE unread
    /\ UNCHANGED <<Rest, page, shake, conn, mine, wire, reply, loop, tried, bad>>

-----------------------------------------------------------------------------
(* P2PBackend, the peer: _handle_peer_requests, one request at a time, in   *)
(* any order of the sockets they came from.                                 *)

Asking == <<mode, shake, conn, pc, mine, pdVars, loop, locks, tried, unread, bad>>

\* The answer of an earlier attempt goes to a socket that is closed.
Answer(m, what, n) ==
    reply' = IF pc[m.job] = "wait" /\ tried[m.job] = m.try
             THEN Set(reply, m.job, [what |-> what, n |-> n]) ELSE reply

\* An engine without handler is told so; a move runs into KeyError.
RecvUnknown(m) ==
    /\ mode.kind = "p2p" /\ srv = Idle /\ m \in wire /\ By(m.job) \notin handlers
    /\ wire' = wire \ {m}
    /\ Answer(m, IF Op(m.job) = "get" THEN "unknown" ELSE "raised", 0)
    /\ UNCHANGED <<Asking, page, handlers, cut, srv, held, pins, late, forced>>

HitPrefix(ks) == SubSeq(ks, 1, Max({n \in 0..Len(ks) : \A i \in 1..n : ks[i] \in held}))
Pinned(ks, d) == [k \in Keys |-> pins[k] + IF \E i \in 1..Len(ks) : ks[i] = k THEN d ELSE 0]

\* batched_async_contains(pin=True) on the local CPU backend.
LookupPin(m) ==
    /\ mode.kind = "p2p" /\ srv = Idle /\ m \in wire
    /\ By(m.job) \in handlers /\ Op(m.job) = "get"
    /\ LET ks == HitPrefix(Asked(m.job)) IN
         srv' = [job |-> m.job, m |-> m, at |-> "pinned", ks |-> ks] /\ pins' = Pinned(ks, 1)
    /\ wire' = wire \ {m}
    /\ UNCHANGED <<Asking, page, handlers, cut, reply, held, late, forced>>

\* batched_get_non_blocking raises KeyError for a chunk removed by force: no
\* memory objects, so nothing is unpinned.
GetPinned ==
    /\ mode.kind = "p2p" /\ srv # Idle /\ srv.at = "pinned"
    /\ IF \A i \in 1..Len(srv.ks) : srv.ks[i] \in held
       THEN srv' = [srv EXCEPT !.at = "write"] /\ UNCHANGED reply
       ELSE srv' = Idle /\ Answer(srv.m, "error", 0)
    /\ UNCHANGED <<Asking, page, handlers, cut, wire, held, pins, late, forced>>

\* async_batched_write into the pages the request named, whoever owns them now.
WritePages ==
    /\ mode.kind = "p2p" /\ srv # Idle /\ srv.at = "write"
    /\ LET j == srv.job
           ws == [i \in 1..Len(srv.ks) |-> [p |-> srv.m.pages[i], k |-> srv.ks[i]]]
       IN /\ page' = Written(ws)
          /\ late' = IF pc[j] = "wait" /\ tried[j] = srv.m.try THEN late
                     ELSE late \cup {ws[i].p : i \in 1..Len(ws)}
    /\ Answer(srv.m, "hits", Len(srv.ks))
    /\ pins' = Pinned(srv.ks, -1)
    /\ srv' = Idle
    /\ UNCHANGED <<Asking, handlers, cut, wire, held, forced>>

\* ERR: the finally clause still releases what was pinned.
WritePagesFails ==
    /\ mode.kind = "p2p" /\ "err" \in mode.may /\ srv # Idle /\ srv.at = "write"
    /\ Answer(srv.m, "error", 0)
    /\ pins' = Pinned(srv.ks, -1)
    /\ srv' = Idle
    /\ UNCHANGED <<Asking, page, handlers, cut, wire, held, late, forced>>

\* _handle_batched_lookup_and_put: the chunks the peer lacks are read and put.
\* The pages the peer takes for them, with an allocation that sleeps on its loop
\* while there is none, are not modelled.
MoveAsked(m) ==
    /\ mode.kind = "p2p" /\ srv = Idle /\ m \in wire
    /\ By(m.job) \in handlers /\ Op(m.job) = "move"
LookupAndPut(m) ==
    /\ MoveAsked(m)
    /\ LET new == {i \in 1..Len(Asked(m.job)) : Asked(m.job)[i] \notin held} IN
         /\ held' = held \cup {page[m.pages[i]].has : i \in new}
         /\ Answer(m, "read", Cardinality(new))
    /\ wire' = wire \ {m}
    /\ UNCHANGED <<Asking, page, handlers, cut, srv, pins, late, forced>>

\* ERR: nothing is put, and the answer is that nothing was read.
LookupAndPutFails(m) ==
    /\ MoveAsked(m) /\ "err" \in mode.may
    /\ Answer(m, "read", 0)
    /\ wire' = wire \ {m}
    /\ UNCHANGED <<Asking, page, handlers, cut, srv, held, pins, late, forced>>

-----------------------------------------------------------------------------
(* Faults.                                                                  *)

\* remove(force=True) or clear() of the peer's engine.
ForceRemove(k) ==
    /\ mode.kind = "p2p" /\ "force" \in mode.may /\ k \in held
    /\ held' = held \ {k}
    /\ forced' = IF pins[k] > 0 THEN forced \cup {k} ELSE forced
    /\ UNCHANGED <<Asking, page, handlers, cut, srv, wire, reply, pins, late>>

\* The peer's process starts anew.  What it had received is lost; a handshake
\* goes on only if its first message had not been delivered.
Restart ==
    /\ mode.kind = "p2p" /\ "restart" \in mode.may /\ handlers # {}
    /\ handlers' = {} /\ held' = {} /\ srv' = Idle /\ wire' = {}
    /\ pins' = [k \in Keys |-> 0] /\ forced' = {}
    /\ cut' = (cut \/ \E e \in Engines : shake[e] # Quiet /\ shake[e] # Fresh)
    /\ shake' = [e \in Engines |-> IF shake[e] # Quiet /\ shake[e] # Fresh
                                   THEN [at |-> Len(mode.rounds) + 1, answered |-> TRUE] ELSE shake[e]]
    /\ UNCHANGED <<mode, page, conn, pc, mine, reply, pdVars, loop, locks, tried, late,
                   unread, bad>>
-----------------------------------------------------------------------------
Sender(j) == SubmitPut(j) \/ PutConnected(j) \/ RemoteAllocate(j) \/ BatchedWrite(j)
             \/ NotifyProxy(j)
Decoder == AllocKnown \/ AllocNew \/ AllocAnswer \/ (\E m \in wire : AllocRecv(m))
Retriever == RetrieveRemove \/ RetrieveRelease \/ (\E j \in Jobs : Retrieve(j))
Asker(j) == AsyncContains(j) \/ LockPeer(j) \/ PeerConnected(j) \/ GetAllocate(j)
            \/ SendRequest(j) \/ SendFails(j) \/ GetAnswered(j) \/ GetEmpty(j)
            \/ MoveAnswered(j) \/ Timeout(j)
Peer == GetPinned \/ WritePages
        \/ \E m \in wire : RecvUnknown(m) \/ LookupPin(m) \/ LookupAndPut(m)
Channel(e) == HandleInitMsg(e) \/ NextRound(e)

Next ==
    \/ \E j \in Jobs : Sender(j) \/ WriteFails(j) \/ Asker(j) \/ Consume(j)
    \/ Decoder \/ Retriever
    \/ Peer \/ WritePagesFails
    \/ \E m \in wire : LookupAndPutFails(m)
    \/ \E e \in Engines : Channel(e)
    \/ \E k \in Keys : ForceRemove(k)
    \/ Restart

Spec == Init /\ [][Next]_vars

\* Threads and loops keep running and a receive timeout fires; faults need not
\* happen.
Fair ==
    /\ \A j \in 1..MaxJobs : WF_vars(j \in Jobs /\ (Sender(j) \/ Asker(j) \/ Consume(j)))
    /\ WF_vars(Decoder) /\ WF_vars(Retriever) /\ WF_vars(Peer)
    /\ WF_vars(\E e \in Engines : Channel(e))
FairSpec == Spec /\ Fair

-----------------------------------------------------------------------------
(* Properties.                                                              *)

\* What the engines load is what was stored under the key.  A decoder loads an
\* unwritten page only of a chunk that _allocate_and_put had called already sent
\* too early; a puller gets other content only in a page that the peer wrote
\* for an attempt nobody was waiting for any more.
LoadedRight ==
    \A b \in bad : IF mode.kind = "pd" THEN b \in early ELSE b[2] \in late

\* The chunks of a request the decoder has granted and not yet released.
Granted(j) ==
    LET before == FlattenSeq(SubSeq(mode.jobs[j].puts, 1, put[j] - 1))
        now == IF srv # Idle /\ srv.job = j THEN SubSeq(Asked(j), 1, srv.i - 1)
               ELSE IF reply[j] # None \/ pc[j] = "done" THEN Asked(j) ELSE <<>>
        gone == IF dec # Idle /\ dec.job = j THEN dec.i - 1
                ELSE IF pc[j] = "done" /\ j \notin notified THEN Len(AllKeys(j)) ELSE 0
    IN {(before \o now)[i] : i \in gone + 1..Len(before \o now)}

\* The decoder is releasing the request's page of a chunk granted anew since.
Retiring(j, k) ==
    dec # Idle /\ dec.job = j
    /\ \E i \in dec.i..dec.n : AllKeys(j)[i] = k /\ dec.objs[i] # data[k]

\* The decoder keeps a chunk exactly as long as some request is entitled to it:
\* the references of a page are the requests that were granted its chunk and
\* have not released it, and a page outside data is free or about to be.
PagesExact ==
    mode.kind = "pd" =>
      /\ \A k \in DOMAIN data :
            page[data[k]].ref = Cardinality({j \in Jobs : k \in Granted(j) /\ ~Retiring(j, k)})
      /\ \A p \in Pages \ {data[k] : k \in DOMAIN data} :
            page[p].ref = 0 \/ (dec # Idle /\ dec.removed /\ dec.objs[dec.i] = p)

\* The peer pins only what it is serving, whatever the answer: a pin is left
\* behind only after a pinned chunk was removed by force.
PeerReleases ==
    forced = {} => \A k \in Keys : pins[k] > 0 =>
        srv # Idle /\ k \in {srv.ks[i] : i \in 1..Len(srv.ks)}

\* The pages of both sides as a whole: right content, exact references, no
\* pin left at the peer.
TransferSafe == LoadedRight /\ PagesExact /\ PeerReleases

Ended(j) == /\ pc[j] \in {"done", "failed", "none"}
            /\ j \notin notified /\ (dec = Idle \/ dec.job # j)
\* The decoder waits for a page while nothing that would free one can happen; an
\* allocation holds the event loop, or a handshake waits for a peer that is gone.
Starved ==
    \/ mode.kind = "pd" /\ Serving /\ SrvKey \notin DOMAIN data /\ Free = {}
       /\ notified = {} /\ dec = Idle
    \/ mode.kind = "p2p" /\ ((loop # 0 /\ Free = {}) \/ cut)

\* Every request ends, unless the pages are used up by requests that cannot
\* finish, or a handshake, which has no timeout, lost its peer.
EndedOrStarved == Starved \/ \A j \in Jobs : Ended(j)
EndsOrStarves == []<>EndedOrStarved
=============================================================================
