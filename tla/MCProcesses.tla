---------------------------- MODULE MCProcesses ----------------------------
(* Engines in several processes: the multi-process server with its vLLM      *)
(* adapters, and the engines that send each other chunks (prefill to decode, *)
(* peer to peer).  A behaviour is one of one part; the state of the other    *)
(* stays as it is.                                                           *)
EXTENDS MultiProcess, TLC

CONSTANTS
    r1, r2, c1, c2, c3,
    Keys, MaxJobs, Deployments      \* of Transfer

VARIABLES
    part,
    deployment, page, shake, handlers, conn, pc, put, mine, srv, requests, reply, lent, data,
    notified, dec, loop, peerLocks, tried, held, pins, bad, sentEarly, late, forced, cut, unread

transferVars ==
    <<deployment, page, shake, handlers, conn, pc, put, mine, srv, requests, reply, lent, data,
      notified, dec, loop, peerLocks, tried, held, pins, bad, sentEarly, late, forced, cut, unread>>

TR == INSTANCE Transfer WITH
        Modes <- Deployments, mode <- deployment, wire <- requests, locks <- peerLocks,
        early <- sentEarly

MCInit ==
    /\ part \in {"server", "transfer"}
    /\ (IF part = "server" THEN TRUE ELSE mode = CHOOSE m \in Modes : TRUE) /\ Init
    /\ (IF part = "transfer" THEN TRUE ELSE deployment = CHOOSE d \in Deployments : TRUE)
       /\ TR!Init
Server(A) == part = "server" /\ A /\ UNCHANGED <<part, transferVars>>
Transfers(A) == part = "transfer" /\ A /\ UNCHANGED <<part, vars>>
MCVars == <<part, vars, transferVars>>
MCSpec == MCInit /\ [][Server(Next) \/ Transfers(TR!Next)]_MCVars

\* The fairness of MultiProcess and of Transfer.
MCFairSpec ==
    /\ MCSpec
    /\ WF_MCVars(Server(LoopStep)) /\ WF_MCVars(Server(PoolStep)) /\ WF_MCVars(Server(StreamStep))
    /\ WF_MCVars(Server(WorkerStep)) /\ WF_MCVars(Server(SchedulerStep))
    /\ \A j \in 1..MaxJobs :
        WF_MCVars(Transfers(j \in TR!Jobs /\ (TR!Sender(j) \/ TR!Asker(j) \/ TR!Consume(j))))
    /\ WF_MCVars(Transfers(\E e \in TR!Engines : TR!Channel(e)))
    /\ WF_MCVars(Transfers(TR!Decoder)) /\ WF_MCVars(Transfers(TR!Retriever))
    /\ WF_MCVars(Transfers(TR!Peer))

Prompts(p, q) == (r1 :> p) @@ (r2 :> q)
Plain == [ws |-> 1, cap |-> 2, pool |-> 1, may |-> {}, had |-> {},
         prompt |-> Prompts(<<c1>>, <<c1>>)]

\* Two chunks of room, stores that evict while another request's hits wait;
\* two pool threads; two workers; each disturbance in turn; several stores of
\* one request, and one store of several requests.
AllModes == {
    [Plain EXCEPT !.had = {c1, c2}, !.prompt = Prompts(<<c1, c2>>, <<c3>>)],
    [Plain EXCEPT !.had = {c1}, !.pool = 2, !.prompt = Prompts(<<c1, c2>>, <<c2>>)],
    [Plain EXCEPT !.ws = 2, !.cap = 3, !.had = {c1}, !.prompt = Prompts(<<c1, c2>>, <<>>)],
    [Plain EXCEPT !.cap = 1, !.may = {"ttl", "abort"}, !.had = {c1},
                 !.prompt = Prompts(<<c1>>, <<c2>>)],
    [Plain EXCEPT !.may = {"clear", "http"}, !.had = {c1}],
    [Plain EXCEPT !.may = {"leave"}, !.had = {c1}, !.prompt = Prompts(<<c1, c2>>, <<>>)],
    [Plain EXCEPT !.may = {"steps"}, !.cap = 3, !.prompt = Prompts(<<c1, c2>>, <<>>)],
    [Plain EXCEPT !.may = {"batch"}, !.prompt = Prompts(<<c1>>, <<c2>>)]}

Push(e, puts) == [by |-> e, op |-> "push", puts |-> puts, n |-> 0]
Get(ks, n) == [by |-> 1, op |-> "get", puts |-> <<ks>>, n |-> n]
Move(ks) == [by |-> 1, op |-> "move", puts |-> <<ks>>, n |-> Len(ks)]
PD(cap, jobs, may) ==
    [kind |-> "pd", rounds |-> <<"init", "mem">>, cap |-> cap, tries |-> 1,
     held |-> {}, jobs |-> jobs, may |-> may]
P2P(rounds, cap, tries, has, jobs, may) ==
    [kind |-> "p2p", rounds |-> rounds, cap |-> cap, tries |-> tries,
     held |-> has, jobs |-> jobs, may |-> may]
Nixl == <<"init", "mem", "side">>
PySocket == <<"init", "side">>

\* Two prefill engines that share a prefix; one that sends in two puts; a
\* buffer too small for two half-sent requests.
PDModes ==
    {PD(3, <<Push(1, <<<<"a">>, <<"b">>>>), Push(2, <<<<"a", "c">>>>)>>, {"err"}),
     PD(2, <<Push(1, <<<<"a">>, <<"b">>>>), Push(2, <<<<"c">>, <<"d">>>>)>>, {}),
     PD(2, <<Push(1, <<<<"a", "b">>>>), Push(2, <<<<"a">>>>), Push(1, <<<<"a", "c">>>>)>>, {})}
\* Two gets of one engine, of chunks the peer may lack; a peer that is slow, or
\* restarts, or loses chunks by force; gets that wait for each other's pages; a move
\* beside a get.
P2PModes ==
    {P2P(Nixl, 3, 2, {"a", "b"}, <<Get(<<"a", "b">>, 2), Get(<<"a", "c">>, 2)>>, {"slow"}),
     P2P(PySocket, 2, 2, {"a", "b"}, <<Get(<<"b">>, 1), Get(<<"a">>, 1)>>, {"restart", "err"}),
     P2P(Nixl, 4, 1, {"a", "b"}, <<Get(<<"a", "b">>, 2), Get(<<"c">>, 0)>>, {"force", "err"}),
     P2P(PySocket, 2, 1, {"a", "b"}, <<Get(<<"a", "b">>, 2), Get(<<"b">>, 1)>>, {}),
     P2P(Nixl, 3, 1, {"a"}, <<Get(<<"a">>, 1), Move(<<"a", "d">>)>>, {"restart", "err"})}
AllDeployments == PDModes \cup P2PModes
-----------------------------------------------------------------------------
(* Properties.                                                               *)

\* pd_backend.py, p2p_backend.py: both sides load what was stored, a page has as
\* many references as requests entitled to it, and no pin is left at the peer.
TransferSafe == TR!TransferSafe

\* Every request between engines ends, unless the pages are used up by requests
\* that cannot finish, or a handshake, which has no timeout, lost its peer.
Ends == []<>(part = "server" \/ TR!EndedOrStarved)

\* Every request of the multi-process adapter ends.
AdapterFrees == []<>(part = "transfer" \/ Ended)
=============================================================================
