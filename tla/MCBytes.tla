------------------------------- MODULE MCBytes -------------------------------
(* Where the bytes of a chunk are: the address space they are allocated in,  *)
(* the CUDA streams that copy them and the streams of CacheGen that encode   *)
(* them.  A behaviour is one of one part; the state of the others stays as   *)
(* it is.                                                                    *)
EXTENDS AddressManager

CONSTANTS
    NumLayers, Runs,                          \* of LayerStreams
    MaxTokens, ChunkSize, Channels, Plans     \* of CacheGen

VARIABLES
    part,
    run, todo, queue, issued, mem, tmpOf, loose, taken, badReads, badPuts, strayed,
    plan, round, stage, at, output, chunks, buffer, owned, refs, page, sent, result, fetched

streamVars == <<run, todo, queue, issued, mem, tmpOf, loose, taken, badReads, badPuts,
                strayed>>
serdeVars == <<plan, round, stage, at, output, chunks, buffer, owned, refs, page, sent, result,
               fetched>>

LS == INSTANCE LayerStreams
CG == INSTANCE CacheGen

\* A pass that does nothing, and a chunk of one token, for the parts at rest.
R(kind, use_gpu, where, passes) ==
    [kind |-> kind, use_gpu |-> use_gpu, where |-> where, passes |-> passes]
NoRun == R("v2", FALSE, "hot", <<>>)
NoPlan == [serde |-> "naive", layer |-> 1, tensors |-> << << << <<1, 1>> >>, << <<1, 1>> >> >> >>]

MCInit ==
    /\ part \in {"addresses", "streams", "serde"}
    /\ Init
    /\ (IF part = "streams" THEN TRUE ELSE run = NoRun) /\ LS!Init
    /\ (IF part = "serde" THEN TRUE ELSE plan = NoPlan) /\ CG!Init
MCNext ==
    \/ part = "addresses" /\ Next /\ UNCHANGED <<part, streamVars, serdeVars>>
    \/ part = "streams" /\ LS!Next /\ UNCHANGED <<part, vars, serdeVars>>
    \/ part = "serde" /\ CG!Next /\ UNCHANGED <<part, vars, streamVars>>
MCSpec == MCInit /\ [][MCNext]_<<part, vars, streamVars, serdeVars>>

\* One or two forward passes of every connector.
P(load, save) == [load |-> load, save |-> save]
AllRuns ==
    {NoRun}
    \cup {R(k, g, w, ps) : k \in {"paged", "sgl"}, g \in BOOLEAN, w \in {"hot", "remote"},
        ps \in { <<P(<<1, 2>>, <<3>>)>>, <<P(<<>>, <<3, 4>>), P(<<1>>, <<>>)>> }}
    \cup {R("paged", TRUE, "hot", <<P(<<>>, <<0, 4>>), P(<<1>>, <<>>)>>)}
    \cup {R("buffer", TRUE, w, <<P(<<1, 2>>, <<3, 4>>)>>) : w \in {"hot", "remote"}}
    \cup {R(k, g, w, <<P(<<1, 2>>, <<3, 4>>)>>) :
             k \in {"v2", "v3", "sglwhole", "xpu"}, g \in BOOLEAN, w \in {"hot", "remote"}}
    \cup {R("v2", TRUE, "cuda", <<P(<<>>, <<3, 4>>)>>)}

\* Two chunks after each other through the same buffers; the value of a layer
\* holds the key's tokens with their channels swapped.
WithValue(k) == <<k, [t \in DOMAIN k |-> <<k[t][2], k[t][1]>>]>>
Keys(n, V) == [1..n -> V \X V]
AllPlans ==
    {[serde |-> "cachegen", layer |-> l, tensors |-> <<WithValue(a), WithValue(b)>>] :
        l \in {1, 2, 10}, a \in Keys(3, {-3, 0, 2}),
        b \in {<<<<1, 0>>>>, <<<<0, 0>>, <<5, -4>>>>}}
    \cup {[serde |-> s, layer |-> 1, tensors |-> <<WithValue(a)>>] :
        s \in {"naive", "kivi"}, a \in Keys(1, {1})}
-----------------------------------------------------------------------------
(* Properties.                                                               *)

\* gpu_connector.py: in every order in which the CUDA streams may run, but those in
\* which a load goes by an index tensor that is not filled yet, attention reads the blocks that were loaded, a published page is complete, no late copy
\* hits a page with a new owner and no temporary buffer is lost.
StreamsSafe == LS!StreamsSafe

\* cachegen_encoder.py, cachegen_decoder.py, remote_backend.py: a chunk that is
\* put and read back differs by half a quantization step at most, and the
\* references of its page balance.
SerdeSafe == CG!SerdeSafe
=============================================================================
