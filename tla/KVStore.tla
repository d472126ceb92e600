------------------------------ MODULE KVStore ------------------------------
(***************************************************************************)
(* What RemoteBackend promises to the engine, whatever the connector: a    *)
(* store that may forget a chunk at any time, but that answers a load of   *)
(* consecutive chunks with a prefix of them, each one whole, under its own *)
(* position, and present in the store at some moment since the load began. *)
(***************************************************************************)
EXTENDS Integers, Sequences, FiniteSets

CONSTANT NumKeys          \* the chunks of one prompt, in order: 1..NumKeys

VARIABLES
    stored,      \* chunks in the store
    live,        \* chunks that were in the store since the load began
    begun,       \* the load has begun
    answer       \* what it was given: <<>> until then

Keys == 1..NumKeys
kvars == <<stored, live, begun, answer>>

Init ==
    /\ stored \subseteq Keys
    /\ live = {} /\ begun = FALSE /\ answer = <<>>

\* A put that becomes visible.
Put(k) ==
    /\ stored' = stored \cup {k}
    /\ live' = IF begun THEN live \cup {k} ELSE live
    /\ UNCHANGED <<begun, answer>>

\* An eviction, a removal, or a put that starts the entry over.
Lose(k) ==
    /\ stored' = stored \ {k}
    /\ UNCHANGED <<live, begun, answer>>

Begin ==
    /\ ~begun
    /\ begun' = TRUE
    /\ live' = stored
    /\ UNCHANGED <<stored, answer>>

\* The load returns its first n chunks.
Answer(n) ==
    /\ begun /\ answer = <<>>
    /\ 1..n \subseteq live
    /\ answer' = [i \in 1..n |-> i]
    /\ UNCHANGED <<stored, live, begun>>

Next ==
    \/ \E k \in Keys : Put(k) \/ Lose(k)
    \/ Begin
    \/ \E n \in Keys : Answer(n)

Spec == Init /\ [][Next]_kvars
=============================================================================
