------------------------ MODULE RemoteConnectorsProofs ------------------------
(***************************************************************************)
(* Proofs about the remote connectors, for any number of chunks and any    *)
(* set of connectors and configurations: what is stored under a key and    *)
(* handed to a load is that chunk, buffers of the pool have one holder,    *)
(* and every connector implements KVStore.                                 *)
(***************************************************************************)
EXTENDS RemoteConnectors, DictionaryProofs

\* save_chunk_meta is on unless it is switched off (base_connector.py); without
\* the header a file that was read while it was written passes for a chunk.
HeadersKept == \A m \in Modes : m.kind = "fs" => m.meta

Engines == {"us", "peer"}
Contents == Keys \cup {None, Torn}
\* The steps of a get before it has a buffer, while it fills it, and after.
Early == {"meta", "open", "size", "both", "lease", "token", "alloc", "unsupported"}
Filling == {"copy", "data"}
After == {"unlease", "untoken"}

Types ==
    /\ mode \in Modes
    /\ data \in [Keys -> Contents] /\ tmp \in [Keys -> Contents]
    /\ meta \in [Keys -> BOOLEAN]
    /\ lag \in [Keys -> [meta: BOOLEAN, data: Contents]]
    /\ mem \in [Bufs -> Contents]
    /\ free \subseteq Bufs /\ given \subseteq Bufs
    /\ put \in [Engines -> [Keys -> [pc: -1..3, buf: 0..mode.bufs, own: BOOLEAN]]]
    /\ load \in {"idle", "lookup", "load", "done"} /\ pos \in 1..NumKeys + 1
    /\ get \in [Keys -> [pc: 1..5, buf: 0..mode.bufs, val: Contents,
                         out: {"idle", "run", "asleep", "ok", "none", "raise", "repair"}]]
    /\ late \subseteq Keys

\* What a store, a file or a get may have of chunk k.
Right(k, d) == d \in {None, k} \/ (d = Torn /\ mode.kind = "fs")
StoreRight ==
    \A k \in Keys \ late : Right(k, data[k]) /\ Right(k, tmp[k]) /\ Right(k, lag[k].data)

LiveRight ==
    /\ live \subseteq Keys
    /\ IF load = "idle" THEN live = {} ELSE Stored \subseteq live

\* A put of this engine owns the buffer of its chunk until it ends.
PutRight(k) ==
    /\ ~put["peer"][k].own /\ put["peer"][k].buf = 0
    /\ Running("us", k) => put["us"][k].buf \in Bufs /\ (k \notin late => put["us"][k].own)
    /\ put["us"][k].own => Running("us", k) /\ mem[put["us"][k].buf] = k

\* A get has a buffer from its allocation until the load gives it away.
Filled(k) == GetStep(k) \in After \/ (load = "load" /\ Ok(k))
Holds(k) == GetStep(k) \in Filling \/ Filled(k)
GetRight(k) ==
    /\ get[k].out = "idle" => get[k] = [pc |-> 1, buf |-> 0, val |-> None, out |-> "idle"]
    /\ get[k].out # "idle" => load \in {"load", "done"} /\ k < pos
    /\ get[k].out = "run" => get[k].pc \in 1..Len(GetProgram)
    /\ get[k].out = "asleep" => /\ get[k].pc \in 1..Len(GetProgram) /\ get[k].buf = 0
                                /\ GetProgram[get[k].pc] = "alloc"
    /\ GetStep(k) \in Early => get[k].buf = 0
    /\ Holds(k) => get[k].buf \in Bufs
    /\ k \notin late => /\ Right(k, get[k].val)
                        /\ get[k].val = k => k \in live
                        /\ Filled(k) => mem[get[k].buf] = k /\ k \in live

\* No buffer has two holders.
Apart ==
    /\ free \cap given = {}
    /\ \A k \in Keys : put["us"][k].own =>
          /\ put["us"][k].buf \notin free \cup given
          /\ \A j \in Keys \ {k} : put["us"][j].own => put["us"][j].buf # put["us"][k].buf
    /\ \A k \in Keys : Holds(k) =>
          /\ get[k].buf \notin free \cup given
          /\ \A j \in Keys \ {k} : Holds(j) => get[j].buf # get[k].buf
          /\ \A j \in Keys : put["us"][j].own => put["us"][j].buf # get[k].buf

LoadRight ==
    /\ load # "done" => answer = <<>>
    /\ load \in {"idle", "lookup"} => pos \in Keys

IInv ==
    /\ Types /\ StoreRight /\ LiveRight /\ LoadRight /\ Apart
    /\ \A k \in Keys : PutRight(k) /\ GetRight(k)

-----------------------------------------------------------------------------
(* The programs.                                                             *)

Steps == Early \cup Filling \cup After

\* The requests of a get: up to its allocation it has no buffer, the content comes
\* next, and what follows the content gives back a lease or a token.
LEMMA GetFollows ==
    ASSUME mode \in Modes
    PROVE  /\ GetProgram \in Seq(Steps) /\ Len(GetProgram) \in 1..5 /\ GetProgram[1] \in Early
           /\ \A pc \in 1..Len(GetProgram) :
                /\ GetProgram[pc] \in Early \ {"unsupported"} =>
                      /\ pc < Len(GetProgram)
                      /\ IF GetProgram[pc] = "alloc" THEN GetProgram[pc + 1] \in Filling
                         ELSE GetProgram[pc + 1] \in Early \ {"unsupported"}
                /\ GetProgram[pc] \in Filling /\ pc # Len(GetProgram) =>
                      GetProgram[pc + 1] \in After
                /\ GetProgram[pc] \in After => pc = Len(GetProgram)
<1>1. mode.kind \in Kinds
  BY ConnectorAssumption DEF ModeType
<1>2. GetProgram \in {RedisGet, ClusterGet, SentinelGet, ValkeyGet, EICGet, FSGet, LMGet, S3Get,
                      InfinistoreGet, SageMakerGet, <<"alloc", "data">>, <<"unsupported">>}
  BY <1>1 DEF GetProgram, Is, Kinds, MooncakeGet
<1> DEFINE Shape(p) ==
      /\ p \in Seq(Steps) /\ Len(p) \in 1..5 /\ p[1] \in Early
      /\ \A pc \in 1..Len(p) :
            /\ p[pc] \in Early \ {"unsupported"} =>
                  /\ pc < Len(p)
                  /\ IF p[pc] = "alloc" THEN p[pc + 1] \in Filling
                     ELSE p[pc + 1] \in Early \ {"unsupported"}
            /\ p[pc] \in Filling /\ pc # Len(p) => p[pc + 1] \in After
            /\ p[pc] \in After => pc = Len(p)
<1> USE DEF Steps, Early, Filling, After
<1>3. Shape(RedisGet) /\ Shape(ClusterGet) /\ Shape(SentinelGet) /\ Shape(EICGet)
  BY DEF RedisGet, ClusterGet, SentinelGet, EICGet
<1>4. Shape(ValkeyGet) /\ Shape(LMGet)
  BY DEF ValkeyGet, LMGet
<1>5. Shape(FSGet) /\ Shape(S3Get)
  BY DEF FSGet, S3Get
<1>6. Shape(InfinistoreGet)
  BY DEF InfinistoreGet
<1>7. Shape(SageMakerGet)
  BY DEF SageMakerGet
<1>8. Shape(<<"alloc", "data">>) /\ Shape(<<"unsupported">>)
  OBVIOUS
<1> HIDE DEF Shape, Steps, Early, Filling, After
<1>9. Shape(GetProgram)
  BY <1>2, <1>3, <1>4, <1>5, <1>6, <1>7, <1>8
<1> QED BY <1>9 DEF Shape

\* Only fs has a temporary file.
LEMMA PutFollows ==
    ASSUME mode \in Modes
    PROVE  /\ Len(PutProgram) \in 1..3
           /\ \A pc \in 1..Len(PutProgram) :
                PutProgram[pc] \in {"tmp", "fill", "publish"} => mode.kind = "fs"
<1>1. mode.kind \in Kinds
  BY ConnectorAssumption DEF ModeType
<1>2. CASE mode.kind = "fs"
  BY <1>2 DEF PutProgram, Is, FSPut
<1>3. CASE mode.kind # "fs"
  <2>1. PutProgram \in {RedisPut, ClusterPut, SentinelPut, ValkeyPut, EICPut, LMPut, S3Put,
                        InfinistorePut, SageMakerPut, MooncakePut}
    BY <1>1, <1>3 DEF PutProgram, Is, Kinds
  <2> QED BY <2>1 DEF RedisPut, ClusterPut, SentinelPut, ValkeyPut, EICPut, LMPut, S3Put,
                     InfinistorePut, SageMakerPut, MooncakePut
<1> QED BY <1>2, <1>3

\* The configuration does not change, and the programs with it.
LEMMA SameMode ==
    ASSUME mode' = mode
    PROVE  /\ GetProgram' = GetProgram /\ PutProgram' = PutProgram /\ Bufs' = Bufs
           /\ (\A k, d : Right(k, d)' <=> Right(k, d))
  BY DEF GetProgram, PutProgram, Bufs, Right, Is, RedisGet, ClusterGet, SentinelGet, ValkeyGet,
         EICGet, FSGet, LMGet, S3Get, InfinistoreGet, SageMakerGet, MooncakeGet, RedisPut,
         ClusterPut, SentinelPut, ValkeyPut, EICPut, FSPut, LMPut, S3Put, InfinistorePut,
         SageMakerPut, MooncakePut

-----------------------------------------------------------------------------
(* What the steps share.                                                     *)

LEMMA Initially ==
    ASSUME Init
    PROVE  IInv
<1> USE DEF Init, Bufs
<1>1. mode \in ModeType /\ 1 \in Keys /\ mode.bufs \in Nat \ {0} /\ mode.had \in SUBSET Keys
  BY ConnectorAssumption DEF Keys, ModeType
<1>2. Types
  <2>1. mode \in Modes /\ None \in Contents /\ Keys \subseteq Contents
    BY DEF Contents
  <2>2. /\ meta \in [Keys -> BOOLEAN] /\ data \in [Keys -> Contents] /\ tmp \in [Keys -> Contents]
        /\ mem \in [Bufs -> Contents]
    BY <2>1
  <2>3. lag \in [Keys -> [meta: BOOLEAN, data: Contents]]
    BY <2>2
  <2>4. put \in [Engines -> [Keys -> [pc: -1..3, buf: 0..mode.bufs, own: BOOLEAN]]]
    BY <1>1 DEF Engines
  <2>5. get \in [Keys -> [pc: 1..5, buf: 0..mode.bufs, val: Contents,
                         out: {"idle", "run", "asleep", "ok", "none", "raise", "repair"}]]
    BY <1>1, <2>1
  <2>6. 1 \in 1..NumKeys + 1
    BY ConnectorAssumption
  <2> QED BY <2>1, <2>2, <2>3, <2>4, <2>5, <2>6 DEF Types
<1>3. StoreRight
  BY DEF StoreRight, Right
<1>4. LiveRight /\ LoadRight
  BY <1>1 DEF LiveRight, LoadRight
<1>5. ASSUME NEW k \in Keys
      PROVE  /\ PutRight(k) /\ ~put["us"][k].own
             /\ GetRight(k) /\ ~Holds(k)
  <2>1. GetStep(k) = "none" /\ ~Filled(k) /\ ~Holds(k)
    BY <1>5 DEF GetStep, Filled, Holds, After, Filling, Ok
  <2>2. PutRight(k) /\ ~put["us"][k].own
    BY <1>5 DEF PutRight, Running
  <2> QED BY <1>5, <2>1, <2>2 DEF GetRight, Right, Early, None, Keys
<1>6. Apart
  BY <1>5 DEF Apart
<1> QED BY <1>2, <1>3, <1>4, <1>5, <1>6 DEF IInv

\* live only grows, and has what is in the store once the load has begun.
LEMMA LiveKept ==
    ASSUME IInv, Track, load' = "idle" => load = "idle"
    PROVE  LiveRight' /\ live \subseteq live' /\ (load' # "idle" => Stored' \subseteq live')
  BY DEF IInv, LiveRight, Track, Stored

\* The content of the store is not touched.
LEMMA StoreKept ==
    ASSUME IInv, mode' = mode, data' = data, tmp' = tmp, lag' = lag, late \subseteq late'
    PROVE  StoreRight'
<1> QED BY SameMode DEF IInv, StoreRight

\* What a step leaves of a get and of a put.
LEMMA GetKept ==
    ASSUME mode' = mode, NEW j \in Keys, get'[j] = get[j], load' = load
    PROVE  GetStep(j)' = GetStep(j) /\ (Filled(j)' <=> Filled(j)) /\ (Holds(j)' <=> Holds(j))
  BY SameMode DEF GetStep, Filled, Holds, Ok

LEMMA PutKept ==
    ASSUME mode' = mode, NEW i \in Engines, NEW j \in Keys, put'[i][j] = put[i][j]
    PROVE  Running(i, j)' <=> Running(i, j)
  BY SameMode DEF Running

\* A get of one chunk moves: the others and the puts keep what they have, if it
\* takes a buffer from the free ones, keeps its own or gives it back.
LEMMA OthersKept ==
    ASSUME IInv, mode' = mode, put' = put, load' = load, pos' = pos, given' = given,
           live \subseteq live', late \subseteq late', NEW k \in Keys,
           \A j \in Keys \ {k} : get'[j] = get[j],
           \A b \in Bufs : mem'[b] = mem[b] \/ (b = get[k].buf /\ Holds(k)),
           GetRight(k)',
           \/ free' = free /\ (Holds(k)' => Holds(k) /\ get'[k].buf = get[k].buf)
           \/ free' = free \ {get'[k].buf} /\ get'[k].buf \in free
           \/ free' = free \cup {get[k].buf} /\ Holds(k) /\ ~Holds(k)'
    PROVE  Apart' /\ \A j \in Keys : PutRight(j)' /\ GetRight(j)'
<1>1. \A j \in Keys \ {k} : GetStep(j)' = GetStep(j) /\ (Filled(j)' <=> Filled(j))
                            /\ (Holds(j)' <=> Holds(j))
  BY GetKept
<1>2. Bufs' = Bufs /\ GetProgram' = GetProgram /\ (\A j, d : Right(j, d)' <=> Right(j, d))
  BY SameMode
<1>3. ASSUME NEW j \in Keys
      PROVE  PutRight(j)'
  <2>1. Running("us", j)' <=> Running("us", j)
    BY PutKept, <1>3 DEF Engines
  <2>2. put["us"][j].own => put["us"][j].buf # get[k].buf \/ ~Holds(k)
    BY <1>3 DEF IInv, Apart
  <2> QED BY <2>1, <2>2, <1>2, <1>3 DEF IInv, PutRight
<1>4. ASSUME NEW j \in Keys \ {k}
      PROVE  GetRight(j)'
  <2>1. GetRight(j) /\ (Holds(j) => get[j].buf # get[k].buf \/ ~Holds(k))
    BY <1>4 DEF IInv, Apart
  <2>2. Filled(j) => mem'[get[j].buf] = mem[get[j].buf]
    BY <2>1 DEF GetRight, Holds
  <2> QED BY <2>1, <2>2, <1>1, <1>2, <1>4 DEF GetRight
<1>5. Apart'
  <2>1. free \cap given = {} /\ free \subseteq Bufs
    BY DEF IInv, Apart, Types
  <2>2. (free \cap given)' = {}
    BY <2>1 DEF IInv, Apart
  <2>3. ASSUME NEW j \in Keys, put["us"][j].own
        PROVE  put["us"][j].buf \notin (free \cup given)' /\ (Holds(k)' => put["us"][j].buf # get'[k].buf)
    BY <2>3 DEF IInv, Apart
  <2>4. ASSUME NEW j \in Keys \ {k}, Holds(j)
        PROVE  get[j].buf \notin (free \cup given)' /\ (Holds(k)' => get[j].buf # get'[k].buf)
    BY <2>4 DEF IInv, Apart
  <2>5. ASSUME Holds(k)'
        PROVE  get'[k].buf \notin (free \cup given)'
    BY <2>5, <2>1 DEF IInv, Apart
  <2> QED BY <2>2, <2>3, <2>4, <2>5, <1>1 DEF IInv, Apart
<1> QED BY <1>3, <1>4, <1>5

-----------------------------------------------------------------------------
(* The puts.                                                                 *)

\* The gets and the buffers stay as they are when puts only give buffers up.
LEMMA GivenUp ==
    ASSUME IInv, mode' = mode, mem' = mem, get' = get, load' = load, pos' = pos, given' = given,
           late \subseteq late', live \subseteq live',
           NEW S \in SUBSET Keys,
           \A j \in S : put["us"][j].own /\ ~put'["us"][j].own,
           free' = free \cup {put["us"][j].buf : j \in S},
           \A j \in Keys : put'["us"][j].own => put["us"][j].own /\ put'["us"][j].buf = put["us"][j].buf
    PROVE  Apart' /\ (\A j \in Keys : GetRight(j)') /\ free' \subseteq Bufs'
<1>1. \A j \in Keys : GetStep(j)' = GetStep(j) /\ (Filled(j)' <=> Filled(j))
                      /\ (Holds(j)' <=> Holds(j))
  BY GetKept
<1>2. Bufs' = Bufs /\ GetProgram' = GetProgram /\ (\A j, d : Right(j, d)' <=> Right(j, d))
  BY SameMode
<1>3. ASSUME NEW j \in Keys
      PROVE  GetRight(j)'
  BY <1>1, <1>2, <1>3 DEF IInv, GetRight
<1>4. \A j \in S : put["us"][j].buf \in Bufs
  BY DEF IInv, PutRight
<1>5. free' \subseteq Bufs'
  BY <1>2, <1>4 DEF IInv, Types
<1>6. Apart'
  <2>1. (free \cap given)' = {}
    BY DEF IInv, Apart
  <2>2. ASSUME NEW j \in Keys, put'["us"][j].own
        PROVE  put["us"][j].buf \notin (free \cup given)'
    BY <2>2 DEF IInv, Apart
  <2>3. ASSUME NEW j \in Keys, Holds(j)
        PROVE  get[j].buf \notin (free \cup given)'
    BY <2>3 DEF IInv, Apart
  <2> QED BY <2>1, <2>2, <2>3, <1>1 DEF IInv, Apart
<1> QED BY <1>3, <1>5, <1>6

PutType == [pc: -1..3, buf: 0..mode.bufs, own: BOOLEAN]

\* The update of one put.
LEMMA SetPut ==
    ASSUME NEW E, NEW K, NEW T, NEW f \in [E -> [K -> T]], NEW i \in E, NEW k \in K,
           NEW v \in T, NEW g, g = [f EXCEPT ![i][k] = v]
    PROVE  /\ g \in [E -> [K -> T]] /\ g[i][k] = v
           /\ \A x \in E, j \in K : <<x, j>> # <<i, k>> => g[x][j] = f[x][j]
  OBVIOUS

\* A put makes its next request, or ends.
LEMMA PutMoves ==
    ASSUME IInv, mode' = mode, mem' = mem, get' = get, load' = load, pos' = pos, given' = given,
           late' = late, live \subseteq live', NEW i \in Engines, NEW k \in Keys, Running(i, k),
           PutAdvance(i, k) \/ EndPut(i, k)
    PROVE  /\ Apart' /\ (\A j \in Keys : GetRight(j)' /\ PutRight(j)')
           /\ free' \subseteq Bufs' /\ put' \in [Engines -> [Keys -> PutType']]
<1>0. /\ put \in [Engines -> [Keys -> PutType]] /\ Len(PutProgram) \in 1..3
      /\ put[i][k].pc \in 1..Len(PutProgram) /\ PutType' = PutType
  BY PutFollows DEF IInv, Types, PutType, Running
<1>1. Bufs' = Bufs /\ PutProgram' = PutProgram
  BY SameMode
<1> DEFINE ended == put[i][k].pc = Len(PutProgram) \/ EndPut(i, k)
           S == IF ended /\ i = "us" /\ put[i][k].own THEN {k} ELSE {}
<1>2. /\ \A x \in Engines, j \in Keys : <<x, j>> # <<i, k>> => put'[x][j] = put[x][j]
      /\ put' \in [Engines -> [Keys -> PutType]] /\ put'[i][k].buf = put[i][k].buf
      /\ IF ended THEN put'[i][k].pc = -1 /\ ~put'[i][k].own
         ELSE put'[i][k].pc = put[i][k].pc + 1 /\ put'[i][k].own = put[i][k].own
  <2>1. put[i][k] \in PutType
    BY <1>0
  <2>2. PICK v : v = IF ended THEN Over(put[i][k])
                     ELSE [pc |-> put[i][k].pc + 1, buf |-> put[i][k].buf, own |-> put[i][k].own]
    OBVIOUS
  <2>3. put' = [put EXCEPT ![i][k] = v]
    <3>1. CASE ended
      BY <2>2, <3>1 DEF PutAdvance, EndPut
    <3>2. CASE ~ended
      <4>1. put' = [put EXCEPT ![i][k].pc = put[i][k].pc + 1]
        BY <3>2 DEF PutAdvance
      <4>2. v = [put[i][k] EXCEPT !.pc = put[i][k].pc + 1]
        BY <2>1, <2>2, <3>2 DEF PutType
      <4> QED BY <4>1, <4>2
    <3> QED BY <3>1, <3>2
  <2>4. /\ v \in PutType /\ v.buf = put[i][k].buf
        /\ IF ended THEN v.pc = -1 /\ ~v.own ELSE v.pc = put[i][k].pc + 1 /\ v.own = put[i][k].own
    <3>1. CASE ended
      BY <2>1, <2>2, <3>1 DEF Over, PutType
    <3>2. CASE ~ended
      <4>1. put[i][k].pc + 1 \in -1..3
        <5>1. PICK n, pc : n = Len(PutProgram) /\ pc = put[i][k].pc
          OBVIOUS
        <5>2. n \in 1..3 /\ pc \in 1..n /\ pc # n
          BY <1>0, <3>2, <5>1
        <5>3. pc + 1 \in -1..3
          BY ONLY <5>2
        <5> QED BY <5>1, <5>3
      <4> HIDE DEF ended
      <4> QED BY <2>1, <2>2, <3>2, <4>1 DEF PutType
    <3> QED BY <3>1, <3>2
  <2> HIDE DEF ended
  <2>5. /\ put' \in [Engines -> [Keys -> PutType]] /\ put'[i][k] = v
        /\ \A x \in Engines, j \in Keys : <<x, j>> # <<i, k>> => put'[x][j] = put[x][j]
    BY <1>0, <2>3, <2>4, SetPut
  <2> QED BY <2>4, <2>5
<1>3. free' = free \cup {put["us"][j].buf : j \in S}
  <2>1. ~put["peer"][k].own
    BY DEF IInv, PutRight
  <2>2. IF ended THEN free' = free \cup {put[i][j].buf : j \in {x \in {k} : put[i][x].own}}
        ELSE free' = free
    BY DEF PutAdvance, EndPut, GiveUp
  <2> QED BY <2>1, <2>2 DEF Engines
<1>4. \A j \in S : put["us"][j].own /\ ~put'["us"][j].own
  BY <1>2
<1>5. \A j \in Keys : put'["us"][j].own => put["us"][j].own /\ put'["us"][j].buf = put["us"][j].buf
  BY <1>2 DEF Engines
<1>6. Apart' /\ (\A j \in Keys : GetRight(j)') /\ free' \subseteq Bufs'
  <2> HIDE DEF S
  <2>1. S \in SUBSET Keys
    BY DEF S
  <2> QED BY <2>1, <1>3, <1>4, <1>5, GivenUp
<1>7. ASSUME NEW j \in Keys
      PROVE  PutRight(j)'
  <2>1. PutRight(j) /\ "us" \in Engines /\ "peer" \in Engines
    BY DEF IInv, Engines
  <2>2. CASE j # k \/ i = "peer"
    <3>1. put'["us"][j] = put["us"][j] /\ (Running("us", j)' <=> Running("us", j))
      BY <1>2, <2>1, <2>2, PutKept DEF Engines
    <3>2. put'["peer"][j].buf = 0 /\ ~put'["peer"][j].own
      BY <1>2, <2>1 DEF PutRight, Engines
    <3> QED BY <3>1, <3>2, <2>1, <1>1 DEF PutRight
  <2>3. CASE j = k /\ i = "us"
    <3>1. put'["peer"][j] = put["peer"][j]
      BY <1>2, <2>3 DEF Engines
    <3>2. IF ended THEN ~Running("us", j)' ELSE Running("us", j)'
      BY <1>0, <1>1, <1>2, <2>3 DEF Running
    <3> QED BY <3>1, <3>2, <2>1, <2>3, <1>1, <1>2 DEF PutRight, Running
  <2> QED BY <2>2, <2>3 DEF Engines
<1> QED BY <1>0, <1>2, <1>6, <1>7

\* What a put writes: its chunk, as long as it has its buffer.
LEMMA ContentRight ==
    ASSUME IInv, NEW i \in Engines, NEW k \in Keys, Running(i, k)
    PROVE  Content(i, k) \in Contents /\ (k \notin late => Content(i, k) = k)
<1>1. PutRight(k) /\ put[i][k].buf \in 0..mode.bufs /\ mem \in [Bufs -> Contents] /\ k \in Contents
  BY DEF IInv, Types, Contents
<1>2. CASE i = "us"
  <2>1. put[i][k].buf \in Bufs /\ put[i][k].buf # 0
    BY <1>1, <1>2 DEF PutRight, Bufs
  <2> QED BY <1>1, <1>2, <2>1 DEF PutRight, Content
<1>3. CASE i = "peer"
  BY <1>1, <1>3 DEF PutRight, Content
<1> QED BY <1>2, <1>3 DEF Engines

\* A request of a put leaves the store right.
LEMMA PutDone ==
    ASSUME IInv, Track, mode' = mode, mem' = mem, late' = late, lag' = lag, UNCHANGED loading,
           NEW i \in Engines, NEW k \in Keys, Running(i, k), PutAdvance(i, k) \/ EndPut(i, k),
           meta' \in [Keys -> BOOLEAN],
           data' \in [Keys -> Contents], tmp' \in [Keys -> Contents],
           \A j \in Keys \ {k} : data'[j] = data[j] /\ tmp'[j] = tmp[j],
           k \notin late => Right(k, data'[k]) /\ Right(k, tmp'[k])
    PROVE  IInv'
<1>0. get' = get /\ load' = load /\ pos' = pos /\ given' = given /\ answer' = answer
  BY DEF loading
<1>1. LiveRight' /\ live \subseteq live'
  BY <1>0, LiveKept
<1>2. /\ Apart' /\ (\A j \in Keys : GetRight(j)' /\ PutRight(j)')
      /\ free' \subseteq Bufs' /\ put' \in [Engines -> [Keys -> PutType']]
  BY <1>0, <1>1, PutMoves
<1>3. Bufs' = Bufs /\ (\A j, d : Right(j, d)' <=> Right(j, d))
  BY SameMode
<1>4. StoreRight'
  BY <1>3 DEF IInv, StoreRight
<1>5. Types'
  BY <1>0, <1>2, <1>3 DEF IInv, Types, PutType
<1>6. LoadRight'
  BY <1>0 DEF IInv, LoadRight
<1> QED BY <1>1, <1>2, <1>4, <1>5, <1>6 DEF IInv

LEMMA PutRequests ==
    ASSUME IInv, Track, NEW i \in Engines, NEW k \in Keys,
           \/ PutData(i, k) \/ PutMeta(i, k) \/ PutWhole(i, k) \/ PutKeep(i, k)
           \/ PutUpload(i, k) \/ PutTmp(i, k) \/ PutFill(i, k) \/ PutPublish(i, k)
    PROVE  IInv'
<1>1. Running(i, k)
  BY DEF PutData, PutMeta, PutWhole, PutKeep, PutUpload, PutTmp, PutFill, PutPublish, PutStep
<1>2. /\ Content(i, k) \in Contents /\ (k \notin late => Content(i, k) = k)
      /\ None \in Contents /\ Torn \in Contents
      /\ data \in [Keys -> Contents] /\ tmp \in [Keys -> Contents] /\ meta \in [Keys -> BOOLEAN]
      /\ (k \notin late => Right(k, data[k]) /\ Right(k, tmp[k])) /\ Right(k, k) /\ Right(k, None)
  BY <1>1, ContentRight DEF IInv, Types, StoreRight, Contents, Right
<1>3. /\ mode' = mode /\ mem' = mem /\ late' = late /\ lag' = lag /\ UNCHANGED loading
      /\ PutAdvance(i, k) \/ EndPut(i, k)
  BY DEF PutData, PutMeta, PutWhole, PutKeep, PutUpload, PutTmp, PutFill, PutPublish
<1>4. meta' \in [Keys -> BOOLEAN]
  BY <1>2 DEF PutData, PutMeta, PutWhole, PutKeep, PutUpload, PutTmp, PutFill, PutPublish
<1>5. PutStep(i, k) \in {"tmp", "fill", "publish"} => mode.kind = "fs"
  BY <1>1, PutFollows DEF IInv, Types, PutStep, Running
<1>6. /\ data' \in [Keys -> Contents] /\ tmp' \in [Keys -> Contents]
      /\ \A j \in Keys \ {k} : data'[j] = data[j] /\ tmp'[j] = tmp[j]
      /\ k \notin late => Right(k, data'[k]) /\ Right(k, tmp'[k])
  <2>1. CASE PutData(i, k) \/ PutMeta(i, k) \/ PutWhole(i, k)
    BY <1>2, <2>1 DEF PutData, PutMeta, PutWhole
  <2>2. CASE PutKeep(i, k)
    BY <1>2, <2>2 DEF PutKeep
  <2>3. CASE PutUpload(i, k)
    BY <1>2, <2>3 DEF PutUpload
  <2>4. CASE PutTmp(i, k)
    BY <1>2, <1>5, <2>4 DEF PutTmp, Right
  <2>5. CASE PutFill(i, k)
    BY <1>2, <2>5 DEF PutFill
  <2>6. CASE PutPublish(i, k)
    BY <1>2, <2>6 DEF PutPublish
  <2> QED BY <2>1, <2>2, <2>3, <2>4, <2>5, <2>6
<1> QED BY <1>1, <1>3, <1>4, <1>6, PutDone

\* A put that fails, and one whose timeout expires, give their buffers up; the puts
\* that go on without a buffer are late.
LEMMA PutFailsRight ==
    ASSUME IInv, Track, NEW i \in Engines, NEW k \in Keys, PutFails(i, k)
    PROVE  IInv'
<1>0. /\ get' = get /\ load' = load /\ pos' = pos /\ given' = given /\ answer' = answer
      /\ mode' = mode /\ mem' = mem /\ lag' = lag /\ data' = data /\ meta' = meta /\ Running(i, k)
      /\ UNCHANGED loading
  BY DEF PutFails, loading
<1>1. LiveRight' /\ live \subseteq live'
  BY <1>0, LiveKept
<1>2. /\ tmp' \in [Keys -> Contents] /\ \A j \in Keys : tmp'[j] = tmp[j] \/ tmp'[j] = None
  <2>1. tmp \in [Keys -> Contents] /\ None \in Contents
    BY DEF IInv, Types, Contents
  <2> QED BY <2>1 DEF PutFails
<1>3. CASE Is({"eic", "valkey"}) /\ PutAdvance(i, k) /\ UNCHANGED late
  <2>1. PutAdvance(i, k) /\ late' = late /\ tmp' = tmp
    BY <1>3 DEF PutFails, Is
  <2>2. data' \in [Keys -> Contents] /\ meta' \in [Keys -> BOOLEAN]
        /\ (k \notin late => Right(k, data'[k]) /\ Right(k, tmp'[k]))
    BY <1>0, <2>1 DEF IInv, Types, StoreRight
  <2> QED BY <1>0, <1>2, <2>1, <2>2, PutDone
<1>4. CASE ~(Is({"eic", "valkey"}) /\ PutAdvance(i, k) /\ UNCHANGED late)
  <2> DEFINE sib == Siblings(i, k)
             S == IF i = "us" THEN {j \in {k} \cup sib : put["us"][j].own} ELSE {}
  <2>1. /\ put' = [put EXCEPT ![i] = [j \in Keys |->
                      IF j = k THEN Over(put[i][j])
                      ELSE IF j \in sib THEN Disowned(put[i][j]) ELSE put[i][j]]]
        /\ GiveUp(i, {k} \cup sib)
        /\ late' = IF i = "us" THEN late \cup sib ELSE late
    BY <1>4 DEF PutFails
  <2>2. sib \subseteq Keys \ {k}
    BY DEF Siblings
  <2>3. put \in [Engines -> [Keys -> PutType]] /\ PutType' = PutType /\ late \subseteq Keys
    BY <1>0 DEF IInv, Types, PutType
  <2> HIDE DEF sib
  <2>4. /\ \A x \in Engines \ {i}, j \in Keys : put'[x][j] = put[x][j]
        /\ \A j \in Keys : put'[i][j] = IF j = k THEN Over(put[i][j])
                                        ELSE IF j \in sib THEN Disowned(put[i][j]) ELSE put[i][j]
    BY <2>1, <2>3
  <2>5. \A j \in Keys : /\ Over(put[i][j]) \in PutType /\ Disowned(put[i][j]) \in PutType
                        /\ Over(put[i][j]).buf = put[i][j].buf /\ ~Over(put[i][j]).own
                        /\ Over(put[i][j]).pc = -1
                        /\ Disowned(put[i][j]).buf = put[i][j].buf /\ ~Disowned(put[i][j]).own
                        /\ Disowned(put[i][j]).pc = put[i][j].pc
    BY <2>3 DEF Over, Disowned, PutType
  <2>6. put' \in [Engines -> [Keys -> PutType]]
    BY <2>1, <2>3, <2>5
  <2>7. \A j \in Keys : ~put["peer"][j].own
    BY DEF IInv, PutRight
  <2>8. free' = free \cup {put["us"][j].buf : j \in S}
    BY <2>1, <2>2, <2>7 DEF GiveUp, Engines
  <2>9. /\ S \in SUBSET Keys
        /\ \A j \in S : put["us"][j].own /\ ~put'["us"][j].own
        /\ \A j \in Keys : put'["us"][j].own => put["us"][j].own /\ put'["us"][j].buf = put["us"][j].buf
    BY <2>2, <2>4, <2>5 DEF Engines
  <2>10. Apart' /\ (\A j \in Keys : GetRight(j)') /\ free' \subseteq Bufs'
    <3> HIDE DEF S
    <3>1. late \subseteq late'
      BY <2>1
    <3> QED BY <1>0, <1>1, <2>8, <2>9, <3>1, GivenUp
  <2>11. ASSUME NEW j \in Keys
         PROVE  PutRight(j)'
    <3>1. PutRight(j) /\ PutProgram' = PutProgram /\ Bufs' = Bufs
      BY <1>0, SameMode DEF IInv
    <3>2. CASE i = "peer"
      <4>1. put'["us"][j] = put["us"][j] /\ put'["peer"][j].buf = 0 /\ ~put'["peer"][j].own
        BY <2>4, <2>5, <3>1, <3>2 DEF PutRight, Engines
      <4> QED BY <4>1, <3>1, <1>0, <2>1 DEF PutRight, Running
    <3>3. CASE i = "us"
      <4>1. put'["peer"][j] = put["peer"][j]
        BY <2>4, <3>3 DEF Engines
      <4>2. CASE j = k
        <5>1. put'["us"][j].pc = -1 /\ ~put'["us"][j].own
          BY <2>4, <2>5, <3>3, <4>2
        <5>2. ~Running("us", j)'
          BY <5>1 DEF Running
        <5> QED BY <4>1, <5>1, <5>2, <3>1 DEF PutRight
      <4>3. CASE j \in sib
        <5>1. j \in late' /\ ~put'["us"][j].own /\ put'["us"][j].buf = put["us"][j].buf
              /\ put'["us"][j].pc = put["us"][j].pc
          BY <2>1, <2>2, <2>4, <2>5, <3>3, <4>3
        <5>2. Running("us", j)' <=> Running("us", j)
          BY <5>1, <3>1 DEF Running
        <5> QED BY <4>1, <5>1, <5>2, <3>1 DEF PutRight
      <4>4. CASE j # k /\ j \notin sib
        <5>1. put'["us"][j] = put["us"][j]
          BY <2>4, <3>3, <4>4
        <5>2. Running("us", j)' <=> Running("us", j)
          BY <5>1, <3>1 DEF Running
        <5> QED BY <4>1, <5>1, <5>2, <3>1, <1>0, <2>1 DEF PutRight
      <4> QED BY <4>2, <4>3, <4>4
    <3> QED BY <3>2, <3>3 DEF Engines
  <2>12. late' \subseteq Keys
    BY <2>1, <2>2, <2>3
  <2>13. Types'
    BY <1>0, <1>2, <2>3, <2>6, <2>10, <2>12, SameMode DEF IInv, Types, PutType
  <2>14. StoreRight'
    <3>1. \A j \in Keys : Right(j, None)
      BY DEF Right
    <3> QED BY <1>0, <1>2, <2>1, <3>1, SameMode DEF IInv, StoreRight
  <2>15. LoadRight'
    BY <1>0 DEF IInv, LoadRight
  <2> QED BY <1>1, <2>10, <2>11, <2>13, <2>14, <2>15 DEF IInv
<1> QED BY <1>3, <1>4

LEMMA PutTimesOutRight ==
    ASSUME IInv, Track, NEW k \in Keys, PutTimesOut(k)
    PROVE  IInv'
<1>0. /\ get' = get /\ load' = load /\ pos' = pos /\ given' = given /\ answer' = answer
      /\ mode' = mode /\ mem' = mem /\ lag' = lag /\ data' = data /\ meta' = meta /\ tmp' = tmp
      /\ late' = late \cup {k} /\ Running("us", k) /\ put["us"][k].own
      /\ put' = [put EXCEPT !["us"][k] = Disowned(put["us"][k])]
  BY DEF PutTimesOut, loading, store
<1>1. LiveRight' /\ live \subseteq live'
  BY <1>0, LiveKept
<1>2. put \in [Engines -> [Keys -> PutType]] /\ PutType' = PutType /\ late \subseteq Keys
      /\ "us" \in Engines /\ "peer" \in Engines
  BY <1>0 DEF IInv, Types, PutType, Engines
<1>3. PICK v : v = Disowned(put["us"][k])
  OBVIOUS
<1>4. v \in PutType /\ v.buf = put["us"][k].buf /\ ~v.own /\ v.pc = put["us"][k].pc
  BY <1>2, <1>3 DEF Disowned, PutType
<1>5. /\ put' \in [Engines -> [Keys -> PutType]] /\ put'["us"][k] = v
      /\ \A x \in Engines, j \in Keys : <<x, j>> # <<"us", k>> => put'[x][j] = put[x][j]
  BY <1>0, <1>2, <1>3, <1>4, SetPut
<1>6. Apart' /\ (\A j \in Keys : GetRight(j)') /\ free' \subseteq Bufs'
  <2>0. PICK S : S = {k}
    OBVIOUS
  <2>1. free' = free \cup {put["us"][j].buf : j \in S} /\ S \in SUBSET Keys
    BY <1>0, <2>0 DEF PutTimesOut, GiveUp
  <2>2. \A j \in Keys : put'["us"][j].own => put["us"][j].own /\ put'["us"][j].buf = put["us"][j].buf
    BY <1>2, <1>4, <1>5
  <2>3. \A j \in S : put["us"][j].own /\ ~put'["us"][j].own
    BY <1>0, <1>4, <1>5, <2>0
  <2>4. late \subseteq late'
    BY <1>0
  <2> QED BY <1>0, <1>1, <2>1, <2>2, <2>3, <2>4, GivenUp
<1>7. ASSUME NEW j \in Keys
      PROVE  PutRight(j)'
  <2>1. PutRight(j) /\ PutProgram' = PutProgram /\ Bufs' = Bufs
    BY <1>0, SameMode DEF IInv
  <2>2. put'["peer"][j] = put["peer"][j]
    BY <1>2, <1>5
  <2>3. CASE j = k
    <3>1. Running("us", j)' <=> Running("us", j)
      BY <1>4, <1>5, <2>1, <2>3 DEF Running
    <3> QED BY <1>0, <1>4, <1>5, <2>1, <2>2, <2>3, <3>1 DEF PutRight
  <2>4. CASE j # k
    <3>1. put'["us"][j] = put["us"][j] /\ (Running("us", j)' <=> Running("us", j))
      BY <1>0, <1>2, <1>5, <2>4, PutKept
    <3> QED BY <1>0, <2>1, <2>2, <2>4, <3>1 DEF PutRight
  <2> QED BY <2>3, <2>4
<1>8. Types'
  BY <1>0, <1>2, <1>5, <1>6, SameMode DEF IInv, Types, PutType
<1>9. StoreRight'
  BY <1>0, StoreKept
<1>10. LoadRight'
  BY <1>0 DEF IInv, LoadRight
<1> QED BY <1>1, <1>6, <1>7, <1>8, <1>9, <1>10 DEF IInv

\* The elements of a finite set of integers have different ranks, from 0 on.
LEMMA RankLess ==
    ASSUME NEW S \in SUBSET Int, IsFiniteSet(S), NEW a \in S, NEW b \in Int, a < b
    PROVE  /\ Cardinality({c \in S : c < a}) \in Nat /\ Cardinality({c \in S : c < b}) \in Nat
           /\ Cardinality({c \in S : c < a}) < Cardinality({c \in S : c < b})
<1> DEFINE A == {c \in S : c < a}
           B == {c \in S : c < b}
<1>1. IsFiniteSet(A) /\ IsFiniteSet(B)
  BY FS_Subset
<1>2. A \cup {a} \subseteq B /\ a \notin A
  <2>1. \A c \in S : c \in Int /\ (c < a => c < b) /\ ~(a < a)
    OBVIOUS
  <2> QED BY <2>1
<1>3. Cardinality(A) \in Nat /\ Cardinality(B) \in Nat
  BY <1>1, FS_CardinalityType
<1>4. Cardinality(A \cup {a}) = Cardinality(A) + 1
  BY <1>1, <1>2, FS_AddElement
<1>5. Cardinality(A \cup {a}) <= Cardinality(B)
  BY <1>1, <1>2, FS_Subset
<1> HIDE DEF A, B
<1>6. Cardinality(A) < Cardinality(B)
  BY <1>3, <1>4, <1>5
<1> QED BY <1>3, <1>6 DEF A, B

LEMMA RankDiffers ==
    ASSUME NEW S \in SUBSET Int, IsFiniteSet(S), NEW a \in S, NEW b \in S, a # b
    PROVE  Cardinality({c \in S : c < a}) # Cardinality({c \in S : c < b})
<1>1. a \in Int /\ b \in Int
  OBVIOUS
<1>2. CASE a < b
  BY <1>1, <1>2, RankLess
<1>3. CASE b < a
  BY <1>1, <1>3, RankLess
<1> QED BY <1>1, <1>2, <1>3

LEMMA RankOnto ==
    ASSUME NEW S \in SUBSET Int, IsFiniteSet(S), NEW n \in Nat, n < Cardinality(S)
    PROVE  \E b \in S : Cardinality({c \in S : c < b}) = n
<1> DEFINE R(b) == Cardinality({c \in S : c < b})
           m == Cardinality(S)
           f == [b \in S |-> R(b)]
<1>1. m \in Nat
  BY FS_CardinalityType
<1>2. \A b \in S : R(b) \in Nat /\ R(b) < m
  <2> TAKE b \in S
  <2>1. {c \in S : c < b} \in SUBSET S /\ {c \in S : c < b} # S
    OBVIOUS
  <2>2. IsFiniteSet({c \in S : c < b})
    BY <2>1, FS_Subset
  <2>3. R(b) \in Nat
    BY <2>2, FS_CardinalityType
  <2>4. R(b) <= m /\ R(b) # m
    BY <2>1, FS_Subset
  <2> HIDE DEF R, m
  <2> QED BY <1>1, <2>3, <2>4
<1>3. \A a, b \in S : a # b => R(a) # R(b)
  BY RankDiffers
<1>4. f \in Injection(S, 0..m - 1)
  <2> HIDE DEF R, m
  <2>1. f \in [S -> 0..m - 1]
    BY <1>1, <1>2
  <2>2. \A a, b \in S : f[a] = f[b] => a = b
    BY <1>3
  <2> HIDE DEF f
  <2> QED BY <2>1, <2>2 DEF Injection, IsInjective
<1>5. IsFiniteSet(0..m - 1) /\ Cardinality(0..m - 1) = m
  <2>1. PICK k \in Nat : k = m
    BY <1>1
  <2>2. 0 \in Int /\ k - 1 \in Int
    BY ONLY k \in Nat
  <2>3. IsFiniteSet(0..k - 1) /\ Cardinality(0..k - 1) = IF 0 > k - 1 THEN 0 ELSE k - 1 - 0 + 1
    BY ONLY <2>2, FS_Interval
  <2>4. Cardinality(0..k - 1) = k
    BY <2>3
  <2> QED BY <2>1, <2>3, <2>4
<1>6. f \in Surjection(S, 0..m - 1)
  <2> HIDE DEF f
  <2> QED BY <1>4, <1>5, FS_Injection
<1>7. n \in 0..m - 1
  BY <1>1
<1> QED BY <1>6, <1>7 DEF Surjection

\* The buffers of a batch are the first free ones, one for each chunk.
LEMMA BatchBuffers ==
    ASSUME IInv, NEW ks \in SUBSET Keys, Cardinality(ks) <= Cardinality(free)
    PROVE  /\ \A k \in ks : BufferOf("us", k, ks) \in free
           /\ \A j, k \in ks : j # k => BufferOf("us", j, ks) # BufferOf("us", k, ks)
           /\ FirstFree(Cardinality(ks)) = {BufferOf("us", k, ks) : k \in ks}
<1> DEFINE R(b) == Cardinality({c \in free : c < b})
           Q(k) == Cardinality({c \in ks : c < k})
           B(k) == BufferOf("us", k, ks)
<1>1. free \in SUBSET Int /\ IsFiniteSet(free) /\ ks \in SUBSET Int /\ IsFiniteSet(ks)
  <2>1. PICK n : n = mode.bufs
    OBVIOUS
  <2>2. n \in Nat /\ NumKeys \in Nat /\ free \subseteq 1..n /\ ks \subseteq 1..NumKeys
    BY <2>1, ConnectorAssumption DEF IInv, Types, ModeType, Bufs, Keys
  <2>3. 1 \in Int /\ n \in Int /\ NumKeys \in Int
    BY ONLY <2>2
  <2>4. IsFiniteSet(1..n) /\ IsFiniteSet(1..NumKeys)
    BY ONLY <2>3, FS_Interval
  <2>5. IsFiniteSet(free) /\ IsFiniteSet(ks)
    BY <2>2, <2>4, FS_Subset
  <2>6. free \in SUBSET Int /\ ks \in SUBSET Int
    BY <2>2
  <2> QED BY <2>5, <2>6
<1>2. Cardinality(ks) \in Nat /\ Cardinality(free) \in Nat
  BY <1>1, FS_CardinalityType
<1>3. \A b \in free : R(b) \in Nat /\ R(b) < Cardinality(free)
  <2> TAKE b \in free
  <2>1. {c \in free : c < b} \in SUBSET free /\ {c \in free : c < b} # free
    BY <1>1
  <2>2. IsFiniteSet({c \in free : c < b})
    BY <2>1, <1>1, FS_Subset
  <2>3. R(b) \in Nat
    BY <2>2, FS_CardinalityType
  <2>4. R(b) <= Cardinality(free) /\ R(b) # Cardinality(free)
    BY <2>1, <1>1, FS_Subset
  <2> HIDE DEF R
  <2> QED BY <1>2, <2>3, <2>4
<1>4. \A k \in ks : Q(k) \in Nat /\ Q(k) < Cardinality(ks)
  <2> TAKE k \in ks
  <2>1. {c \in ks : c < k} \in SUBSET ks /\ {c \in ks : c < k} # ks
    BY <1>1
  <2>2. IsFiniteSet({c \in ks : c < k})
    BY <2>1, <1>1, FS_Subset
  <2>3. Q(k) \in Nat
    BY <2>2, FS_CardinalityType
  <2>4. Q(k) <= Cardinality(ks) /\ Q(k) # Cardinality(ks)
    BY <2>1, <1>1, FS_Subset
  <2> HIDE DEF Q
  <2> QED BY <1>2, <2>3, <2>4
<1>5. \A a, b \in free : a # b => R(a) # R(b)
  BY <1>1, RankDiffers
<1>6. \A j, k \in ks : j # k => Q(j) # Q(k)
  BY <1>1, RankDiffers
<1>7. ASSUME NEW k \in ks
      PROVE  B(k) \in free /\ R(B(k)) = Q(k)
  <2>1. PICK q : q = Q(k)
    OBVIOUS
  <2>2. q \in Nat /\ q < Cardinality(free)
    <3> HIDE DEF Q
    <3> QED BY <1>2, <1>4, <2>1
  <2>3. \E b \in free : R(b) = q
    BY <1>1, <2>2, RankOnto
  <2> DEFINE c == CHOOSE b \in free : R(b) = q
  <2>4. c \in free /\ R(c) = q
    BY <2>3
  <2>5. B(k) = CHOOSE b \in free : R(b) = Q(k)
    BY DEF BufferOf
  <2> HIDE DEF R, Q, B
  <2>6. B(k) = c
    BY <2>1, <2>5
  <2> QED BY <2>1, <2>4, <2>6
<1>8. FirstFree(Cardinality(ks)) = {b \in free : R(b) < Cardinality(ks)}
  BY DEF FirstFree
<1>9. ASSUME NEW b \in free, R(b) < Cardinality(ks)
      PROVE  \E k \in ks : b = B(k)
  <2>1. PICK r : r = R(b)
    OBVIOUS
  <2>2. r \in Nat /\ r < Cardinality(ks)
    <3> HIDE DEF R
    <3> QED BY <1>3, <1>9, <2>1
  <2>3. PICK k \in ks : Q(k) = r
    BY <1>1, <2>2, RankOnto
  <2> HIDE DEF R, Q, B
  <2>4. b = B(k)
    BY <1>5, <1>7, <2>1, <2>3
  <2> QED BY <2>4
<1> HIDE DEF R, Q, B
<1>10. \A k \in ks : B(k) \in free
  BY <1>7
<1>11. \A j, k \in ks : j # k => B(j) # B(k)
  BY <1>6, <1>7
<1>12. FirstFree(Cardinality(ks)) = {B(k) : k \in ks}
  BY <1>4, <1>7, <1>8, <1>9
<1> QED BY <1>10, <1>11, <1>12 DEF B

LEMMA SubmitRight ==
    ASSUME IInv, Track, NEW i \in Engines, NEW ks \in SUBSET Keys, Submit(i, ks)
    PROVE  IInv'
<1> DEFINE B(k) == BufferOf(i, k, ks)
<1>0. /\ get' = get /\ load' = load /\ pos' = pos /\ given' = given /\ answer' = answer
      /\ mode' = mode /\ lag' = lag /\ data' = data /\ meta' = meta /\ tmp' = tmp
      /\ late' = late /\ \A k \in ks : put[i][k].pc = 0
      /\ put' = [put EXCEPT ![i] = [k \in Keys |->
                    IF k \in ks THEN [pc |-> 1, buf |-> B(k), own |-> i = "us"]
                    ELSE put[i][k]]]
      /\ (i = "us" => Cardinality(ks) <= Cardinality(free))
      /\ mem' = [b \in Bufs |-> IF i = "us" /\ \E k \in ks : B(k) = b
                                THEN CHOOSE k \in ks : B(k) = b ELSE mem[b]]
      /\ free' = IF i = "us" THEN free \ FirstFree(Cardinality(ks)) ELSE free
  BY DEF Submit, loading, store
<1>1. LiveRight' /\ live \subseteq live'
  BY <1>0, LiveKept
<1>2. /\ put \in [Engines -> [Keys -> PutType]] /\ PutType' = PutType /\ Bufs' = Bufs
      /\ "us" \in Engines /\ "peer" \in Engines /\ free \subseteq Bufs /\ Bufs = 1..mode.bufs
      /\ mem \in [Bufs -> Contents] /\ Keys \subseteq Contents /\ mode.bufs \in Nat
  BY <1>0, SameMode, ConnectorAssumption
     DEF IInv, Types, PutType, Engines, Contents, Bufs, ModeType
<1>3. /\ \A k \in ks : IF i = "us" THEN B(k) \in free ELSE B(k) = 0
      /\ i = "us" => /\ \A j, k \in ks : j # k => B(j) # B(k)
                     /\ FirstFree(Cardinality(ks)) = {B(k) : k \in ks}
  <2>1. CASE i = "us"
    BY <1>0, <2>1, BatchBuffers
  <2>2. CASE i = "peer"
    BY <2>2 DEF BufferOf
  <2> QED BY <2>1, <2>2 DEF Engines
<1> HIDE DEF B
<1>4. /\ \A x \in Engines \ {i}, j \in Keys : put'[x][j] = put[x][j]
      /\ \A j \in Keys : put'[i][j] = IF j \in ks THEN [pc |-> 1, buf |-> B(j), own |-> i = "us"]
                                      ELSE put[i][j]
  BY <1>0, <1>2
<1>5. ASSUME NEW k \in ks
      PROVE  /\ put'[i][k] \in PutType
             /\ put'[i][k].pc = 1 /\ put'[i][k].buf = B(k) /\ (put'[i][k].own <=> i = "us")
  <2>1. B(k) \in 0..mode.bufs
    <3>1. PICK n, b : n = mode.bufs /\ b = B(k)
      OBVIOUS
    <3>2. n \in Nat /\ (b \in 1..n \/ b = 0)
      BY <1>2, <1>3, <3>1 DEF Engines
    <3>3. b \in 0..n
      BY ONLY <3>2
    <3> QED BY <3>1, <3>3
  <2>2. CASE i = "us"
    <3>1. put'[i][k] = [pc |-> 1, buf |-> B(k), own |-> TRUE]
      BY <1>4, <2>2
    <3> QED BY <2>1, <2>2, <3>1 DEF PutType
  <2>3. CASE i # "us"
    <3>1. put'[i][k] = [pc |-> 1, buf |-> B(k), own |-> FALSE]
      BY <1>4, <2>3
    <3> QED BY <2>1, <2>3, <3>1 DEF PutType
  <2> QED BY <2>2, <2>3
<1>6. put' \in [Engines -> [Keys -> PutType]]
  <2>1. put' \in [Engines -> [Keys -> UNION {PutType, {put'[i][k] : k \in ks}}]]
    BY <1>0, <1>2, <1>4
  <2> QED BY <1>0, <1>2, <1>5
<1>7. mem' \in [Bufs -> Contents] /\ \A b \in Bufs : b \notin free \/ i # "us" => mem'[b] = mem[b]
  BY <1>0, <1>2, <1>3
<1>8. ASSUME i = "us", NEW k \in ks
      PROVE  mem'[B(k)] = k
  BY <1>0, <1>2, <1>3, <1>8
<1>9. \A j \in Keys : ~put["peer"][j].own /\ (put["us"][j].pc = 0 => ~put["us"][j].own)
  BY DEF IInv, PutRight, Running
<1>10. \A j \in Keys : GetStep(j)' = GetStep(j) /\ (Filled(j)' <=> Filled(j))
                       /\ (Holds(j)' <=> Holds(j))
  BY <1>0, GetKept
<1>11. ASSUME NEW j \in Keys
       PROVE  PutRight(j)'
  <2>1. PutRight(j) /\ PutProgram' = PutProgram /\ Len(PutProgram) \in 1..3
    BY <1>0, SameMode, PutFollows DEF IInv, Types
  <2>2. CASE i = "peer"
    <3>1. put'["us"][j] = put["us"][j] /\ (Running("us", j)' <=> Running("us", j))
      BY <1>0, <1>2, <1>4, <2>2, PutKept
    <3>2. put'["peer"][j].buf = 0 /\ ~put'["peer"][j].own
      BY <1>3, <1>4, <1>5, <2>1, <2>2 DEF PutRight
    <3>3. put["us"][j].own => mem'[put["us"][j].buf] = mem[put["us"][j].buf]
      BY <1>7, <2>1, <2>2 DEF PutRight
    <3> QED BY <3>1, <3>2, <3>3, <2>1, <1>0, <1>2 DEF PutRight
  <2>3. CASE i = "us" /\ j \in ks
    <3>1. put'["peer"][j] = put["peer"][j]
      BY <1>2, <1>4, <2>3
    <3>2. put'["us"][j].own /\ put'["us"][j].buf = B(j) /\ B(j) \in Bufs /\ mem'[B(j)] = j
          /\ put'["us"][j].pc = 1
      BY <1>2, <1>3, <1>5, <1>8, <2>3
    <3>3. Running("us", j)'
      <4>1. 1 \in 1..Len(PutProgram)
        BY <2>1
      <4> QED BY <2>1, <3>2, <4>1 DEF Running
    <3> QED BY <3>1, <3>2, <3>3, <2>1, <1>2 DEF PutRight
  <2>4. CASE i = "us" /\ j \notin ks
    <3>1. put'["peer"][j] = put["peer"][j] /\ put'["us"][j] = put["us"][j]
          /\ (Running("us", j)' <=> Running("us", j))
      BY <1>0, <1>2, <1>4, <2>4, PutKept
    <3>2. put["us"][j].own => put["us"][j].buf \notin free
      BY DEF IInv, Apart
    <3>3. put["us"][j].own => mem'[put["us"][j].buf] = mem[put["us"][j].buf]
      BY <1>7, <2>1, <3>2 DEF PutRight
    <3> QED BY <3>1, <3>3, <2>1, <1>0, <1>2 DEF PutRight
  <2> QED BY <2>2, <2>3, <2>4 DEF Engines
<1>12. ASSUME NEW j \in Keys
       PROVE  GetRight(j)'
  <2>1. GetRight(j) /\ GetProgram' = GetProgram /\ (\A k, d : Right(k, d)' <=> Right(k, d))
    BY <1>0, SameMode DEF IInv
  <2>2. Filled(j) => mem'[get[j].buf] = mem[get[j].buf]
    <3>1. Holds(j) => get[j].buf \notin free /\ get[j].buf \in Bufs
      BY <2>1 DEF IInv, Apart, GetRight
    <3> QED BY <1>7, <3>1 DEF Holds
  <2> QED BY <1>0, <1>1, <1>2, <1>10, <2>1, <2>2 DEF GetRight
<1>13. Apart'
  <2>1. free' \subseteq free /\ (i = "us" => \A k \in ks : B(k) \in free /\ B(k) \notin free')
    BY <1>0, <1>3
  <2>2. ASSUME NEW j \in Keys, put'["us"][j].own
        PROVE  \/ i = "us" /\ j \in ks /\ put'["us"][j].buf = B(j)
               \/ put["us"][j].own /\ put'["us"][j].buf = put["us"][j].buf /\ (i = "us" => j \notin ks)
    BY <1>0, <1>2, <1>4, <1>5, <1>9, <2>2 DEF Engines
  <2>3. \A j \in Keys : put["us"][j].own => put["us"][j].buf \notin free \cup given
    BY DEF IInv, Apart
  <2>4. \A j \in Keys : Holds(j) => get[j].buf \notin free \cup given
    BY DEF IInv, Apart
  <2>5. free \cap given = {}
    BY DEF IInv, Apart
  <2>6. ASSUME NEW j \in Keys, put'["us"][j].own
        PROVE  /\ put'["us"][j].buf \notin (free \cup given)'
               /\ \A k \in Keys \ {j} : put'["us"][k].own => put'["us"][k].buf # put'["us"][j].buf
    <3>1. put'["us"][j].buf \notin (free \cup given)'
      BY <1>0, <2>1, <2>2, <2>3, <2>5, <2>6
    <3>2. ASSUME NEW k \in Keys \ {j}, put'["us"][k].own
          PROVE  put'["us"][k].buf # put'["us"][j].buf
      BY <1>3, <2>1, <2>2, <2>3, <2>6, <3>2 DEF IInv, Apart
    <3> QED BY <3>1, <3>2
  <2>7. ASSUME NEW j \in Keys, Holds(j)
        PROVE  /\ get[j].buf \notin (free \cup given)'
               /\ \A k \in Keys \ {j} : Holds(k) => get[k].buf # get[j].buf
               /\ \A k \in Keys : put'["us"][k].own => put'["us"][k].buf # get[j].buf
    <3>1. \A k \in Keys : put'["us"][k].own => put'["us"][k].buf # get[j].buf
      BY <2>1, <2>2, <2>4, <2>7 DEF IInv, Apart
    <3>2. get[j].buf \notin (free \cup given)'
      BY <1>0, <2>1, <2>4, <2>7
    <3> QED BY <2>7, <3>1, <3>2 DEF IInv, Apart
  <2>8. (free \cap given)' = {}
    BY <1>0, <2>1, <2>5
  <2> QED BY <1>0, <1>10, <2>6, <2>7, <2>8 DEF Apart
<1>14. Types'
  <2>1. free' \subseteq Bufs'
    BY <1>0, <1>2
  <2> QED BY <1>0, <1>2, <1>6, <1>7, <2>1 DEF IInv, Types, PutType
<1>15. StoreRight'
  BY <1>0, StoreKept
<1>16. LoadRight'
  BY <1>0 DEF IInv, LoadRight
<1> QED BY <1>1, <1>11, <1>12, <1>13, <1>14, <1>15, <1>16 DEF IInv

-----------------------------------------------------------------------------
(* The gets.                                                                 *)

GetType == [pc: 1..5, buf: 0..mode.bufs, val: Contents,
            out: {"idle", "run", "asleep", "ok", "none", "raise", "repair"}]

\* The request that follows, or the end of the get.
LEMMA Advances ==
    ASSUME IInv, mode' = mode, load' = load, NEW k \in Keys, get[k].out = "run",
           NEW new \in GetType, new.pc = get[k].pc, new.out = "run", GetAdvance(k, new)
    PROVE  /\ get' \in [Keys -> GetType] /\ \A j \in Keys \ {k} : get'[j] = get[j]
           /\ get'[k].buf = new.buf /\ get'[k].val = new.val /\ get'[k].out \in {"run", "ok"}
           /\ get'[k].out = "run" => get'[k].pc \in 1..Len(GetProgram)
           /\ GetStep(k) \in Early \ {"alloc", "unsupported"} =>
                 GetStep(k)' \in Early /\ get'[k].out = "run"
           /\ GetStep(k) = "alloc" => GetStep(k)' \in Filling /\ get'[k].out = "run"
           /\ GetStep(k) \in Filling => GetStep(k)' \in After \/ get'[k].out = "ok"
           /\ GetStep(k) \in After => get'[k].out = "ok"
<1>1. /\ get \in [Keys -> GetType] /\ get[k].pc \in 1..Len(GetProgram) /\ Len(GetProgram) \in 1..5
      /\ GetStep(k) = GetProgram[get[k].pc] /\ GetProgram' = GetProgram
  BY GetFollows, SameMode DEF IInv, Types, GetType, GetRight, GetStep
<1>2. CASE get[k].pc = Len(GetProgram)
  <2>1. PICK v : v = [new EXCEPT !.out = "ok"]
    OBVIOUS
  <2>2. v \in GetType /\ v.buf = new.buf /\ v.val = new.val /\ v.out = "ok"
    BY <2>1 DEF GetType
  <2>3. get' = [get EXCEPT ![k] = v]
    BY <1>2, <2>1 DEF GetAdvance
  <2>4. /\ get' \in [Keys -> GetType] /\ get'[k] = v /\ \A j \in Keys \ {k} : get'[j] = get[j]
    BY <1>1, <2>2, <2>3
  <2>5. GetStep(k) \notin Early \ {"unsupported"}
    BY <1>1, <1>2, GetFollows DEF IInv, Types
  <2>6. "alloc" \in Early \ {"unsupported"}
    BY DEF Early
  <2> QED BY <2>2, <2>4, <2>5, <2>6
<1>3. CASE get[k].pc # Len(GetProgram)
  <2>1. PICK n, p : n = Len(GetProgram) /\ p = get[k].pc
    OBVIOUS
  <2>2. p + 1 \in 1..n /\ p + 1 \in 1..5
    <3>1. n \in 1..5 /\ p \in 1..n /\ p # n
      BY <1>1, <1>3, <2>1
    <3> QED BY ONLY <3>1
  <2>3. PICK v : v = [new EXCEPT !.pc = p + 1]
    OBVIOUS
  <2>4. v \in GetType /\ v.buf = new.buf /\ v.val = new.val /\ v.out = "run" /\ v.pc = p + 1
    BY <2>2, <2>3 DEF GetType
  <2>5. get' = [get EXCEPT ![k] = v]
    BY <1>3, <2>1, <2>3 DEF GetAdvance
  <2>6. /\ get' \in [Keys -> GetType] /\ get'[k] = v /\ \A j \in Keys \ {k} : get'[j] = get[j]
    BY <1>1, <2>4, <2>5
  <2>7. GetStep(k)' = GetProgram[p + 1]
    BY <1>1, <2>4, <2>6 DEF GetStep
  <2>8. /\ GetStep(k) \in Early \ {"unsupported"} =>
              IF GetStep(k) = "alloc" THEN GetProgram[p + 1] \in Filling
              ELSE GetProgram[p + 1] \in Early \ {"unsupported"}
        /\ GetStep(k) \in Filling => GetProgram[p + 1] \in After
        /\ GetStep(k) \notin After
    BY <1>1, <1>3, <2>1, GetFollows DEF IInv, Types
  <2>9. "alloc" \in Early \ {"unsupported"}
    BY DEF Early
  <2> QED BY <2>1, <2>2, <2>4, <2>6, <2>7, <2>8, <2>9
<1> QED BY <1>2, <1>3

LEMMA Ends ==
    ASSUME IInv, mode' = mode, load' = load, pos' = pos, live \subseteq live', late \subseteq late',
           NEW k \in Keys, get[k].out = "run", NEW out \in {"none", "raise", "repair"},
           NEW buf \in 0..mode.bufs, GetEnd(k, out, buf)
    PROVE  /\ get' \in [Keys -> GetType] /\ \A j \in Keys \ {k} : get'[j] = get[j]
           /\ get'[k].buf = buf /\ get'[k].out = out
           /\ GetRight(k)' /\ ~Holds(k)'
<1>1. get \in [Keys -> GetType] /\ GetRight(k)
  BY DEF IInv, Types, GetType
<1>2. get' = [get EXCEPT ![k] = [get[k] EXCEPT !.out = out, !.buf = buf]]
  BY <1>1 DEF GetEnd, GetType
<1>3. PICK v : v = [get[k] EXCEPT !.out = out, !.buf = buf]
  OBVIOUS
<1>4. v \in GetType /\ v.buf = buf /\ v.out = out /\ v.val = get[k].val
  BY <1>1, <1>3 DEF GetType
<1>5. get' \in [Keys -> GetType] /\ get'[k] = v /\ \A j \in Keys \ {k} : get'[j] = get[j]
  BY <1>1, <1>2, <1>3, <1>4
<1>6. ~Filled(k)' /\ ~Holds(k)' /\ GetStep(k)' = "none"
  BY <1>4, <1>5 DEF Holds, Filled, GetStep, Filling, After, Ok
<1>7. GetRight(k)'
  BY <1>1, <1>4, <1>5, <1>6, SameMode DEF GetRight, Early
<1> QED BY <1>4, <1>5, <1>6, <1>7

\* What is right about the get of one chunk is enough.
LEMMA GetDone ==
    ASSUME IInv, Track, UNCHANGED quiet, data' = data, tmp' = tmp, lag' = lag,
           meta' \in [Keys -> BOOLEAN], late \subseteq late', late' \subseteq Keys, NEW k \in Keys,
           get' \in [Keys -> GetType], \A j \in Keys \ {k} : get'[j] = get[j],
           mem' \in [Bufs -> Contents],
           \A b \in Bufs : mem'[b] = mem[b] \/ (b = get[k].buf /\ Holds(k)),
           GetRight(k)',
           \/ free' = free /\ (Holds(k)' => Holds(k) /\ get'[k].buf = get[k].buf)
           \/ free' = free \ {get'[k].buf} /\ get'[k].buf \in free
           \/ free' = free \cup {get[k].buf} /\ Holds(k) /\ ~Holds(k)'
    PROVE  IInv'
<1>1. /\ mode' = mode /\ put' = put /\ load' = load /\ pos' = pos /\ given' = given
      /\ answer' = answer
  BY DEF quiet
<1>2. LiveRight' /\ live \subseteq live'
  BY <1>1, LiveKept
<1>3. Apart' /\ \A j \in Keys : PutRight(j)' /\ GetRight(j)'
  <2>1. \/ free' = free /\ (Holds(k)' => Holds(k) /\ get'[k].buf = get[k].buf)
        \/ free' = free \ {get'[k].buf} /\ get'[k].buf \in free
        \/ free' = free \cup {get[k].buf} /\ Holds(k) /\ ~Holds(k)'
    OBVIOUS
  <2> QED BY <1>1, <1>2, <2>1, OthersKept
<1>4. Types'
  <2>1. Holds(k) => get[k].buf \in Bufs
    BY DEF IInv, GetRight
  <2>2. free' \subseteq Bufs
    BY <2>1 DEF IInv, Types
  <2> QED BY <1>1, <2>2, SameMode DEF IInv, Types, GetType
<1>5. StoreRight'
  BY <1>1, StoreKept
<1>6. LoadRight'
  BY <1>1 DEF IInv, LoadRight
<1> QED BY <1>2, <1>3, <1>4, <1>5, <1>6 DEF IInv

\* What a read of the store finds.
LEMMA DataOfRight ==
    ASSUME IInv, NEW k \in Keys
    PROVE  /\ DataOf(k) \in Contents /\ (k \notin late => Right(k, DataOf(k)))
           /\ DataOf(k) = k => k \in Stored
<1>1. None \in Contents /\ Right(k, None) /\ None # k
  BY DEF Contents, Right, None, Keys
<1>2. CASE Absent
  BY <1>1, <1>2 DEF DataOf
<1>3. CASE ~Absent /\ mode.kind = "sentinel"
  BY <1>3 DEF DataOf, IInv, Types, StoreRight, Stored
<1>4. CASE ~Absent /\ mode.kind # "sentinel"
  BY <1>4 DEF DataOf, IInv, Types, StoreRight, Stored
<1> QED BY <1>2, <1>3, <1>4

\* A get that has no buffer yet asks the store.
LEMMA GetsEarly ==
    ASSUME IInv, Track, UNCHANGED quiet, UNCHANGED <<meta, data, tmp, lag, mem, free, late>>,
           NEW k \in Keys, GetStep(k) \in Early \ {"alloc", "unsupported"},
           \/ \E out \in {"none", "raise"} : GetEnd(k, out, 0)
           \/ \E val \in {get[k].val, DataOf(k), None} : GetAdvance(k, [get[k] EXCEPT !.val = val])
    PROVE  IInv'
<1>1. /\ mode' = mode /\ load' = load /\ pos' = pos
      /\ data' = data /\ tmp' = tmp /\ lag' = lag /\ mem' = mem /\ free' = free /\ late' = late
      /\ meta' \in [Keys -> BOOLEAN] /\ late' \subseteq Keys /\ mem' \in [Bufs -> Contents]
  BY DEF quiet, IInv, Types
<1>2. LiveRight' /\ live \subseteq live' /\ (load' # "idle" => Stored' \subseteq live')
  BY <1>1, LiveKept
<1>3. GetRight(k) /\ get[k].out = "run" /\ get[k] \in GetType /\ get[k].buf = 0
      /\ 0 \in 0..mode.bufs /\ load # "idle" /\ None \in Contents /\ get[k].val \in Contents
  <2>1. GetRight(k) /\ get[k] \in GetType
    BY DEF IInv, Types, GetType
  <2>2. get[k].out = "run"
    BY DEF GetStep, Early
  <2>3. mode.bufs \in Nat
    BY ConnectorAssumption DEF IInv, Types, ModeType
  <2> QED BY <2>1, <2>2, <2>3 DEF GetRight, GetType, Contents
<1>4. CASE \E out \in {"none", "raise"} : GetEnd(k, out, 0)
  <2>1. /\ get' \in [Keys -> GetType] /\ \A j \in Keys \ {k} : get'[j] = get[j]
        /\ GetRight(k)' /\ ~Holds(k)'
    BY <1>1, <1>2, <1>3, <1>4, Ends
  <2> QED BY <1>1, <2>1, GetDone
<1>5. CASE \E val \in {get[k].val, DataOf(k), None} : GetAdvance(k, [get[k] EXCEPT !.val = val])
  <2>1. PICK val \in {get[k].val, DataOf(k), None} : GetAdvance(k, [get[k] EXCEPT !.val = val])
    BY <1>5
  <2>2. val \in Contents /\ (k \notin late => Right(k, val) /\ (val = k => k \in live'))
    <3>1. Right(k, None) /\ None # k
      BY DEF Right, None, Keys
    <3>2. Stored' = Stored
      BY <1>1 DEF Stored
    <3>3. CASE val = get[k].val
      BY <1>2, <1>3, <3>3 DEF GetRight
    <3>4. CASE val = DataOf(k)
      BY <1>1, <1>2, <1>3, <3>2, <3>4, DataOfRight
    <3>5. CASE val = None
      BY <1>3, <3>1, <3>5
    <3> QED BY <2>1, <3>3, <3>4, <3>5
  <2>3. PICK new : new = [get[k] EXCEPT !.val = val]
    OBVIOUS
  <2>4. new \in GetType /\ new.pc = get[k].pc /\ new.out = "run" /\ new.buf = 0 /\ new.val = val
    BY <1>3, <2>2, <2>3 DEF GetType
  <2>5. /\ get' \in [Keys -> GetType] /\ \A j \in Keys \ {k} : get'[j] = get[j]
        /\ get'[k].buf = 0 /\ get'[k].val = val /\ get'[k].out = "run"
        /\ get'[k].pc \in 1..Len(GetProgram) /\ GetStep(k)' \in Early
    BY <1>1, <1>3, <2>1, <2>3, <2>4, Advances
  <2>6. ~Filled(k)' /\ ~Holds(k)'
    BY <2>5 DEF Holds, Filled, Early, Filling, After, Ok
  <2>7. GetRight(k)'
    BY <1>1, <1>3, <2>2, <2>5, <2>6, SameMode DEF GetRight
  <2> QED BY <1>1, <2>5, <2>6, <2>7, GetDone
<1> QED BY <1>4, <1>5

LEMMA GetRequests ==
    ASSUME IInv, Track, NEW k \in Keys,
           GetMeta(k) \/ GetSize(k) \/ GetBoth(k) \/ GetLease(k) \/ GetToken(k)
    PROVE  IInv'
<1>1. get[k] = [get[k] EXCEPT !.val = get[k].val]
  BY DEF IInv, Types
<1>2. GetStep(k) \in Early \ {"alloc", "unsupported"}
  BY DEF GetMeta, GetSize, GetBoth, GetLease, GetToken, Early
<1>3. UNCHANGED quiet /\ UNCHANGED <<meta, data, tmp, lag, mem, free, late>>
  BY DEF GetMeta, GetSize, GetBoth, GetLease, GetToken, store
<1>4. \/ \E out \in {"none", "raise"} : GetEnd(k, out, 0)
      \/ \E val \in {get[k].val, DataOf(k), None} : GetAdvance(k, [get[k] EXCEPT !.val = val])
  <2>1. CASE GetMeta(k)
    BY <2>1 DEF GetMeta
  <2>2. CASE GetSize(k) \/ GetToken(k)
    BY <1>1, <2>2 DEF GetSize, GetToken
  <2>3. CASE GetBoth(k) \/ GetLease(k)
    BY <2>3 DEF GetBoth, GetLease
  <2> QED BY <2>1, <2>2, <2>3
<1> QED BY <1>2, <1>3, <1>4, GetsEarly

\* The least free buffer.
LEMMA MinIs ==
    ASSUME NEW S \in SUBSET Nat, S # {}
    PROVE  Min(S) \in S
<1>1. \E x \in S : \A y \in S : x =< y
  BY LeastNat
<1> QED BY <1>1 DEF Min

LEMMA GetAllocRight ==
    ASSUME IInv, Track, NEW k \in Keys, GetAlloc(k)
    PROVE  IInv'
<1>1. /\ mode' = mode /\ load' = load /\ pos' = pos /\ UNCHANGED quiet
      /\ data' = data /\ tmp' = tmp /\ lag' = lag /\ mem' = mem /\ late' = late
      /\ meta' \in [Keys -> BOOLEAN] /\ late' \subseteq Keys /\ mem' \in [Bufs -> Contents]
  BY DEF GetAlloc, quiet, store, IInv, Types
<1>2. LiveRight' /\ live \subseteq live'
  BY <1>1, LiveKept
<1>3. /\ GetStep(k) = "alloc" /\ GetRight(k) /\ get[k].out = "run" /\ get[k] \in GetType
      /\ 0 \in 0..mode.bufs /\ Bufs \subseteq 0..mode.bufs /\ free \subseteq Bufs /\ Bufs \subseteq Nat
  <2>1. GetRight(k) /\ get[k] \in GetType /\ free \subseteq Bufs
    BY DEF IInv, Types, GetType
  <2>2. GetStep(k) = "alloc" /\ get[k].out = "run"
    BY DEF GetAlloc, GetStep
  <2>3. mode.bufs \in Nat
    BY ConnectorAssumption DEF IInv, Types, ModeType
  <2> QED BY <2>1, <2>2, <2>3 DEF Bufs
<1>4. CASE free = {}
  <2>1. PICK v : v = [get[k] EXCEPT !.out = "asleep"]
    OBVIOUS
  <2>2. /\ v \in GetType /\ v.out = "asleep" /\ v.pc = get[k].pc /\ v.buf = get[k].buf
        /\ v.val = get[k].val
    BY <1>3, <2>1 DEF GetType
  <2>3. free' = free /\ get' = [get EXCEPT ![k] = v] /\ get \in [Keys -> GetType]
    BY <1>4, <2>1 DEF GetAlloc, IInv, Types, GetType
  <2>4. /\ get' \in [Keys -> GetType] /\ get'[k] = v /\ \A j \in Keys \ {k} : get'[j] = get[j]
    BY <2>2, <2>3
  <2>5. GetStep(k)' = "none" /\ ~Filled(k)' /\ ~Holds(k)'
    BY <2>2, <2>4 DEF GetStep, Holds, Filled, Filling, After, Ok
  <2>6. get[k].buf = 0 /\ get[k].pc \in 1..Len(GetProgram) /\ GetProgram[get[k].pc] = "alloc"
    BY <1>3 DEF GetRight, GetStep, Early
  <2>7. GetRight(k)'
    BY <1>1, <1>2, <1>3, <2>2, <2>4, <2>5, <2>6, SameMode DEF GetRight, Early
  <2> QED BY <1>1, <2>3, <2>4, <2>5, <2>7, GetDone
<1>5. CASE free # {}
  <2>1. PICK b : b = Min(free)
    OBVIOUS
  <2>2. b \in free
    BY <1>3, <1>5, <2>1, MinIs
  <2>3. PICK new : new = [get[k] EXCEPT !.buf = b]
    OBVIOUS
  <2>4. GetAdvance(k, new) /\ free' = free \ {b}
    BY <1>5, <2>1, <2>3 DEF GetAlloc
  <2>5. /\ new \in GetType /\ new.pc = get[k].pc /\ new.out = "run" /\ new.buf = b
        /\ new.val = get[k].val
    BY <1>3, <2>2, <2>3 DEF GetType
  <2>6. /\ get' \in [Keys -> GetType] /\ \A j \in Keys \ {k} : get'[j] = get[j]
        /\ get'[k].buf = b /\ get'[k].val = get[k].val /\ get'[k].out = "run"
        /\ get'[k].pc \in 1..Len(GetProgram) /\ GetStep(k)' \in Filling
    BY <1>1, <1>3, <2>4, <2>5, Advances
  <2>7. ~Filled(k)' /\ GetStep(k)' \notin Early
    BY <2>6 DEF Filled, Early, Filling, After, Ok
  <2>8. GetRight(k)'
    BY <1>1, <1>2, <1>3, <2>2, <2>6, <2>7, SameMode DEF GetRight
  <2> QED BY <1>1, <2>2, <2>4, <2>6, <2>8, GetDone
<1> QED BY <1>4, <1>5

\* A get that slept takes a free buffer: it goes on with its content, or, cancelled,
\* ends with the buffer.
LEMMA Wakes ==
    ASSUME IInv, NEW k \in Keys, GetWake(k)
    PROVE  /\ get' \in [Keys -> GetType] /\ \A j \in Keys \ {k} : get'[j] = get[j]
           /\ get'[k].buf \in free /\ free' = free \ {get'[k].buf} /\ get'[k].val = get[k].val
           /\ \/ /\ get'[k].out = "run" /\ get'[k].pc \in 1..Len(GetProgram)
                 /\ GetProgram[get'[k].pc] \in Filling /\ get'[k].pc = get[k].pc + 1
              \/ get'[k].out = "none" /\ load # "load"
<1>1. /\ get \in [Keys -> GetType] /\ get[k] \in GetType /\ get[k].out = "asleep" /\ free \subseteq Bufs
      /\ GetRight(k) /\ mode \in Modes /\ mode.bufs \in Nat
  BY ConnectorAssumption DEF IInv, Types, GetType, GetWake, ModeType
<1>2. /\ get[k].pc \in 1..Len(GetProgram) /\ GetProgram[get[k].pc] = "alloc"
      /\ Bufs \subseteq 0..mode.bufs /\ Bufs \subseteq Nat
  BY <1>1 DEF GetRight, Bufs
<1>3. "alloc" \in Early \ {"unsupported"}
  BY DEF Early
<1>4. /\ get[k].pc < Len(GetProgram) /\ GetProgram[get[k].pc + 1] \in Filling
      /\ Len(GetProgram) \in 1..5
  BY <1>1, <1>2, <1>3, GetFollows
<1>5. PICK b : b = Min(free)
  OBVIOUS
<1>6. b \in free /\ free' = free \ {b}
  BY <1>1, <1>2, <1>5, MinIs DEF GetWake
<1>7. CASE load = "load" \/ Executor \/ Synchronous
  <2>1. PICK new : new = [get[k] EXCEPT !.buf = b, !.out = "run"]
    OBVIOUS
  <2>2. new \in GetType /\ new.pc = get[k].pc /\ new.out = "run" /\ new.buf = b /\ new.val = get[k].val
    BY <1>1, <1>2, <1>6, <2>1 DEF GetType
  <2>3. PICK v : v = [new EXCEPT !.pc = new.pc + 1]
    OBVIOUS
  <2>4. GetAdvance(k, new)
    BY <1>5, <1>7, <2>1 DEF GetWake
  <2>5. get' = [get EXCEPT ![k] = v]
    <3>1. new.pc # Len(GetProgram)
      BY <1>4, <2>2
    <3> QED BY <2>3, <2>4, <3>1, Zenon DEF GetAdvance
  <2>6. v \in GetType /\ v.pc = get[k].pc + 1 /\ v.out = "run" /\ v.buf = b /\ v.val = get[k].val
    BY <1>2, <1>4, <2>2, <2>3 DEF GetType
  <2>7. get'[k] = v
    BY <1>1, <2>5
  <2> QED BY <1>1, <1>2, <1>4, <1>6, <2>5, <2>6, <2>7
<1>8. CASE ~(load = "load" \/ Executor \/ Synchronous)
  <2>1. PICK v : v = [get[k] EXCEPT !.out = "none", !.buf = b]
    OBVIOUS
  <2>2. v \in GetType /\ v.out = "none" /\ v.buf = b /\ v.val = get[k].val
    BY <1>1, <1>2, <1>6, <2>1 DEF GetType
  <2>3. GetEnd(k, "none", b)
    BY <1>5, <1>8 DEF GetWake
  <2>4. get' = [get EXCEPT ![k] = v]
    BY <1>1, <2>1, <2>3 DEF GetEnd, GetType
  <2>5. get'[k] = v
    BY <1>1, <2>4
  <2> QED BY <1>1, <1>6, <1>8, <2>2, <2>4, <2>5
<1> QED BY <1>7, <1>8

LEMMA GetWakeRight ==
    ASSUME IInv, Track, NEW k \in Keys, GetWake(k)
    PROVE  IInv'
<1>1. /\ mode' = mode /\ load' = load /\ pos' = pos /\ UNCHANGED quiet
      /\ data' = data /\ tmp' = tmp /\ lag' = lag /\ mem' = mem /\ late' = late
      /\ meta' \in [Keys -> BOOLEAN] /\ late' \subseteq Keys /\ mem' \in [Bufs -> Contents]
  BY DEF GetWake, quiet, store, IInv, Types
<1>2. LiveRight' /\ live \subseteq live'
  BY <1>1, LiveKept
<1>3. /\ get' \in [Keys -> GetType] /\ \A j \in Keys \ {k} : get'[j] = get[j]
      /\ get'[k].buf \in free /\ free' = free \ {get'[k].buf} /\ get'[k].val = get[k].val
      /\ \/ /\ get'[k].out = "run" /\ get'[k].pc \in 1..Len(GetProgram)
            /\ GetProgram[get'[k].pc] \in Filling
         \/ get'[k].out = "none"
  BY Wakes
<1>4. GetRight(k) /\ get[k].out = "asleep" /\ free \subseteq Bufs
  BY DEF IInv, Types, GetWake
<1>5. GetStep(k)' \notin Early /\ ~Filled(k)'
  BY <1>1, <1>3, SameMode DEF GetStep, Filled, Early, Filling, After, Ok
<1>6. GetRight(k)'
  BY <1>1, <1>2, <1>3, <1>4, <1>5, SameMode DEF GetRight
<1> QED BY <1>1, <1>3, <1>4, <1>6, GetDone

\* A get of fs reads the file; it does not copy what it was given.
LEMMA CopyNotFS ==
    ASSUME mode \in Modes, NEW pc \in 1..Len(GetProgram), GetProgram[pc] = "copy"
    PROVE  mode.kind # "fs"
<1> SUFFICES ASSUME mode.kind = "fs"
             PROVE  FALSE
  OBVIOUS
<1>1. GetProgram = FSGet
  BY DEF GetProgram, Is
<1> QED BY <1>1 DEF FSGet

\* The chunk is in the buffer.
LEMMA GetsFill ==
    ASSUME IInv, Track, UNCHANGED quiet, UNCHANGED <<meta, data, tmp, lag, free, late>>,
           NEW k \in Keys, GetStep(k) \in Filling, NEW d \in Contents,
           k \notin late => d = k /\ k \in live',
           mem' = [mem EXCEPT ![get[k].buf] = d], GetAdvance(k, get[k])
    PROVE  IInv'
<1>1. /\ mode' = mode /\ load' = load /\ pos' = pos
      /\ data' = data /\ tmp' = tmp /\ lag' = lag /\ free' = free /\ late' = late
      /\ meta' \in [Keys -> BOOLEAN] /\ late' \subseteq Keys
  BY DEF quiet, IInv, Types
<1>2. LiveRight' /\ live \subseteq live'
  BY <1>1, LiveKept
<1>3. GetRight(k) /\ get[k].out = "run" /\ get[k] \in GetType /\ Holds(k) /\ get[k].buf \in Bufs
  <2>1. GetRight(k) /\ get[k] \in GetType
    BY DEF IInv, Types, GetType
  <2>2. get[k].out = "run"
    BY DEF GetStep, Filling
  <2> QED BY <2>1, <2>2 DEF GetRight, Holds
<1>4. /\ get' \in [Keys -> GetType] /\ \A j \in Keys \ {k} : get'[j] = get[j]
      /\ get'[k].buf = get[k].buf /\ get'[k].val = get[k].val /\ get'[k].out \in {"run", "ok"}
      /\ get'[k].out = "run" => get'[k].pc \in 1..Len(GetProgram)
      /\ GetStep(k)' \in After \/ get'[k].out = "ok"
  BY <1>1, <1>3, Advances
<1>5. /\ mem' \in [Bufs -> Contents] /\ mem'[get[k].buf] = d
      /\ \A b \in Bufs : mem'[b] = mem[b] \/ (b = get[k].buf /\ Holds(k))
  BY <1>3 DEF IInv, Types
<1>6. GetStep(k)' \notin Early
  BY <1>4 DEF GetStep, Early, After
<1>7. GetRight(k)'
  <2>1. Bufs' = Bufs /\ GetProgram' = GetProgram /\ (\A j, x : Right(j, x)' <=> Right(j, x))
    BY <1>1, SameMode
  <2>2. get'[k].out # "idle"
    BY <1>4
  <2>3. k \notin late => /\ Right(k, get[k].val) /\ (get[k].val = k => k \in live')
                         /\ mem'[get[k].buf] = k /\ k \in live'
    BY <1>2, <1>3, <1>5 DEF GetRight
  <2>4. load' \in {"load", "done"} /\ k < pos'
    BY <1>1, <1>3 DEF GetRight
  <2> QED BY <1>1, <1>3, <1>4, <1>6, <2>1, <2>2, <2>3, <2>4 DEF GetRight
<1> QED BY <1>1, <1>3, <1>4, <1>5, <1>7, GetDone

\* A get that has a buffer ends without the chunk.
LEMMA GetsGiveUp ==
    ASSUME IInv, Track, UNCHANGED quiet, UNCHANGED <<meta, data, tmp, lag, mem, late>>,
           NEW k \in Keys, GetStep(k) \in Filling, NEW out \in {"none", "raise", "repair"},
           NEW buf \in {0, get[k].buf}, GetEnd(k, out, buf), free' = free \/ Release(k)
    PROVE  IInv'
<1>1. /\ mode' = mode /\ load' = load /\ pos' = pos
      /\ data' = data /\ tmp' = tmp /\ lag' = lag /\ mem' = mem /\ late' = late
      /\ meta' \in [Keys -> BOOLEAN] /\ late' \subseteq Keys /\ mem' \in [Bufs -> Contents]
  BY DEF quiet, IInv, Types
<1>2. LiveRight' /\ live \subseteq live'
  BY <1>1, LiveKept
<1>3. Holds(k) /\ get[k].out = "run" /\ buf \in 0..mode.bufs
  <2>1. mode.bufs \in Nat /\ get[k].buf \in 0..mode.bufs
    BY ConnectorAssumption DEF IInv, Types, ModeType
  <2> QED BY <2>1 DEF GetStep, Filling, Holds
<1>4. /\ get' \in [Keys -> GetType] /\ \A j \in Keys \ {k} : get'[j] = get[j]
      /\ GetRight(k)' /\ ~Holds(k)'
  BY <1>1, <1>2, <1>3, Ends
<1> QED BY <1>1, <1>3, <1>4, GetDone DEF Release

LEMMA GetCopyRight ==
    ASSUME IInv, Track, NEW k \in Keys, GetCopy(k)
    PROVE  IInv'
<1>1. /\ UNCHANGED quiet /\ UNCHANGED <<meta, data, tmp, lag, late>> /\ GetStep(k) = "copy"
      /\ mode' = mode /\ load' = load /\ late' = late
  BY DEF GetCopy, store, quiet
<1>2. GetStep(k) \in Filling /\ get[k].out = "run" /\ GetRight(k) /\ get[k].val \in Contents
  BY <1>1 DEF Filling, GetStep, IInv, Types
<1>3. CASE get[k].val = None
  BY <1>1, <1>2, <1>3, GetsGiveUp DEF GetCopy
<1>4. CASE get[k].val # None
  <2>1. mode.kind # "fs"
    BY <1>1, <1>2, CopyNotFS DEF GetRight, GetStep, IInv, Types
  <2>2. live \subseteq live'
    BY <1>1, LiveKept
  <2>3. k \notin late => get[k].val = k /\ k \in live'
    BY <1>2, <1>4, <2>1, <2>2 DEF GetRight, Right
  <2>4. mem' = [mem EXCEPT ![get[k].buf] = get[k].val] /\ GetAdvance(k, get[k]) /\ free' = free
    BY <1>4 DEF GetCopy
  <2> QED BY <1>1, <1>2, <2>3, <2>4, GetsFill
<1> QED BY <1>3, <1>4

LEMMA GetDataRight ==
    ASSUME HeadersKept, IInv, Track, NEW k \in Keys, GetData(k)
    PROVE  IInv'
<1>1. /\ UNCHANGED quiet /\ UNCHANGED <<meta, data, tmp, lag, late>> /\ GetStep(k) = "data"
      /\ mode' = mode /\ load' = load /\ late' = late /\ data' = data /\ lag' = lag
  BY DEF GetData, quiet
<1>2. GetStep(k) \in Filling /\ get[k].out = "run" /\ GetRight(k) /\ get[k].val \in Contents
  BY <1>1 DEF Filling, GetStep, IInv, Types
<1>3. PICK d \in Readable(k) :
         IF d = None \/ (d = Torn /\ mode.meta)
         THEN /\ \E out \in {"none", "repair"}, buf \in {0, get[k].buf} : GetEnd(k, out, buf)
              /\ free' = free \/ Release(k)
              /\ mem' = mem
         ELSE /\ mem' = [mem EXCEPT ![get[k].buf] = d] /\ GetAdvance(k, get[k]) /\ free' = free
  BY DEF GetData
<1>4. CASE d = None \/ (d = Torn /\ mode.meta)
  BY <1>1, <1>2, <1>3, <1>4, GetsGiveUp
<1>5. CASE ~(d = None \/ (d = Torn /\ mode.meta))
  <2>1. live \subseteq live' /\ Stored' = Stored /\ (load' # "idle" => Stored' \subseteq live')
    BY <1>1, LiveKept DEF Stored
  <2>2. d \in {get[k].val, DataOf(k)}
    BY DEF Readable
  <2>3. mode.kind = "fs" => mode.meta
    BY DEF HeadersKept, IInv, Types
  <2>4. load' # "idle"
    BY <1>1, <1>2 DEF GetRight
  <2>5. d \in Contents /\ (k \notin late => d = k /\ k \in live')
    <3>1. CASE d = get[k].val
      BY <1>2, <1>5, <2>1, <2>3, <3>1 DEF GetRight, Right
    <3>2. CASE d = DataOf(k)
      BY <1>5, <2>1, <2>3, <2>4, <3>2, DataOfRight DEF Right
    <3> QED BY <2>2, <3>1, <3>2
  <2> QED BY <1>1, <1>2, <1>3, <1>5, <2>5, GetsFill
<1> QED BY <1>4, <1>5

LEMMA GetFailsRight ==
    ASSUME IInv, Track, NEW k \in Keys, GetFails(k)
    PROVE  IInv'
<1>1. /\ UNCHANGED quiet /\ UNCHANGED <<meta, data, tmp, lag, mem, late>>
      /\ mode' = mode /\ load' = load /\ pos' = pos /\ late' = late /\ mem' = mem
      /\ data' = data /\ lag' = lag /\ tmp' = tmp
      /\ meta' \in [Keys -> BOOLEAN] /\ late' \subseteq Keys /\ mem' \in [Bufs -> Contents]
      /\ GetStep(k) \in {"meta", "open", "both", "data", "lease"}
  BY DEF GetFails, quiet, IInv, Types
<1>2. /\ get[k].out = "run" /\ GetRight(k) /\ mode.bufs \in Nat /\ get[k].buf \in 0..mode.bufs
      /\ 0 \in 0..mode.bufs
  <2>1. get[k].out = "run"
    BY <1>1 DEF GetStep
  <2>2. mode.bufs \in Nat /\ get[k].buf \in 0..mode.bufs /\ GetRight(k)
    BY ConnectorAssumption DEF IInv, Types, ModeType
  <2> QED BY <2>1, <2>2
<1>3. PICK buf \in {0, get[k].buf} : \E out \in {"none", "raise"} : GetEnd(k, out, buf)
  BY DEF GetFails
<1>4. free' = free \/ free' = free \cup ({get[k].buf} \ {0})
  BY DEF GetFails
<1>5. CASE GetStep(k) = "data"
  <2>1. GetStep(k) \in Filling /\ get[k].buf # 0
    BY <1>2, <1>5 DEF Filling, GetRight, Holds, Bufs
  <2>2. free' = free \/ Release(k)
    BY <1>4, <2>1 DEF Release
  <2> QED BY <1>1, <1>3, <2>1, <2>2, GetsGiveUp
<1>6. CASE GetStep(k) # "data"
  <2>1. GetStep(k) \in Early
    BY <1>1, <1>6 DEF Early
  <2>2. get[k].buf = 0 /\ free' = free
    BY <1>2, <1>4, <2>1 DEF GetRight
  <2>3. live \subseteq live'
    BY <1>1, LiveKept
  <2>4. /\ get' \in [Keys -> GetType] /\ \A j \in Keys \ {k} : get'[j] = get[j]
        /\ GetRight(k)' /\ ~Holds(k)'
    BY <1>1, <1>2, <1>3, <2>3, Ends
  <2> QED BY <1>1, <2>2, <2>4, GetDone
<1> QED BY <1>5, <1>6

LEMMA GetOthersRight ==
    ASSUME IInv, Track, NEW k \in Keys,
           GetRepair(k) \/ GetRelease(k) \/ GetUnsupported(k) \/ LeaseExpires(k)
    PROVE  IInv'
<1>1. /\ UNCHANGED quiet /\ mode' = mode /\ load' = load /\ pos' = pos /\ mem' = mem
      /\ data' = data /\ lag' = lag /\ tmp' = tmp /\ free' = free
      /\ meta' \in [Keys -> BOOLEAN] /\ mem' \in [Bufs -> Contents]
      /\ late \subseteq late' /\ late' \subseteq Keys
  BY DEF GetRepair, GetRelease, GetUnsupported, LeaseExpires, quiet, store, IInv, Types
<1>2. live \subseteq live'
  BY <1>1, LiveKept
<1>3. GetRight(k) /\ get[k] \in GetType /\ get \in [Keys -> GetType] /\ 0 \in 0..mode.bufs
  <2>1. mode.bufs \in Nat
    BY ConnectorAssumption DEF IInv, Types, ModeType
  <2> QED BY <2>1 DEF IInv, Types, GetType
<1>4. CASE GetRepair(k)
  <2>1. PICK v : v = [get[k] EXCEPT !.out = "none"]
    OBVIOUS
  <2>2. v \in GetType /\ v.out = "none" /\ v.val = get[k].val
    BY <1>3, <2>1 DEF GetType
  <2>3. get' = [get EXCEPT ![k] = v] /\ get[k].out = "repair" /\ late' = late
    BY <1>4, <2>1 DEF GetRepair
  <2>4. get' \in [Keys -> GetType] /\ get'[k] = v /\ \A j \in Keys \ {k} : get'[j] = get[j]
    BY <1>3, <2>2, <2>3
  <2>5. ~Filled(k)' /\ ~Holds(k)' /\ GetStep(k)' = "none"
    BY <2>2, <2>4 DEF Holds, Filled, GetStep, Filling, After, Ok
  <2>6. GetRight(k)'
    BY <1>1, <1>2, <1>3, <2>2, <2>3, <2>4, <2>5, SameMode DEF GetRight, Early
  <2> QED BY <1>1, <2>4, <2>5, <2>6, GetDone
<1>5. CASE GetRelease(k)
  <2>1. GetStep(k) \in After /\ get[k].out = "run" /\ late' = late /\ GetAdvance(k, get[k])
    BY <1>5 DEF GetRelease, After, GetStep
  <2>2. /\ get' \in [Keys -> GetType] /\ \A j \in Keys \ {k} : get'[j] = get[j]
        /\ get'[k].buf = get[k].buf /\ get'[k].val = get[k].val /\ get'[k].out = "ok"
    BY <1>1, <1>3, <2>1, Advances
  <2>3. Filled(k) /\ Holds(k) /\ GetStep(k)' = "none"
    BY <2>1, <2>2 DEF Filled, Holds, GetStep
  <2>4. GetRight(k)'
    BY <1>1, <1>2, <1>3, <2>1, <2>2, <2>3, SameMode DEF GetRight, Early
  <2> QED BY <1>1, <2>2, <2>3, <2>4, GetDone
<1>6. CASE GetUnsupported(k)
  <2>1. GetEnd(k, "raise", 0) /\ get[k].out = "run" /\ late' = late
    BY <1>6 DEF GetUnsupported, GetStep
  <2>2. /\ get' \in [Keys -> GetType] /\ \A j \in Keys \ {k} : get'[j] = get[j]
        /\ GetRight(k)' /\ ~Holds(k)'
    BY <1>1, <1>2, <1>3, <2>1, Ends
  <2> QED BY <1>1, <2>2, GetDone
<1>7. CASE LeaseExpires(k)
  <2>1. PICK j \in Keys \ {k} : get' = [get EXCEPT ![k].val = j]
    BY <1>7 DEF LeaseExpires
  <2>2. PICK v : v = [get[k] EXCEPT !.val = j]
    OBVIOUS
  <2>3. j \in Contents
    BY DEF Contents
  <2>4. v \in GetType /\ v.out = get[k].out /\ v.pc = get[k].pc /\ v.buf = get[k].buf
    BY <1>3, <2>2, <2>3 DEF GetType
  <2>5. get' = [get EXCEPT ![k] = v]
    BY <2>1, <2>2
  <2>6. get' \in [Keys -> GetType] /\ get'[k] = v /\ \A i \in Keys \ {k} : get'[i] = get[i]
    BY <1>3, <2>4, <2>5
  <2>7. GetStep(k)' = GetStep(k) /\ (Filled(k)' <=> Filled(k)) /\ (Holds(k)' <=> Holds(k))
    BY <1>1, <2>4, <2>6, SameMode DEF GetStep, Filled, Holds, Ok
  <2>8. k \in late' /\ get[k].out = "run"
    BY <1>7 DEF LeaseExpires, GetStep
  <2>9. GetRight(k)'
    BY <1>1, <1>3, <2>4, <2>6, <2>7, <2>8, SameMode DEF GetRight
  <2> QED BY <1>1, <2>4, <2>6, <2>7, <2>9, GetDone
<1> QED BY <1>4, <1>5, <1>6, <1>7

-----------------------------------------------------------------------------
(* The load and the store.                                                   *)

\* A step of the load gives away buffers of gets that have ended.
LEMMA LoadKeepsApart ==
    ASSUME IInv, mode' = mode, mem' = mem, put' = put, late' = late,
           NEW R \in SUBSET Keys, \A k \in R : Holds(k) /\ ~Holds(k)',
           \A k \in Keys : Holds(k)' => Holds(k) /\ get'[k].buf = get[k].buf,
           free' \cup given' \subseteq free \cup given \cup {get[k].buf : k \in R},
           free' \cap given' = {}
    PROVE  Apart' /\ (\A k \in Keys : PutRight(k)') /\ (free \cup given)' \subseteq Bufs'
<1>1. Bufs' = Bufs /\ \A j \in Keys : Running("us", j)' <=> Running("us", j)
  BY SameMode, PutKept DEF Engines
<1>2. \A k \in Keys : PutRight(k)'
  BY <1>1 DEF IInv, PutRight
<1>3. (free \cup given)' \subseteq Bufs'
  BY <1>1 DEF IInv, Types, GetRight
<1>4. ASSUME NEW k \in Keys, put["us"][k].own
      PROVE  put["us"][k].buf \notin free' \cup given'
  BY <1>4 DEF IInv, Apart
<1>5. ASSUME NEW k \in Keys, Holds(k)'
      PROVE  get'[k].buf \notin free' \cup given'
  BY <1>5 DEF IInv, Apart
<1>6. Apart'
  BY <1>4, <1>5 DEF IInv, Apart
<1> QED BY <1>2, <1>3, <1>6

\* Before the gets start there is nothing in their hands.
LEMMA NotStarted ==
    ASSUME IInv, load \in {"idle", "lookup"}, NEW k \in Keys
    PROVE  /\ get[k] = [pc |-> 1, buf |-> 0, val |-> None, out |-> "idle"]
           /\ ~Holds(k)
<1>1. get[k] = [pc |-> 1, buf |-> 0, val |-> None, out |-> "idle"]
  BY DEF IInv, GetRight
<1> QED BY <1>1 DEF Holds, Filled, GetStep, Filling, After, Ok

LEMMA LookupRight ==
    ASSUME IInv, Track, Begin \/ Lookup \/ LookupTimesOut
    PROVE  IInv'
<1> DEFINE Idle == [pc |-> 1, buf |-> 0, val |-> None, out |-> "idle"]
           First == [pc |-> 1, buf |-> 0, val |-> None, out |-> "run"]
<1>1. /\ mode' = mode /\ data' = data /\ lag' = lag /\ tmp' = tmp /\ mem' = mem /\ put' = put
      /\ free' = free /\ given' = given /\ answer' = answer /\ late' = late /\ meta' = meta
      /\ load \in {"idle", "lookup"} /\ load' \in {"lookup", "load", "done"}
  BY DEF Begin, Lookup, LookupTimesOut, store
<1>2. LiveRight' /\ live \subseteq live'
  BY <1>1, LiveKept
<1>3. /\ NumKeys \in Nat \ {0} /\ pos \in Keys /\ Keys = 1..NumKeys
      /\ pos' \in 1..NumKeys + 1 /\ (load' = "lookup" => pos' \in Keys)
      /\ \A k \in Keys : \/ get'[k] = Idle
                         \/ get'[k] = First /\ load' = "load" /\ k < pos'
      /\ DOMAIN get' = Keys /\ get' = [k \in Keys |-> get'[k]]
  <2>1. NumKeys \in Nat \ {0} /\ pos \in 1..NumKeys /\ get = [k \in Keys |-> get[k]]
    BY <1>1, ConnectorAssumption DEF IInv, LoadRight, Keys, Types
  <2>2. \A k \in Keys : get[k] = Idle
    BY <1>1, NotStarted
  <2>3. CASE Begin \/ LookupTimesOut
    <3>1. get' = get /\ pos' = pos
      BY <2>3 DEF Begin, LookupTimesOut
    <3> QED BY <2>1, <2>2, <3>1 DEF Keys
  <2>4. CASE Lookup
    <3>1. /\ pos' = IF ExistsIn(pos) THEN pos + 1 ELSE pos
          /\ load' = IF ExistsIn(pos) /\ pos < NumKeys THEN "lookup"
                     ELSE IF pos' = 1 THEN "done" ELSE "load"
      BY <2>4 DEF Lookup
    <3>2. pos' \in 1..NumKeys + 1 /\ (load' = "lookup" => pos' \in 1..NumKeys)
      BY <2>1, <3>1
    <3>3. get' = [k \in Keys |-> IF load' = "load" /\ k < pos'
                                 THEN [get[k] EXCEPT !.out = "run"] ELSE get[k]]
      BY <2>4 DEF Lookup
    <3>4. ASSUME NEW k \in Keys
          PROVE  get'[k] = Idle \/ (get'[k] = First /\ load' = "load" /\ k < pos')
      <4>1. [get[k] EXCEPT !.out = "run"] = First
        BY <2>2, <3>4
      <4> QED BY <2>2, <3>3, <3>4, <4>1
    <3>5. DOMAIN get' = Keys /\ get' = [k \in Keys |-> get'[k]]
      BY <3>3
    <3> HIDE DEF Idle, First
    <3> QED BY <2>1, <3>2, <3>4, <3>5 DEF Keys
  <2> QED BY <2>3, <2>4
<1>4. GetProgram' = GetProgram /\ Bufs' = Bufs /\ 1 \in 1..Len(GetProgram)
      /\ GetProgram[1] \in Early /\ (\A k, d : Right(k, d)' <=> Right(k, d))
  BY <1>1, SameMode, GetFollows DEF IInv, Types
<1>5. ASSUME NEW k \in Keys
      PROVE  GetRight(k)' /\ ~Holds(k)' /\ get'[k] \in GetType
  <2>0. None \in Contents /\ 0 \in 0..mode.bufs /\ None # k /\ Right(k, None)
    <3>1. mode.bufs \in Nat
      BY ConnectorAssumption DEF IInv, Types, ModeType
    <3> QED BY <1>5, <3>1 DEF Contents, None, Keys, Right
  <2>1. CASE get'[k] = Idle
    <3>1. GetStep(k)' = "none" /\ ~Holds(k)'
      BY <2>1 DEF GetStep, Holds, Filled, Filling, After, Ok
    <3> QED BY <1>4, <2>0, <2>1, <3>1 DEF GetRight, GetType, Early, Holds
  <2>2. CASE get'[k] = First /\ load' = "load" /\ k < pos'
    <3>1. GetStep(k)' \in Early /\ ~Holds(k)'
      BY <1>4, <2>2 DEF GetStep, Holds, Filled, Filling, After, Early, Ok
    <3> QED BY <1>4, <2>0, <2>2, <3>1 DEF GetRight, GetType, Holds
  <2> QED BY <1>3, <1>5, <2>1, <2>2
<1> HIDE DEF Idle, First
<1>6. Apart' /\ (\A k \in Keys : PutRight(k)') /\ (free \cup given)' \subseteq Bufs'
  <2>1. PICK R : R = {}
    OBVIOUS
  <2>2. R \in SUBSET Keys /\ {get[k].buf : k \in R} = {}
    BY <2>1
  <2>3. free' \cap given' = {} /\ free' \cup given' \subseteq free \cup given
    BY <1>1 DEF IInv, Apart
  <2> QED BY <1>1, <1>5, <2>1, <2>2, <2>3, LoadKeepsApart
<1>7. get' \in [Keys -> GetType]
  BY <1>3, <1>5
<1>8. Types'
  BY <1>1, <1>3, <1>4, <1>6, <1>7 DEF IInv, Types, GetType
<1>9. StoreRight' /\ LoadRight'
  BY <1>1, <1>3, StoreKept DEF IInv, LoadRight
<1> QED BY <1>2, <1>5, <1>6, <1>8, <1>9 DEF IInv

\* Nothing but gets that had the chunk in a buffer give it away.
LEMMA ReturnRight ==
    ASSUME IInv, Track, load = "load", Ended, NEW ks \in SUBSET Hits, NEW drop \in SUBSET Hits,
           ks \cap drop = {}, \A k \in ks \cup drop : Ok(k), NEW res, Return(ks, res, drop)
    PROVE  IInv'
<1>1. /\ mode' = mode /\ data' = data /\ lag' = lag /\ tmp' = tmp /\ mem' = mem /\ put' = put
      /\ late' = late /\ meta' = meta /\ load' = "done" /\ pos' = pos
      /\ given' = given \cup {get[k].buf : k \in ks} /\ free' = free \cup {get[k].buf : k \in drop}
      /\ get' = [k \in Keys |-> IF k \in Hits
                                THEN [get[k] EXCEPT !.buf = IF k \in ks \cup drop THEN 0 ELSE @]
                                ELSE get[k]]
  BY DEF Return, store
<1>2. LiveRight' /\ live \subseteq live'
  BY <1>1, LiveKept
<1>3. GetProgram' = GetProgram /\ Bufs' = Bufs /\ (\A k, d : Right(k, d)' <=> Right(k, d))
  BY <1>1, SameMode
<1>4. NumKeys \in Nat /\ pos \in 1..NumKeys + 1 /\ Keys = 1..NumKeys /\ mode.bufs \in Nat
      /\ get \in [Keys -> GetType]
  BY ConnectorAssumption DEF IInv, Types, Keys, ModeType, GetType
<1>5. Hits \subseteq Keys
  BY <1>4 DEF Hits
<1>6. \A k \in ks \cup drop : Holds(k)
  BY DEF Holds, Filled
<1>7. ASSUME NEW k \in Keys
      PROVE  /\ get'[k] \in GetType /\ get'[k].out = get[k].out /\ get'[k].val = get[k].val
             /\ get[k].out \in {"idle", "ok", "none", "raise"}
             /\ get[k].out = "idle" => get'[k] = get[k]
  <2>1. 0 \in 0..mode.bufs /\ get[k] \in GetType
    BY <1>4, <1>7
  <2>2. get'[k] \in {get[k], [get[k] EXCEPT !.buf = 0]}
    <3>1. CASE k \in ks \cup drop
      BY <1>1, <1>7, <3>1
    <3>2. CASE k \notin ks \cup drop
      <4>1. [get[k] EXCEPT !.buf = get[k].buf] = get[k]
        BY <2>1 DEF GetType
      <4> QED BY <1>1, <1>7, <3>2, <4>1
    <3> QED BY <3>1, <3>2
  <2>3. get[k].out # "idle" => k \in Hits
    BY <1>4, <1>7 DEF IInv, GetRight, Hits
  <2>4. get[k].out \in {"idle", "ok", "none", "raise"} /\ (get[k].out = "idle" => k \notin Hits)
    BY <2>3 DEF Ended
  <2>5. [get[k] EXCEPT !.buf = 0] \in GetType /\ [get[k] EXCEPT !.buf = 0].out = get[k].out
        /\ [get[k] EXCEPT !.buf = 0].val = get[k].val
    BY <2>1 DEF GetType
  <2>6. k \notin Hits => get'[k] = get[k]
    BY <1>1, <1>7
  <2> QED BY <2>1, <2>2, <2>4, <2>5, <2>6
<1>8. ASSUME NEW k \in Keys
      PROVE  GetRight(k)' /\ ~Holds(k)'
  <2>1. GetStep(k)' = "none" /\ ~Holds(k)'
    BY <1>1, <1>7, <1>8 DEF GetStep, Holds, Filled, Filling, After
  <2>2. load' = "done" /\ (get'[k].out # "idle" => k < pos')
    BY <1>1, <1>7, <1>8 DEF IInv, GetRight
  <2>3. k \notin late' => Right(k, get[k].val) /\ (get[k].val = k => k \in live')
    BY <1>1, <1>2, <1>8 DEF IInv, GetRight
  <2>4. get'[k].out = "idle" => get'[k] = [pc |-> 1, buf |-> 0, val |-> None, out |-> "idle"]
    BY <1>7, <1>8 DEF IInv, GetRight
  <2>5. get'[k].out \notin {"run", "asleep"}
    BY <1>7, <1>8
  <2>6. get'[k].val = get[k].val
    BY <1>7, <1>8
  <2> QED BY <1>3, <2>1, <2>2, <2>3, <2>4, <2>5, <2>6 DEF GetRight, Early, Holds
<1>9. Apart' /\ (\A k \in Keys : PutRight(k)') /\ (free \cup given)' \subseteq Bufs'
  <2>1. PICK R : R = ks \cup drop
    OBVIOUS
  <2>2. R \in SUBSET Keys /\ \A k \in R : Holds(k) /\ ~Holds(k)'
    BY <1>5, <1>6, <1>8, <2>1
  <2>3. free' \cup given' \subseteq free \cup given \cup {get[k].buf : k \in R}
    BY <1>1, <2>1
  <2>4. free' \cap given' = {}
    BY <1>1, <1>5, <1>6 DEF IInv, Apart
  <2> QED BY <1>1, <1>8, <2>2, <2>3, <2>4, LoadKeepsApart
<1>10. get' \in [Keys -> GetType]
  BY <1>1, <1>7
<1>11. Types'
  BY <1>1, <1>3, <1>9, <1>10 DEF IInv, Types, GetType
<1>12. StoreRight' /\ LoadRight'
  BY <1>1, StoreKept DEF LoadRight
<1> QED BY <1>2, <1>8, <1>9, <1>11, <1>12 DEF IInv

LEMMA ReturnsRight ==
    ASSUME IInv, Track, ReturnPrefix \/ ReturnFiltered \/ ReturnBatch \/ ReturnEach
    PROVE  IInv'
<1> DEFINE oks == {k \in Hits : Ok(k)}
           Some(ks, drop) ==
              /\ load = "load" /\ Ended /\ ks \in SUBSET Hits /\ drop \in SUBSET Hits
              /\ ks \cap drop = {} /\ (\A k \in ks \cup drop : Ok(k)) /\ \E res : Return(ks, res, drop)
<1>1. \E ks, drop : Some(ks, drop)
  <2>1. CASE ReturnPrefix
    <3>1. NumKeys \in Nat /\ pos \in Nat
      BY ConnectorAssumption DEF IInv, Types
    <3>2. GoodPrefix \subseteq oks
      BY <3>1 DEF GoodPrefix, Hits
    <3>3. Some(GoodPrefix, oks \ GoodPrefix)
      BY <2>1, <3>2 DEF ReturnPrefix
    <3> QED BY <3>3
  <2>2. CASE ReturnFiltered
    <3>1. Some({}, {}) \/ Some(oks, {})
      BY <2>2 DEF ReturnFiltered
    <3> QED BY <3>1
  <2>3. CASE ReturnBatch
    <3>1. Some({}, {}) \/ Some(oks, {})
      BY <2>3 DEF ReturnBatch
    <3> QED BY <3>1
  <2>4. CASE ReturnEach
    <3>1. Some({k \in Hits : Ok(k) /\ \A j \in Raised : k < j}, {})
      BY <2>4 DEF ReturnEach
    <3> QED BY <3>1
  <2> QED BY <2>1, <2>2, <2>3, <2>4
<1>2. PICK ks, drop : Some(ks, drop)
  BY <1>1
<1>3. PICK res : Return(ks, res, drop)
  BY <1>2
<1> QED BY <1>2, <1>3, ReturnRight

\* The gets that the timeout cancels forget their buffers.
LEMMA LoadTimesOutRight ==
    ASSUME IInv, Track, LoadTimesOut
    PROVE  IInv'
<1>1. /\ mode' = mode /\ data' = data /\ lag' = lag /\ tmp' = tmp /\ mem' = mem /\ put' = put
      /\ free' = free /\ given' = given /\ late' = late /\ meta' = meta /\ load' = "done"
      /\ load = "load" /\ pos' = pos
      /\ get' = [k \in Keys |-> IF get[k].out = "run" /\ ~Executor /\ ~Uninterrupted(k)
                                THEN [get[k] EXCEPT !.out = "none"] ELSE get[k]]
  BY DEF LoadTimesOut, store
<1>2. LiveRight' /\ live \subseteq live'
  BY <1>1, LiveKept
<1>3. GetProgram' = GetProgram /\ Bufs' = Bufs /\ (\A k, d : Right(k, d)' <=> Right(k, d))
      /\ get \in [Keys -> GetType]
  BY <1>1, SameMode DEF IInv, Types, GetType
<1>4. ASSUME NEW k \in Keys
      PROVE  /\ GetRight(k)' /\ get'[k] \in GetType
             /\ Holds(k)' => Holds(k) /\ get'[k].buf = get[k].buf
  <2>1. GetRight(k) /\ get[k] \in GetType
    BY <1>3, <1>4 DEF IInv
  <2>2. CASE get'[k] = get[k]
    <3>1. GetStep(k)' = GetStep(k)
      BY <1>3, <2>2 DEF GetStep
    <3>2. (Filled(k)' => Filled(k)) /\ (Holds(k)' => Holds(k))
      BY <1>1, <3>1 DEF Holds, Filled
    <3> QED BY <1>1, <1>2, <1>3, <2>1, <2>2, <3>1, <3>2 DEF GetRight
  <2>3. CASE get[k].out = "run" /\ get'[k] = [get[k] EXCEPT !.out = "none"]
    <3>1. /\ get'[k] \in GetType /\ get'[k].out = "none" /\ get'[k].buf = get[k].buf
          /\ get'[k].val = get[k].val
      BY <2>1, <2>3 DEF GetType
    <3>2. GetStep(k)' = "none" /\ ~Filled(k)' /\ ~Holds(k)'
      BY <1>1, <3>1 DEF GetStep, Holds, Filled, Filling, After
    <3> QED BY <1>1, <1>2, <1>3, <2>1, <2>3, <3>1, <3>2 DEF GetRight, Early
  <2> QED BY <1>1, <1>4, <2>2, <2>3
<1>5. Apart' /\ (\A k \in Keys : PutRight(k)') /\ (free \cup given)' \subseteq Bufs'
  <2>1. PICK R : R = {}
    OBVIOUS
  <2>2. free' \cap given' = {}
    BY <1>1 DEF IInv, Apart
  <2> QED BY <1>1, <1>4, <2>1, <2>2, LoadKeepsApart
<1>6. Types'
  BY <1>1, <1>3, <1>4, <1>5 DEF IInv, Types, GetType
<1>7. StoreRight' /\ LoadRight'
  BY <1>1, StoreKept DEF LoadRight
<1> QED BY <1>2, <1>4, <1>5, <1>6, <1>7 DEF IInv

\* Nothing of the load moves but what it has given, once the engine has copied it.
LEMMA Elsewhere ==
    ASSUME IInv, mode' = mode, mem' = mem, put' = put, get' = get, load' = load, pos' = pos,
           answer' = answer, tmp' = tmp, late' = late, LiveRight', live \subseteq live',
           \/ free' = free /\ given' = given
           \/ free' = free \cup given /\ given' = {},
           meta' \in [Keys -> BOOLEAN], data' \in [Keys -> Contents],
           lag' \in [Keys -> [meta: BOOLEAN, data: Contents]],
           \A k \in Keys : data'[k] \in {data[k], None} /\ lag'[k].data \in {lag[k].data, data[k]}
    PROVE  IInv'
<1>1. Bufs' = Bufs /\ GetProgram' = GetProgram /\ (\A k, d : Right(k, d)' <=> Right(k, d))
  BY SameMode
<1>2. \A k \in Keys : GetStep(k)' = GetStep(k) /\ (Filled(k)' <=> Filled(k))
                      /\ (Holds(k)' <=> Holds(k))
  BY GetKept
<1>3. \A k \in Keys : GetRight(k)'
  BY <1>1, <1>2 DEF IInv, GetRight
<1>4. Apart' /\ (\A k \in Keys : PutRight(k)') /\ (free \cup given)' \subseteq Bufs'
  <2>1. PICK R : R = {}
    OBVIOUS
  <2>2. free' \cap given' = {}
    BY DEF IInv, Apart
  <2> QED BY <1>2, <2>1, <2>2, LoadKeepsApart
<1>5. Types'
  BY <1>1, <1>4 DEF IInv, Types
<1>6. StoreRight'
  BY <1>1 DEF IInv, StoreRight, Right
<1>7. LoadRight'
  BY DEF IInv, LoadRight
<1> QED BY <1>3, <1>4, <1>5, <1>6, <1>7 DEF IInv

LEMMA ElsewhereRight ==
    ASSUME IInv, Track,
           \/ Consume \/ OtherLookup \/ OtherLookupEnds
           \/ \E k \in Keys : Drop(k) \/ RemoveSync(k) \/ Replicate(k)
    PROVE  IInv'
<1>1. /\ mode' = mode /\ mem' = mem /\ put' = put /\ get' = get /\ load' = load /\ pos' = pos
      /\ answer' = answer /\ tmp' = tmp /\ late' = late
      /\ \/ free' = free /\ given' = given
         \/ free' = free \cup given /\ given' = {}
  BY DEF Consume, OtherLookup, OtherLookupEnds, Drop, RemoveSync, Replicate, loading, store
<1>2. LiveRight' /\ live \subseteq live'
  BY <1>1, LiveKept
<1>3. /\ meta \in [Keys -> BOOLEAN] /\ data \in [Keys -> Contents] /\ None \in Contents
      /\ lag \in [Keys -> [meta: BOOLEAN, data: Contents]]
  BY DEF IInv, Types, Contents
<1> DEFINE Forgets ==
              /\ meta' \in [Keys -> BOOLEAN] /\ data' \in [Keys -> Contents]
              /\ lag' \in [Keys -> [meta: BOOLEAN, data: Contents]]
              /\ \A k \in Keys : data'[k] \in {data[k], None} /\ lag'[k].data \in {lag[k].data, data[k]}
<1>4. Forgets
  <2>1. CASE Consume \/ OtherLookup \/ OtherLookupEnds
    <3>1. meta' = meta /\ data' = data /\ lag' = lag
      BY <2>1 DEF Consume, OtherLookup, OtherLookupEnds, store
    <3> QED BY <1>3, <3>1
  <2>2. ASSUME NEW k \in Keys, Drop(k)
        PROVE  Forgets
    <3>1. PICK m, d \in BOOLEAN : /\ meta' = [meta EXCEPT ![k] = @ /\ ~m]
                                  /\ data' = [data EXCEPT ![k] = IF d THEN None ELSE @]
      BY <2>2 DEF Drop
    <3>2. lag' = lag
      BY <2>2 DEF Drop
    <3> QED BY <1>3, <3>1, <3>2
  <2>3. ASSUME NEW k \in Keys, RemoveSync(k)
        PROVE  Forgets
    BY <1>3, <2>3 DEF RemoveSync
  <2>4. ASSUME NEW k \in Keys, Replicate(k)
        PROVE  Forgets
    <3>1. PICK m \in {meta[k], lag[k].meta} :
             lag' = [lag EXCEPT ![k] = [meta |-> m, data |-> data[k]]]
      BY <2>4 DEF Replicate
    <3>2. PICK v : v = [meta |-> m, data |-> data[k]]
      OBVIOUS
    <3>3. v \in [meta: BOOLEAN, data: Contents] /\ v.data = data[k]
      BY <1>3, <3>1, <3>2
    <3>4. lag' = [lag EXCEPT ![k] = v]
      BY <3>1, <3>2
    <3>5. meta' = meta /\ data' = data
      BY <2>4 DEF Replicate
    <3> QED BY <1>3, <3>3, <3>4, <3>5
  <2> QED BY <2>1, <2>2, <2>3, <2>4
<1> QED BY <1>1, <1>2, <1>4, Elsewhere

-----------------------------------------------------------------------------

\* What a step is, whatever sleeps.
GetRuns(k) == GetSteps(k) \/ GetWake(k)
LEMMA NextIs ==
    ASSUME Next
    PROVE  /\ Track
           /\ \/ \E i \in {"us", "peer"} : SubmitBatch(i) \/ \E k \in Keys : SubmitPut(i, k)
              \/ \E i \in {"us", "peer"}, k \in Keys : PutSteps(i, k)
              \/ \E k \in Keys : PutTimesOut(k) \/ LeaseExpires(k) \/ GetRuns(k)
              \/ Begin \/ LoadSteps \/ Environment
  BY DEF Next, OwnSteps, GetRuns

\* IInv is inductive.
LEMMA Inductive ==
    ASSUME HeadersKept, IInv, [Next]_vars
    PROVE  IInv'
<1>1. CASE Next
  <2>1. Track
    BY <1>1 DEF Next
  <2>2. ASSUME NEW i \in {"us", "peer"}, SubmitBatch(i) \/ \E k \in Keys : SubmitPut(i, k)
        PROVE  IInv'
    <3>1. \E ks \in SUBSET Keys : Submit(i, ks)
      BY <2>2 DEF SubmitBatch, SubmitPut, PutsOf
    <3> QED BY <2>1, <2>2, <3>1, SubmitRight DEF Engines
  <2>3. ASSUME NEW i \in {"us", "peer"}, NEW k \in Keys, PutSteps(i, k)
        PROVE  IInv'
    BY <2>1, <2>3, PutRequests, PutFailsRight DEF PutSteps, Engines
  <2>4. ASSUME NEW k \in Keys, PutTimesOut(k) \/ LeaseExpires(k)
        PROVE  IInv'
    BY <2>1, <2>4, PutTimesOutRight, GetOthersRight
  <2>5. ASSUME NEW k \in Keys, GetRuns(k)
        PROVE  IInv'
    BY <2>1, <2>5, GetRequests, GetAllocRight, GetCopyRight, GetDataRight, GetFailsRight,
       GetOthersRight, GetWakeRight DEF GetRuns, GetSteps
  <2>6. CASE Begin \/ LoadSteps
    BY <2>1, <2>6, LookupRight, ReturnsRight, LoadTimesOutRight, ElsewhereRight DEF LoadSteps
  <2>7. CASE Environment
    BY <2>1, <2>7, ElsewhereRight DEF Environment
  <2> QED BY <1>1, <2>2, <2>3, <2>4, <2>5, <2>6, <2>7, NextIs
<1>2. CASE UNCHANGED vars
  <2>1. /\ mode' = mode /\ mem' = mem /\ put' = put /\ get' = get /\ load' = load /\ pos' = pos
        /\ answer' = answer /\ tmp' = tmp /\ late' = late /\ free' = free /\ given' = given
        /\ meta' = meta /\ data' = data /\ lag' = lag /\ live' = live
    BY <1>2 DEF vars, store, loading
  <2>2. LiveRight'
    BY <2>1 DEF IInv, LiveRight, Stored
  <2>3. /\ meta \in [Keys -> BOOLEAN] /\ data \in [Keys -> Contents]
        /\ lag \in [Keys -> [meta: BOOLEAN, data: Contents]]
    BY DEF IInv, Types
  <2> QED BY <2>1, <2>2, <2>3, Elsewhere
<1> QED BY <1>1, <1>2

\* Whatever the connector, the other engine and the store do: what is stored under
\* a key is that chunk, what a get holds in a buffer after its last request is its
\* chunk, that chunk was in the store since the load began, and no buffer of the
\* pool has two holders.
THEOREM Invariant == Spec /\ HeadersKept => []IInv
<1> SUFFICES ASSUME HeadersKept
             PROVE  Spec => []IInv
  OBVIOUS
<1>1. Init => IInv
  BY Initially
<1>2. IInv /\ [Next]_vars => IInv'
  BY Inductive
<1> QED BY <1>1, <1>2, PTL DEF Spec

-----------------------------------------------------------------------------
(* The answer to a load.                                                     *)

\* A set of positions with every position before each of them.
LEMMA Prefix ==
    ASSUME NEW n \in Nat, NEW S \in SUBSET (1..n), \A i \in S : 1..i \subseteq S
    PROVE  \E m \in 0..n : S = 1..m /\ Cardinality(S) = m
<1> DEFINE T == {x \in Nat : x + 1 \notin S}
<1>1. n \in T /\ T \in SUBSET Nat
  OBVIOUS
<1>2. PICK m \in T : \A x \in T : m <= x
  BY <1>1, LeastNat
<1>3. m \in 0..n /\ m + 1 \notin S
  BY <1>1, <1>2
<1>4. ASSUME NEW x \in 1..m
      PROVE  x \in S
  <2>1. x - 1 \in Nat /\ ~(m <= x - 1) /\ (x - 1) + 1 = x
    BY <1>3, <1>4
  <2> QED BY <1>2, <2>1
<1>5. ASSUME NEW y \in S
      PROVE  y \in 1..m
  <2>1. m + 1 \notin 1..y
    BY <1>3, <1>5
  <2> QED BY <1>3, <1>5, <2>1
<1>6. S = 1..m
  BY <1>4, <1>5
<1>7. 1 \in Int /\ m \in Int
  BY <1>3
<1>8. Cardinality(1..m) = m
  <2>1. Cardinality(1..m) = IF 1 > m THEN 0 ELSE m - 1 + 1
    BY <1>7, FS_Interval
  <2> QED BY <1>3, <2>1
<1> QED BY <1>3, <1>6, <1>8

\* The chunks up to the first that is missing.
LEMMA UpToMissing ==
    ASSUME NEW n \in Nat, NEW a \in [1..n -> Contents], \A i \in 1..n : a[i] \in {None, i}
    PROVE  \E m \in 0..n :
              /\ SubSeq(a, 1, Cardinality({i \in DOMAIN a : \A j \in 1..i : a[j] # None}))
                    = [i \in 1..m |-> i]
              /\ \A i \in 1..m : a[i] = i
<1> DEFINE S == {i \in DOMAIN a : \A j \in 1..i : a[j] # None}
<1>1. S \in SUBSET (1..n) /\ \A i \in S : 1..i \subseteq S
  OBVIOUS
<1>2. PICK m \in 0..n : S = 1..m /\ Cardinality(S) = m
  BY <1>1, Prefix
<1>3. ASSUME NEW i \in 1..m
      PROVE  i \in 1..n /\ a[i] = i
  <2>1. i \in S /\ i \in 1..i
    BY <1>2, <1>3
  <2>2. i \in DOMAIN a /\ a[i] # None
    BY <2>1
  <2> QED BY <2>2
<1>4. SubSeq(a, 1, m) = [i \in 1..m |-> i]
  <2>1. 1 \in Int /\ m \in Int /\ m \in Nat /\ \A i \in 1..m : a[i] \in Contents
    BY <1>3
  <2>2. /\ SubSeq(a, 1, m) \in Seq(Contents)
        /\ Len(SubSeq(a, 1, m)) = IF 1 <= m THEN m - 1 + 1 ELSE 0
        /\ \A i \in 1..m - 1 + 1 : SubSeq(a, 1, m)[i] = a[1 + i - 1]
    BY <2>1, SubSeqProperties
  <2>3. PICK s : s = SubSeq(a, 1, m)
    OBVIOUS
  <2>4. s \in Seq(Contents) /\ Len(s) = m /\ \A i \in 1..m : s[i] = a[i]
    BY <2>1, <2>2, <2>3
  <2>5. s = [i \in 1..m |-> i]
    BY <1>3, <2>4
  <2> QED BY <2>3, <2>5
<1> QED BY <1>2, <1>3, <1>4

LEMMA FirstChunksNone ==
    ASSUME answer = <<>>
    PROVE  FirstChunks = <<>>
<1>0. {i \in DOMAIN answer : \A j \in 1..i : answer[j] # None} = {}
  OBVIOUS
<1>1. FirstChunks = SubSeq(answer, 1, Cardinality({}))
  BY <1>0 DEF FirstChunks
<1>2. 0 < 1 /\ 0 \in Int /\ 1 \in Int
  OBVIOUS
<1>3. Cardinality({}) = 0
  BY FS_EmptySet
<1> QED BY <1>1, <1>2, <1>3, SubSeqEmpty

\* The n-th of the first m chunks is chunk n.
LEMMA OrderedFirst ==
    ASSUME NEW m \in Nat
    PROVE  Ordered(1..m) = [n \in 1..m |-> mem[get[n].buf]]
<1>1. \A x \in 0..m : Cardinality(1..x) = x
  <2>1. ASSUME NEW x \in 0..m
        PROVE  Cardinality(1..x) = x
    <3>1. 1 \in Int /\ x \in Int
      BY <2>1
    <3>2. Cardinality(1..x) = IF 1 > x THEN 0 ELSE x - 1 + 1
      BY <3>1, FS_Interval
    <3> QED BY <2>1, <3>2
  <2> QED BY <2>1
<1>2. Cardinality(1..m) = m
  BY <1>1
<1> DEFINE nth(n) == CHOOSE k \in 1..m : Cardinality({j \in 1..m : j <= k}) = n
<1>3. ASSUME NEW n \in 1..m
      PROVE  nth(n) = n
  <2>1. \A k \in 1..m : {j \in 1..m : j <= k} = 1..k
    OBVIOUS
  <2>2. ASSUME NEW k \in 1..m
        PROVE  Cardinality({j \in 1..m : j <= k}) = k
    <3>1. PICK S : S = {j \in 1..m : j <= k}
      OBVIOUS
    <3>2. S = 1..k /\ Cardinality(1..k) = k
      BY <1>1, <2>1, <2>2, <3>1
    <3> QED BY <3>1, <3>2
  <2> QED BY <2>2
<1>4. Ordered(1..m) = [n \in 1..Cardinality(1..m) |-> mem[get[nth(n)].buf]]
  BY DEF Ordered
<1> HIDE DEF nth
<1> QED BY <1>2, <1>3, <1>4

\* A load is given its first chunks, which were in the store since it began.
LEMMA ReturnAnswers ==
    ASSUME IInv, Track, ReturnPrefix \/ ReturnFiltered \/ ReturnBatch \/ ReturnEach,
           late' = {}, ~holed'
    PROVE  \E n \in 0..NumKeys : FirstChunks' = [i \in 1..n |-> i] /\ 1..n \subseteq live
<1>1. NumKeys \in Nat /\ pos \in 1..NumKeys + 1 /\ Keys = 1..NumKeys /\ load = "load"
      /\ pos - 1 \in 0..NumKeys
  <2>1. NumKeys \in Nat /\ pos \in 1..NumKeys + 1
    BY ConnectorAssumption DEF IInv, Types
  <2> QED BY <2>1 DEF Keys, ReturnPrefix, ReturnFiltered, ReturnBatch, ReturnEach
<1>2. Hits = 1..pos - 1 /\ Hits \subseteq Keys
  BY <1>1 DEF Hits
<1>3. late = {}
  BY DEF ReturnPrefix, ReturnFiltered, ReturnBatch, ReturnEach, Return
<1>4. ASSUME NEW k \in Hits, Ok(k)
      PROVE  mem[get[k].buf] = k /\ k \in live
  BY <1>1, <1>2, <1>3, <1>4 DEF IInv, GetRight, Filled
<1> DEFINE Given ==
              \E n \in 0..NumKeys :
                 /\ answer' \in [1..n -> Contents]
                 /\ \A i \in 1..n : answer'[i] \in {None, i} /\ (answer'[i] = i => i \in live)
<1>5. Given
  <2>1. ASSUME NEW ks \in SUBSET Hits, \A k \in ks : Ok(k), answer' = AtPosition(ks)
        PROVE  Given
    <3>1. answer' = [k \in 1..pos - 1 |-> IF k \in ks THEN mem[get[k].buf] ELSE None]
      BY <1>2, <2>1 DEF AtPosition
    <3>2. \A k \in ks : mem[get[k].buf] = k /\ k \in live
      BY <1>4, <2>1
    <3>3. /\ answer' \in [1..pos - 1 -> Contents]
          /\ \A k \in 1..pos - 1 : answer'[k] \in {None, k} /\ (answer'[k] = k => k \in live)
      BY <1>1, <1>2, <3>1, <3>2 DEF Contents, None
    <3> QED BY <1>1, <3>3
  <2>2. ASSUME NEW m \in 0..NumKeys, 1..m \subseteq Hits, \A k \in 1..m : Ok(k),
               answer' = Ordered(1..m)
        PROVE  Given
    <3>1. answer' = [n \in 1..m |-> mem[get[n].buf]]
      BY <2>2, OrderedFirst
    <3>2. \A k \in 1..m : mem[get[k].buf] = k /\ k \in live /\ k \in Contents
      BY <1>2, <1>4, <2>2 DEF Contents
    <3> QED BY <3>1, <3>2
  <2>3. CASE ReturnBatch
    <3>1. \E ks \in {{}, {k \in Hits : Ok(k)}} : answer' = AtPosition(ks)
      BY <2>3 DEF ReturnBatch, Return
    <3> QED BY <2>1, <3>1
  <2>4. CASE ReturnEach
    BY <2>1, <2>4 DEF ReturnEach, Return
  <2>5. CASE ReturnFiltered
    <3>1. PICK oks \in {{}, {k \in Hits : Ok(k)}} :
             answer' = Ordered(oks) /\ holed' = (oks # {} /\ oks # 1..Cardinality(oks))
      BY <2>5 DEF ReturnFiltered, Return
    <3>2. 0 \in Int /\ 1 \in Int /\ NumKeys \in Int
      BY <1>1
    <3>3. /\ IsFiniteSet(1..NumKeys) /\ Cardinality(1..NumKeys) = NumKeys
          /\ Cardinality({}) = 0 /\ oks \subseteq 1..NumKeys /\ \A k \in oks : k \in Hits /\ Ok(k)
      <4>1. Cardinality(1..NumKeys) = IF 1 > NumKeys THEN 0 ELSE NumKeys - 1 + 1
        BY <3>2, FS_Interval
      <4>2. IsFiniteSet(1..NumKeys)
        BY <3>2, FS_Interval
      <4> QED BY <1>1, <1>2, <3>1, <4>1, <4>2, FS_EmptySet
    <3>4. Cardinality(oks) \in Nat
      BY <3>3, FS_Subset, FS_CardinalityType
    <3>5. Cardinality(oks) <= NumKeys
      BY <3>3, FS_Subset
    <3>6. oks = 1..Cardinality(oks)
      <4>1. CASE oks = {}
        <5>1. Cardinality(oks) = 0 /\ 1..0 = {}
          BY <3>3, <4>1
        <5> QED BY <4>1, <5>1
      <4>2. CASE oks # {}
        BY <3>1, <4>2
      <4> QED BY <4>1, <4>2
    <3>7. PICK m \in 0..NumKeys : oks = 1..m
      BY <1>1, <3>4, <3>5, <3>6
    <3> QED BY <2>2, <3>1, <3>3, <3>7
  <2>6. CASE ReturnPrefix
    <3>0. PICK p, G : p = pos - 1 /\ G = GoodPrefix
      OBVIOUS
    <3>1. p \in Nat /\ G \in SUBSET (1..p) /\ \A i \in G : 1..i \subseteq G
      BY <1>1, <1>2, <3>0 DEF GoodPrefix
    <3>2. PICK m \in 0..p : GoodPrefix = 1..m
      BY <3>0, <3>1, Prefix
    <3>3. m \in 0..NumKeys /\ \A k \in 1..m : k \in Hits /\ Ok(k)
      <4>1. m \in 0..NumKeys
        BY <1>1, <3>0, <3>2
      <4>2. \A k \in 1..m : k \in GoodPrefix /\ k \in 1..k
        BY <3>2
      <4> QED BY <4>1, <4>2 DEF GoodPrefix
    <3>4. answer' = Ordered(1..m)
      BY <2>6, <3>2 DEF ReturnPrefix, Return
    <3> QED BY <2>2, <3>3, <3>4
  <2> QED BY <2>3, <2>4, <2>5, <2>6
<1>6. PICK n \in 0..NumKeys :
         /\ answer' \in [1..n -> Contents]
         /\ \A i \in 1..n : answer'[i] \in {None, i} /\ (answer'[i] = i => i \in live)
  BY <1>5
<1>7. PICK a : a = answer'
  OBVIOUS
<1>8. n \in Nat /\ a \in [1..n -> Contents] /\ \A i \in 1..n : a[i] \in {None, i}
  BY <1>1, <1>6, <1>7
<1>9. PICK m \in 0..n :
         /\ SubSeq(a, 1, Cardinality({i \in DOMAIN a : \A j \in 1..i : a[j] # None}))
               = [i \in 1..m |-> i]
         /\ \A i \in 1..m : a[i] = i
  BY <1>8, UpToMissing
<1>10. FirstChunks' = [i \in 1..m |-> i]
  BY <1>7, <1>9 DEF FirstChunks
<1>11. \A i \in 1..m : i \in live
  BY <1>6, <1>7, <1>9
<1>12. m \in 0..NumKeys
  BY <1>1
<1> QED BY <1>10, <1>11, <1>12

-----------------------------------------------------------------------------
(* Every connector implements KVStore.                                       *)

\* Any other step but the beginning of the load touches one chunk of the store.
LEMMA OneChunk ==
    ASSUME IInv, Next,
           ~(Begin \/ ReturnPrefix \/ ReturnFiltered \/ ReturnBatch \/ ReturnEach)
    PROVE  /\ mode' = mode /\ answer' = answer /\ (load' = "idle" <=> load = "idle")
           /\ \E k \in Keys : \A j \in Keys \ {k} : data'[j] = data[j] /\ lag'[j] = lag[j]
<1> DEFINE Touches(k) ==
              /\ mode' = mode /\ answer' = answer /\ (load' = "idle" <=> load = "idle")
              /\ \A j \in Keys \ {k} : data'[j] = data[j] /\ lag'[j] = lag[j]
<1>0. 1 \in Keys /\ data \in [Keys -> Contents] /\ lag \in [Keys -> [meta: BOOLEAN, data: Contents]]
  BY ConnectorAssumption DEF Keys, IInv, Types
<1>1. ASSUME NEW i \in {"us", "peer"}, SubmitBatch(i) \/ \E k \in Keys : SubmitPut(i, k)
      PROVE  Touches(1)
  BY <1>1 DEF SubmitBatch, SubmitPut, Submit, store, loading
<1>2. ASSUME NEW i \in {"us", "peer"}, NEW k \in Keys, PutSteps(i, k)
      PROVE  Touches(k)
  <2>1. mode' = mode /\ UNCHANGED loading /\ lag' = lag
    BY <1>2 DEF PutSteps, PutData, PutMeta, PutWhole, PutKeep, PutUpload, PutTmp, PutFill,
                PutPublish, PutFails, store
  <2>2. \A j \in Keys \ {k} : data'[j] = data[j]
    BY <1>0, <1>2 DEF PutSteps, PutData, PutMeta, PutWhole, PutKeep, PutUpload, PutTmp, PutFill,
                PutPublish, PutFails, store
  <2> QED BY <2>1, <2>2 DEF loading
<1>3. ASSUME NEW k \in Keys, PutTimesOut(k)
      PROVE  Touches(k)
  BY <1>3 DEF PutTimesOut, store, loading
<1>4. ASSUME NEW k \in Keys, GetRuns(k) \/ LeaseExpires(k)
      PROVE  Touches(k)
  BY <1>4 DEF GetRuns, GetWake, GetSteps, LeaseExpires, GetMeta, GetSize, GetBoth, GetLease, GetToken, GetAlloc, GetCopy,
              GetData, GetRepair, GetRelease, GetUnsupported, GetFails, quiet, store
<1>5. ASSUME \/ Lookup \/ LookupTimesOut \/ LoadTimesOut \/ Consume
             \/ OtherLookup \/ OtherLookupEnds
      PROVE  Touches(1)
  BY <1>5 DEF Lookup, LookupTimesOut, LoadTimesOut, Consume, OtherLookup, OtherLookupEnds, store,
              loading
<1>6. ASSUME NEW k \in Keys, Drop(k) \/ RemoveSync(k) \/ Replicate(k)
      PROVE  Touches(k)
  <2>1. mode' = mode /\ UNCHANGED loading
    BY <1>6 DEF Drop, RemoveSync, Replicate
  <2>2. \A j \in Keys \ {k} : data'[j] = data[j] /\ lag'[j] = lag[j]
    BY <1>0, <1>6 DEF Drop, RemoveSync, Replicate
  <2> QED BY <2>1, <2>2 DEF loading
<1> HIDE DEF Touches
<1>7. \E k \in Keys : Touches(k)
  <2>1. \/ \E i \in {"us", "peer"} : SubmitBatch(i) \/ \E k \in Keys : SubmitPut(i, k)
        \/ \E i \in {"us", "peer"}, k \in Keys : PutSteps(i, k)
        \/ \E k \in Keys : PutTimesOut(k)
        \/ \E k \in Keys : GetRuns(k) \/ LeaseExpires(k)
        \/ Lookup \/ LookupTimesOut \/ LoadTimesOut \/ Consume \/ OtherLookup \/ OtherLookupEnds
        \/ \E k \in Keys : Drop(k) \/ RemoveSync(k) \/ Replicate(k)
    BY NextIs DEF LoadSteps, Environment
  <2> QED BY <2>1, <1>0, <1>1, <1>2, <1>3, <1>4, <1>5, <1>6
<1> QED BY <1>7 DEF Touches

abstract == <<Stored, live, load # "idle", FirstChunks>>

LEMMA StepImplements ==
    ASSUME IInv, [Next]_vars
    PROVE  [KV!Next \/ late' # {} \/ holed']_abstract
<1> SUFFICES ASSUME Next, late' = {}, ~holed'
             PROVE  KV!Next \/ UNCHANGED abstract
  <2>1. CASE UNCHANGED vars
    BY <2>1 DEF vars, store, loading, abstract, Stored, FirstChunks
  <2> QED BY <2>1
<1>0. KV!Keys = Keys /\ Stored \subseteq Keys /\ (load = "idle" => live = {})
      /\ (load # "idle" => Stored \subseteq live) /\ live \subseteq Keys /\ Track
  BY DEF KV!Keys, Keys, Stored, IInv, LiveRight, Next
<1>1. CASE Begin
  <2>1. /\ mode' = mode /\ data' = data /\ lag' = lag /\ answer' = answer /\ load = "idle"
        /\ load' = "lookup"
    BY <1>1 DEF Begin, store
  <2>2. Stored' = Stored /\ FirstChunks' = FirstChunks
    BY <2>1 DEF Stored, FirstChunks
  <2>3. live' = Stored
    BY <1>0, <2>1, <2>2 DEF Track
  <2>4. KV!Begin
    BY <2>1, <2>2, <2>3 DEF KV!Begin
  <2> QED BY <2>4 DEF KV!Next
<1>2. CASE ReturnPrefix \/ ReturnFiltered \/ ReturnBatch \/ ReturnEach
  <2>1. PICK n \in 0..NumKeys : FirstChunks' = [i \in 1..n |-> i] /\ 1..n \subseteq live
    BY <1>0, <1>2, ReturnAnswers
  <2>2. /\ mode' = mode /\ data' = data /\ lag' = lag /\ load = "load" /\ load' = "done"
    BY <1>2 DEF ReturnPrefix, ReturnFiltered, ReturnBatch, ReturnEach, Return, store
  <2>3. answer = <<>>
    BY <2>2 DEF IInv, LoadRight
  <2>4. FirstChunks = <<>>
    BY <2>3, FirstChunksNone
  <2>5. Stored' = Stored
    BY <2>2 DEF Stored
  <2>6. live' = live
    BY <1>0, <2>2, <2>5 DEF Track
  <2>7. CASE n = 0
    <3>1. FirstChunks' = <<>>
      BY <2>1, <2>7
    <3> QED BY <2>2, <2>4, <2>5, <2>6, <3>1 DEF abstract
  <2>8. CASE n # 0
    <3>1. n \in KV!Keys
      BY <2>8, ConnectorAssumption DEF KV!Keys
    <3>2. KV!Answer(n)
      BY <2>1, <2>2, <2>4, <2>5, <2>6 DEF KV!Answer
    <3> QED BY <3>1, <3>2 DEF KV!Next
  <2> QED BY <2>7, <2>8
<1>3. CASE ~(Begin \/ ReturnPrefix \/ ReturnFiltered \/ ReturnBatch \/ ReturnEach)
  <2>1. /\ mode' = mode /\ answer' = answer /\ (load' = "idle" <=> load = "idle")
        /\ \E k \in Keys : \A j \in Keys \ {k} : data'[j] = data[j] /\ lag'[j] = lag[j]
    BY <1>3, OneChunk
  <2>2. PICK k \in Keys : \A j \in Keys \ {k} : data'[j] = data[j] /\ lag'[j] = lag[j]
    BY <2>1
  <2>3. \A j \in Keys \ {k} : j \in Stored' <=> j \in Stored
    BY <2>1, <2>2 DEF Stored
  <2>4. Stored' \subseteq Keys
    BY DEF Stored
  <2>5. FirstChunks' = FirstChunks /\ (load # "idle")' = (load # "idle")
    BY <2>1 DEF FirstChunks
  <2>6. live' = IF load = "idle" THEN {} ELSE live \cup Stored'
    BY <1>0, <2>1 DEF Track
  <2>7. CASE k \in Stored'
    <3>1. Stored' = Stored \cup {k}
      BY <1>0, <2>3, <2>4, <2>7
    <3>2. live' = IF load # "idle" THEN live \cup {k} ELSE live
      BY <1>0, <2>6, <3>1
    <3>3. KV!Put(k)
      BY <2>5, <3>1, <3>2 DEF KV!Put
    <3> QED BY <1>0, <3>3 DEF KV!Next
  <2>8. CASE k \notin Stored'
    <3>1. Stored' = Stored \ {k}
      BY <1>0, <2>3, <2>4, <2>8
    <3>2. live' = live
      BY <1>0, <2>6, <3>1
    <3>3. KV!Lose(k)
      BY <2>5, <3>1, <3>2 DEF KV!Lose
    <3> QED BY <1>0, <3>3 DEF KV!Next
  <2> QED BY <2>7, <2>8
<1> QED BY <1>1, <1>2, <1>3

LEMMA InitImplements ==
    ASSUME Init
    PROVE  KV!Init
<1>1. answer = <<>> /\ load = "idle" /\ live = {}
  BY DEF Init
<1>2. FirstChunks = <<>>
  BY <1>1, FirstChunksNone
<1>3. Stored \subseteq KV!Keys /\ (load # "idle") = FALSE
  BY <1>1 DEF Stored, Keys, KV!Keys
<1> QED BY <1>1, <1>2, <1>3 DEF KV!Init

\* Whatever the connector, the other engine and the eviction of the store do, a load
\* is answered with the first chunks of its prompt, each of them whole, at its place,
\* and in the store at some time since the load began; unless a buffer or a lease was
\* given up too early or a connector closed a hole in its answer.
THEOREM Implements == Spec /\ HeadersKept => ImplementsKVStore
<1> SUFFICES ASSUME HeadersKept
             PROVE  Spec => ImplementsKVStore
  OBVIOUS
<1>1. Init => IInv /\ KV!Init
  BY Initially, InitImplements
<1>2. IInv /\ [Next]_vars => IInv'
  BY Inductive
<1>3. IInv /\ [Next]_vars => [KV!Next \/ late' # {} \/ holed']_abstract
  BY StepImplements
<1>4. ImplementsKVStore <=> KV!Init /\ [][KV!Next \/ late' # {} \/ holed']_abstract
  BY DEF ImplementsKVStore, abstract
<1> QED BY <1>1, <1>2, <1>3, <1>4, PTL DEF Spec

-----------------------------------------------------------------------------
(* No buffer is lost: what the outcome of a get tells of the faults it met.  *)

\* A get that raised met a failed request, which its connector does not catch, or
\* is a load its connector does not support.
Causes ==
    \A k \in Keys : get[k].out = "raise" =>
        \/ "error" \in seen /\ Is({"redis", "cluster", "sentinel", "valkey", "lm"})
        \/ mode.kind = "mooncake" /\ mode.via = "prefetch"

\* Only a timeout leaves gets behind.
NobodyLeft ==
    load = "done" /\ "timeout" \notin seen => \A k \in Keys : get[k].out \notin {"run", "asleep"}

\* The connectors that forget the buffer of a missing content: without evictions
\* and failures they do not find metadata without content.
Fragile == Is({"redis", "cluster", "sentinel", "eic"})
Backed ==
    Fragile /\ seen \cap {"drop", "error"} = {} =>
        /\ late = {}
        /\ \A k \in Keys :
              /\ lag[k].data # None => data[k] # None
              /\ mode.kind # "eic" =>
                    /\ meta[k] => data[k] # None
                    /\ lag[k].meta => lag[k].data # None
                    /\ \A i \in Engines : PutStep(i, k) = "meta" => data[k] # None
              /\ mode.kind = "eic" /\ k < pos => data[k] # None
              /\ GetStep(k) \in {"alloc", "data"} \/ get[k].out = "asleep" => DataOf(k) # None

LEMMA FragilePrograms ==
    ASSUME Fragile
    PROVE  /\ GetProgram = <<"meta", "alloc", "data">>
           /\ PutProgram = IF mode.kind = "eic" THEN <<"meta", "data">> ELSE <<"data", "meta">>
  BY DEF Fragile, Is, GetProgram, PutProgram, RedisGet, ClusterGet, SentinelGet, EICGet, RedisPut,
         ClusterPut, SentinelPut, EICPut

LEMMA OnlyMooncake ==
    ASSUME mode.kind \in Kinds, mode.via \in {"prefetch", "blocking"},
           NEW pc \in 1..Len(GetProgram), GetProgram[pc] = "unsupported"
    PROVE  mode.kind = "mooncake" /\ mode.via = "prefetch"
<1>1. CASE mode.kind = "mooncake"
  <2>1. GetProgram = IF mode.via = "blocking" THEN <<"alloc", "data">> ELSE <<"unsupported">>
    BY <1>1 DEF GetProgram, Is, MooncakeGet
  <2>2. mode.via # "blocking"
    BY <2>1
  <2> QED BY <1>1, <2>2
<1>2. CASE mode.kind # "mooncake"
  <2>1. GetProgram \in {RedisGet, ClusterGet, SentinelGet, ValkeyGet, EICGet, FSGet, LMGet, S3Get,
                        InfinistoreGet, SageMakerGet}
    BY <1>2 DEF GetProgram, Is, Kinds
  <2> QED BY <2>1 DEF RedisGet, ClusterGet, SentinelGet, ValkeyGet, EICGet, FSGet, LMGet, S3Get,
                     InfinistoreGet, SageMakerGet
<1> QED BY <1>1, <1>2

\* The connectors that read into the buffer.
LEMMA WhoReads ==
    ASSUME mode.kind \in Kinds, NEW pc \in 1..Len(GetProgram), GetProgram[pc] = "data"
    PROVE  Is({"redis", "cluster", "sentinel", "eic", "fs", "s3", "mooncake"})
<1> SUFFICES ASSUME mode.kind \in {"valkey", "lm", "infinistore", "sagemaker"}
             PROVE  FALSE
  BY DEF Is, Kinds
<1>1. CASE mode.kind = "valkey"
  BY <1>1 DEF GetProgram, Is, ValkeyGet
<1>2. CASE mode.kind = "lm"
  BY <1>2 DEF GetProgram, Is, LMGet
<1>3. CASE mode.kind = "infinistore"
  BY <1>3 DEF GetProgram, Is, InfinistoreGet
<1>4. CASE mode.kind = "sagemaker"
  BY <1>4 DEF GetProgram, Is, SageMakerGet
<1> QED BY <1>1, <1>2, <1>3, <1>4

\* The next request of a get, and its end.
Moved(k) ==
    /\ get[k].out \in {"run", "asleep"} /\ get'[k].out \in {"run", "asleep", "ok"}
    /\ \/ free' = free /\ get'[k].buf = get[k].buf /\ get[k].out = "run"
       \/ \E b \in free : free' = free \ {b} /\ get'[k].buf = b /\ get'[k].out = "run"
                          /\ get[k].buf = 0
Stopped(k) ==
    /\ get'[k].out \in {"none", "repair", "raise"} /\ free \subseteq free'
    /\ \/ get[k].out = "repair"
       \/ get[k].out = "run" /\ get[k].buf \in free' \cup {0}
       \/ Fragile /\ ("error" \in seen' \/ (GetStep(k) = "data" /\ DataOf(k) \in {None, Torn}))
    /\ get'[k].out = "raise" =>
          \/ "error" \in seen' /\ Is({"redis", "cluster", "sentinel", "valkey", "lm"})
          \/ mode.kind = "mooncake" /\ mode.via = "prefetch"
\* A cancelled get that wakes keeps the buffer.
Orphaned(k) ==
    /\ get[k].out = "asleep" /\ get'[k].out = "none" /\ load # "load"
    /\ \E b \in free : free' = free \ {b} /\ get'[k].buf = b

LEMMA GetOutcome ==
    ASSUME IInv, NEW k \in Keys, GetSteps(k)
    PROVE  /\ mode' = mode /\ load' = load /\ put' = put /\ given' = given /\ pos' = pos
           /\ get[k].out \in {"run", "repair"} /\ \A j \in Keys \ {k} : get'[j] = get[j]
           /\ seen \subseteq seen'
           /\ Moved(k) \/ Stopped(k)
<1> DEFINE Moves == \E new \in GetType : /\ new.pc = get[k].pc /\ new.out = "run"
                                         /\ GetAdvance(k, new)
                                         /\ \/ new.buf = get[k].buf /\ free' = free
                                            \/ /\ GetStep(k) = "alloc" /\ new.buf \in free
                                               /\ free' = free \ {new.buf}
           Stops(outs) == \E out \in outs, buf \in 0..mode.bufs : GetEnd(k, out, buf)
<1>0. /\ get[k] \in GetType /\ get \in [Keys -> GetType] /\ mode.kind \in Kinds
      /\ mode.via \in {"prefetch", "blocking"} /\ 0 \in 0..mode.bufs /\ GetRight(k)
      /\ DataOf(k) \in Contents /\ None \in Contents /\ free \subseteq Bufs
      /\ Bufs \subseteq 0..mode.bufs /\ Bufs \subseteq Nat /\ get[k].buf \in 0..mode.bufs
  <2>1. mode \in ModeType /\ get \in [Keys -> GetType] /\ GetRight(k) /\ free \subseteq Bufs
    BY ConnectorAssumption DEF IInv, Types, GetType
  <2>2. mode.bufs \in Nat /\ mode.kind \in Kinds /\ mode.via \in {"prefetch", "blocking"}
    BY <2>1 DEF ModeType
  <2>3. DataOf(k) \in Contents /\ None \in Contents
    BY DataOfRight DEF Contents
  <2> QED BY <2>1, <2>2, <2>3 DEF Bufs, GetType
<1>1. /\ mode' = mode /\ load' = load /\ put' = put /\ given' = given /\ pos' = pos
      /\ seen \subseteq seen'
      /\ get[k].out \in {"run", "repair"} /\ (~GetRepair(k) => get[k].out = "run")
  BY DEF GetSteps, GetMeta, GetSize, GetBoth, GetLease, GetToken, GetAlloc, GetCopy, GetData, GetRepair,
         GetRelease, GetUnsupported, GetFails, quiet, GetStep
<1>4. ASSUME Moves, get[k].out = "run"
      PROVE  Moved(k) /\ \A j \in Keys \ {k} : get'[j] = get[j]
  <2>1. PICK new \in GetType : /\ new.pc = get[k].pc /\ new.out = "run" /\ GetAdvance(k, new)
                               /\ \/ new.buf = get[k].buf /\ free' = free
                                  \/ /\ GetStep(k) = "alloc" /\ new.buf \in free
                                     /\ free' = free \ {new.buf}
    BY <1>4
  <2>2. /\ \A j \in Keys \ {k} : get'[j] = get[j]
        /\ get'[k].buf = new.buf /\ get'[k].out \in {"run", "ok"}
        /\ GetStep(k) = "alloc" => get'[k].out = "run"
    BY <1>1, <1>4, <2>1, Advances
  <2>3. GetStep(k) = "alloc" => get[k].buf = 0
    BY <1>0 DEF GetRight, Early
  <2> QED BY <1>4, <2>1, <2>2, <2>3 DEF Moved
<1>5. ASSUME NEW outs \in SUBSET {"none", "repair", "raise"}, Stops(outs)
      PROVE  get'[k].out \in outs /\ \A j \in Keys \ {k} : get'[j] = get[j]
  <2>1. PICK out \in outs, buf \in 0..mode.bufs : GetEnd(k, out, buf)
    BY <1>5
  <2>2. PICK v : v = [get[k] EXCEPT !.out = out, !.buf = buf]
    OBVIOUS
  <2>3. v.out = out /\ get' = [get EXCEPT ![k] = v]
    BY <1>0, <2>1, <2>2 DEF GetEnd, GetType
  <2> QED BY <1>0, <2>1, <2>3
<1>6. ASSUME GetStep(k) \in Early
      PROVE  get[k].buf = 0
  BY <1>0, <1>6 DEF GetRight
<1> HIDE DEF Moves, Stops
<1>7. CASE GetMeta(k) \/ GetSize(k) \/ GetBoth(k) \/ GetLease(k) \/ GetToken(k)
  <2>1. free' = free /\ GetStep(k) \in Early /\ get[k].out = "run"
    BY <1>7 DEF GetMeta, GetSize, GetBoth, GetLease, GetToken, Early, GetStep
  <2>2. Moves \/ Stops({"none"})
    <3>1. ASSUME NEW val \in Contents, GetAdvance(k, [get[k] EXCEPT !.val = val])
          PROVE  Moves
      <4>1. PICK new : new = [get[k] EXCEPT !.val = val]
        OBVIOUS
      <4>2. new \in GetType /\ new.pc = get[k].pc /\ new.out = "run" /\ new.buf = get[k].buf
        BY <1>0, <2>1, <4>1 DEF GetType
      <4>3. GetAdvance(k, new)
        BY <3>1, <4>1
      <4> QED BY <2>1, <4>2, <4>3 DEF Moves
    <3>2. ASSUME GetAdvance(k, get[k])
          PROVE  Moves
      BY <1>0, <2>1, <3>2 DEF Moves
    <3>3. ASSUME NEW out, GetEnd(k, out, 0)
          PROVE  Stops({out})
      BY <1>0, <3>3 DEF Stops
    <3>4. CASE GetMeta(k)
      BY <1>0, <3>1, <3>3, <3>4 DEF GetMeta
    <3>5. CASE GetSize(k) \/ GetToken(k)
      BY <3>2, <3>3, <3>5 DEF GetSize, GetToken
    <3>6. CASE GetBoth(k)
      BY <1>0, <3>1, <3>3, <3>6 DEF GetBoth
    <3>7. CASE GetLease(k)
      BY <1>0, <3>1, <3>3, <3>7 DEF GetLease
    <3> QED BY <1>7, <3>4, <3>5, <3>6, <3>7
  <2>3. CASE Moves
    BY <1>1, <1>4, <2>1, <2>3
  <2>4. CASE Stops({"none"})
    <3>1. get'[k].out = "none" /\ \A j \in Keys \ {k} : get'[j] = get[j]
      BY <1>5, <2>4
    <3> QED BY <1>1, <1>6, <2>1, <3>1 DEF Stopped
  <2> QED BY <2>2, <2>3, <2>4
<1>8. CASE GetAlloc(k)
  <2>1. GetStep(k) = "alloc" /\ get[k].out = "run" /\ get[k].buf = 0
    BY <1>6, <1>8 DEF GetAlloc, Early, GetStep
  <2>2. CASE free = {}
    <3>1. PICK v : v = [get[k] EXCEPT !.out = "asleep"]
      OBVIOUS
    <3>2. v.out = "asleep" /\ v.buf = get[k].buf /\ free' = free /\ get' = [get EXCEPT ![k] = v]
      BY <1>0, <1>8, <2>2, <3>1 DEF GetAlloc, GetType
    <3>3. get'[k] = v /\ \A j \in Keys \ {k} : get'[j] = get[j]
      BY <1>0, <3>2
    <3> QED BY <1>1, <2>1, <3>2, <3>3 DEF Moved
  <2>3. CASE free # {}
    <3>1. PICK b : b = Min(free)
      OBVIOUS
    <3>2. b \in free
      BY <1>0, <2>3, <3>1, MinIs
    <3>3. PICK new : new = [get[k] EXCEPT !.buf = b]
      OBVIOUS
    <3>4. GetAdvance(k, new) /\ free' = free \ {b}
      BY <1>8, <2>3, <3>1, <3>3 DEF GetAlloc
    <3>5. new \in GetType /\ new.pc = get[k].pc /\ new.out = "run" /\ new.buf = b
      BY <1>0, <2>1, <3>2, <3>3 DEF GetType
    <3>6. Moves
      BY <2>1, <3>2, <3>4, <3>5 DEF Moves
    <3> QED BY <1>1, <1>4, <2>1, <3>6
  <2> QED BY <2>2, <2>3
<1>9. CASE GetCopy(k) \/ GetRelease(k)
  <2>1. get[k].out = "run"
    BY <1>9 DEF GetCopy, GetRelease, GetStep
  <2>2. CASE GetAdvance(k, get[k]) /\ free' = free
    <3>1. Moves
      BY <1>0, <2>1, <2>2 DEF Moves
    <3> QED BY <1>1, <1>4, <2>1, <3>1
  <2>3. CASE GetEnd(k, "none", 0) /\ Release(k)
    <3>1. Stops({"none"})
      BY <1>0, <2>3 DEF Stops
    <3>2. get'[k].out = "none" /\ \A j \in Keys \ {k} : get'[j] = get[j]
      BY <1>5, <3>1
    <3> QED BY <1>1, <2>1, <2>3, <3>2 DEF Stopped, Release
  <2>4. \/ GetAdvance(k, get[k]) /\ free' = free
        \/ GetEnd(k, "none", 0) /\ Release(k)
    BY <1>9 DEF GetCopy, GetRelease
  <2> QED BY <2>2, <2>3, <2>4
<1>10. CASE GetData(k)
  <2>1. get[k].out = "run" /\ GetStep(k) = "data"
    BY <1>10 DEF GetData, GetStep
  <2>2. PICK d \in Readable(k) :
           IF d = None \/ (d = Torn /\ mode.meta)
           THEN /\ IF Is({"redis", "cluster", "sentinel"})
                   THEN GetEnd(k, "repair", get[k].buf)
                   ELSE GetEnd(k, "none", IF mode.kind = "eic" THEN get[k].buf ELSE 0)
                /\ IF Is({"redis", "cluster", "sentinel", "eic"}) THEN UNCHANGED free
                   ELSE Release(k)
           ELSE GetAdvance(k, get[k]) /\ free' = free
    BY <1>10 DEF GetData
  <2>3. CASE d = None \/ (d = Torn /\ mode.meta)
    <3>1. Stops({"none", "repair"})
      BY <1>0, <2>2, <2>3 DEF Stops
    <3>2. get'[k].out \in {"none", "repair"} /\ \A j \in Keys \ {k} : get'[j] = get[j]
      BY <1>5, <3>1
    <3>3. CASE Fragile
      <4>1. d = DataOf(k) /\ free' = free
        BY <2>2, <2>3, <3>3 DEF Readable, Fragile, Is
      <4> QED BY <1>1, <2>1, <2>3, <3>2, <3>3, <4>1 DEF Stopped
    <3>4. CASE ~Fragile
      <4>1. free' = free \cup {get[k].buf}
        BY <2>2, <2>3, <3>4 DEF Fragile, Is, Release
      <4> QED BY <1>1, <2>1, <3>2, <4>1 DEF Stopped
    <3> QED BY <3>3, <3>4
  <2>4. CASE ~(d = None \/ (d = Torn /\ mode.meta))
    <3>1. Moves
      BY <1>0, <2>1, <2>2, <2>4 DEF Moves
    <3> QED BY <1>1, <1>4, <2>1, <3>1
  <2> QED BY <2>3, <2>4
<1>11. CASE GetRepair(k)
  <2>1. PICK v : v = [get[k] EXCEPT !.out = "none"]
    OBVIOUS
  <2>2. v.out = "none" /\ get' = [get EXCEPT ![k] = v] /\ get[k].out = "repair" /\ free' = free
    BY <1>0, <1>11, <2>1 DEF GetRepair, GetType
  <2>3. get'[k] = v /\ \A j \in Keys \ {k} : get'[j] = get[j]
    BY <1>0, <2>2
  <2> QED BY <1>1, <2>2, <2>3 DEF Stopped
<1>12. CASE GetUnsupported(k)
  <2>1. /\ GetStep(k) = "unsupported" /\ get[k].out = "run" /\ free' = free
        /\ GetStep(k) = GetProgram[get[k].pc] /\ get[k].pc \in 1..Len(GetProgram)
    BY <1>0, <1>12 DEF GetUnsupported, GetStep, GetRight
  <2>2. Stops({"raise"})
    BY <1>0, <1>12 DEF GetUnsupported, Stops
  <2>3. get'[k].out = "raise" /\ \A j \in Keys \ {k} : get'[j] = get[j]
    BY <1>5, <2>2
  <2>4. mode.kind = "mooncake" /\ mode.via = "prefetch"
    BY <1>0, <2>1, OnlyMooncake
  <2>5. get[k].buf = 0
    BY <1>6, <2>1 DEF Early
  <2> QED BY <1>1, <2>1, <2>3, <2>4, <2>5 DEF Stopped
<1>13. CASE GetFails(k)
  <2>1. /\ get[k].out = "run" /\ "error" \in seen'
        /\ GetStep(k) \in {"meta", "open", "both", "data", "lease"}
    BY <1>13 DEF GetFails, GetStep
  <2>2. /\ IF Is({"fs", "s3", "mooncake", "eic", "sagemaker", "infinistore"})
           THEN Stops({"none"}) ELSE Stops({"raise"})
        /\ free' = IF Is({"fs", "s3", "mooncake"}) THEN free \cup ({get[k].buf} \ {0}) ELSE free
    BY <1>0, <1>13 DEF GetFails, Stops, Is
  <2>3. /\ \A j \in Keys \ {k} : get'[j] = get[j]
        /\ get'[k].out \in {"none", "raise"}
        /\ get'[k].out = "raise" => Is({"redis", "cluster", "sentinel", "valkey", "lm"})
    <3>1. CASE Is({"fs", "s3", "mooncake", "eic", "sagemaker", "infinistore"})
      BY <1>5, <2>2, <3>1
    <3>2. CASE ~Is({"fs", "s3", "mooncake", "eic", "sagemaker", "infinistore"})
      <4>1. Is({"redis", "cluster", "sentinel", "valkey", "lm"})
        BY <1>0, <3>2 DEF Is, Kinds
      <4> QED BY <1>5, <2>2, <3>2, <4>1
    <3> QED BY <3>1, <3>2
  <2>4. get[k].buf \in free' \cup {0} \/ Fragile
    <3>1. CASE GetStep(k) = "data"
      <4>1. Is({"redis", "cluster", "sentinel", "eic", "fs", "s3", "mooncake"})
        BY <1>0, <2>1, <3>1, WhoReads DEF GetStep, GetRight
      <4> QED BY <2>2, <4>1 DEF Fragile, Is
    <3>2. CASE GetStep(k) # "data"
      BY <1>6, <2>1, <3>2 DEF Early
    <3> QED BY <3>1, <3>2
  <2>5. free \subseteq free'
    BY <2>2
  <2> QED BY <1>1, <2>1, <2>3, <2>4, <2>5 DEF Stopped
<1> QED BY <1>7, <1>8, <1>9, <1>10, <1>11, <1>12, <1>13 DEF GetSteps

LEMMA RunOutcome ==
    ASSUME IInv, NEW k \in Keys, GetRuns(k)
    PROVE  /\ mode' = mode /\ load' = load /\ put' = put /\ given' = given /\ pos' = pos
           /\ get[k].out \in {"run", "asleep", "repair"} /\ \A j \in Keys \ {k} : get'[j] = get[j]
           /\ seen \subseteq seen'
           /\ Moved(k) \/ Stopped(k) \/ Orphaned(k)
<1>1. CASE GetSteps(k)
  BY <1>1, GetOutcome
<1>2. CASE GetWake(k)
  <2>1. /\ mode' = mode /\ load' = load /\ put' = put /\ given' = given /\ pos' = pos
        /\ get[k].out = "asleep" /\ seen' = seen
    BY <1>2 DEF GetWake, quiet
  <2>2. get[k].buf = 0
    BY <2>1 DEF IInv, GetRight
  <2> QED BY <1>2, <2>1, <2>2, Wakes DEF Moved, Orphaned
<1> QED BY <1>1, <1>2 DEF GetRuns

LEMMA Grows ==
    ASSUME Next
    PROVE  mode' = mode /\ seen \subseteq seen'
<1>1. CASE \E i \in {"us", "peer"} : SubmitBatch(i) \/ \E k \in Keys : SubmitPut(i, k)
  BY <1>1 DEF SubmitBatch, SubmitPut, Submit
<1>2. CASE \E i \in {"us", "peer"}, k \in Keys : PutSteps(i, k)
  BY <1>2 DEF PutSteps, PutData, PutMeta, PutWhole, PutKeep, PutUpload, PutTmp, PutFill, PutPublish,
              PutFails
<1>3. CASE \E k \in Keys : PutTimesOut(k) \/ LeaseExpires(k) \/ GetRuns(k)
  BY <1>3 DEF GetRuns, GetWake, PutTimesOut, LeaseExpires, GetSteps, GetMeta, GetSize, GetBoth, GetLease, GetToken,
              GetAlloc, GetCopy, GetData, GetRepair, GetRelease, GetUnsupported, GetFails, quiet
<1>4. CASE Begin \/ LoadSteps
  BY <1>4 DEF Begin, LoadSteps, Lookup, LookupTimesOut, ReturnPrefix, ReturnFiltered, ReturnBatch,
              ReturnEach, Return, LoadTimesOut, Consume
<1>5. CASE Environment
  BY <1>5 DEF Environment, Drop, RemoveSync, Replicate, OtherLookup, OtherLookupEnds
<1> QED BY <1>1, <1>2, <1>3, <1>4, <1>5, NextIs

\* The steps that leave every get where it is.
LEMMA GetsStay ==
    ASSUME IInv, Next, ~(\E k \in Keys : GetRuns(k)), ~Lookup, ~LoadTimesOut
    PROVE 
           /\ \A k \in Keys : get'[k].out = get[k].out /\ get'[k].pc = get[k].pc
           /\ load' # load => Begin \/ LookupTimesOut \/ (load = "load" /\ Ended)
<1>1. ASSUME get' = get
      PROVE  \A k \in Keys : get'[k].out = get[k].out /\ get'[k].pc = get[k].pc
  BY <1>1
<1>2. CASE \E i \in {"us", "peer"} : SubmitBatch(i) \/ \E k \in Keys : SubmitPut(i, k)
  BY <1>1, <1>2 DEF SubmitBatch, SubmitPut, Submit, loading, store
<1>3. CASE \E i \in {"us", "peer"}, k \in Keys : PutSteps(i, k)
  BY <1>1, <1>3 DEF PutSteps, PutData, PutMeta, PutWhole, PutKeep, PutUpload, PutTmp, PutFill,
                    PutPublish, PutFails, loading
<1>4. CASE \E k \in Keys : PutTimesOut(k)
  BY <1>1, <1>4 DEF PutTimesOut, loading, store
<1>5. CASE \E k \in Keys : LeaseExpires(k)
  <2>1. PICK k \in Keys, d \in Keys : get' = [get EXCEPT ![k].val = d] /\ load' = load
    BY <1>5 DEF LeaseExpires, quiet, store
  <2>2. PICK v : v = [get[k] EXCEPT !.val = d]
    OBVIOUS
  <2>3. get \in [Keys -> GetType] /\ get' = [get EXCEPT ![k] = v]
    BY <2>1, <2>2 DEF IInv, Types, GetType
  <2>4. v.out = get[k].out /\ v.pc = get[k].pc
    BY <2>2, <2>3 DEF GetType
  <2> QED BY <2>1, <2>3, <2>4
<1>6. CASE Begin \/ LookupTimesOut \/ Consume
  BY <1>1, <1>6 DEF Begin, LookupTimesOut, Consume, store
<1>7. CASE ReturnPrefix \/ ReturnFiltered \/ ReturnBatch \/ ReturnEach
  <2>1. PICK K : /\ get' = [k \in Keys |-> IF k \in Hits THEN [get[k] EXCEPT !.buf =
                                              IF k \in K THEN 0 ELSE @] ELSE get[k]]
                 /\ load = "load" /\ Ended
    <3>1. ASSUME NEW ks, NEW res, NEW drop, Return(ks, res, drop)
          PROVE  \E K : /\ get' = [k \in Keys |-> IF k \in Hits THEN [get[k] EXCEPT !.buf =
                                                     IF k \in K THEN 0 ELSE @] ELSE get[k]]
                       
      BY <3>1 DEF Return, store
    <3>2. \E ks, res, drop : Return(ks, res, drop)
      BY <1>7 DEF ReturnPrefix, ReturnFiltered, ReturnBatch, ReturnEach
    <3> QED BY <1>7, <3>1, <3>2 DEF ReturnPrefix, ReturnFiltered, ReturnBatch, ReturnEach
  <2>2. ASSUME NEW k \in Keys
        PROVE  get'[k].out = get[k].out /\ get'[k].pc = get[k].pc
    <3>1. get[k] \in GetType
      BY <2>2 DEF IInv, Types, GetType
    <3>2. PICK b : get'[k] = get[k] \/ get'[k] = [get[k] EXCEPT !.buf = b]
      BY <2>1, <2>2
    <3> QED BY <3>1, <3>2 DEF GetType
  <2> QED BY <2>1, <2>2
<1>8. CASE Environment
  BY <1>1, <1>8 DEF Environment, Drop, RemoveSync, Replicate, OtherLookup, OtherLookupEnds, loading
<1> QED BY <1>2, <1>3, <1>4, <1>5, <1>6, <1>7, <1>8, NextIs DEF LoadSteps

\* What the two steps that move several gets make of them.
LEMMA LookupStarts ==
    ASSUME IInv, Lookup, NEW k \in Keys
    PROVE  /\ get[k].out = "idle" /\ get'[k].pc = 1 /\ get'[k].buf = 0
           /\ get'[k].out = IF load' = "load" /\ k < pos' THEN "run" ELSE "idle"
<1>1. get[k] = [pc |-> 1, buf |-> 0, val |-> None, out |-> "idle"]
  BY NotStarted DEF Lookup
<1>2. get'[k] = IF load' = "load" /\ k < pos' THEN [get[k] EXCEPT !.out = "run"] ELSE get[k]
  BY DEF Lookup
<1> QED BY <1>1, <1>2

LEMMA TimeoutStops ==
    ASSUME IInv, LoadTimesOut, NEW k \in Keys
    PROVE  /\ "timeout" \in seen' /\ get'[k].buf = get[k].buf
           /\ get'[k].pc = get[k].pc
           /\ get'[k].out = get[k].out \/ (get[k].out = "run" /\ get'[k].out = "none")
<1>1. get[k] \in GetType
  BY DEF IInv, Types, GetType
<1>2. get'[k] = IF get[k].out = "run" /\ ~Executor /\ ~Uninterrupted(k)
                THEN [get[k] EXCEPT !.out = "none"] ELSE get[k]
  BY DEF LoadTimesOut
<1>3. "timeout" \in seen'
  BY DEF LoadTimesOut, store
<1> QED BY <1>1, <1>2, <1>3 DEF GetType

LEMMA CausesKept ==
    ASSUME IInv, Causes, Next
    PROVE  Causes'
<1>0. mode' = mode /\ seen \subseteq seen'
  BY Grows DEF Causes
<1>1. CASE \E k \in Keys : GetRuns(k)
  <2>1. PICK k \in Keys : GetRuns(k)
    BY <1>1
  <2>2. /\ \A j \in Keys \ {k} : get'[j] = get[j]
        /\ Moved(k) \/ Stopped(k) \/ Orphaned(k)
    BY <1>0, <2>1, RunOutcome
  <2> QED BY <1>0, <2>2 DEF Causes, Moved, Stopped, Orphaned, Is
<1>2. CASE Lookup
  <2>1. 1 \in Keys
    BY ConnectorAssumption DEF Keys
  <2>2. \A k \in Keys : get'[k].out # "raise"
    BY <1>2, <2>1, LookupStarts
  <2> QED BY <1>0, <2>2 DEF Causes
<1>3. CASE LoadTimesOut
  <2>1. 1 \in Keys
    BY ConnectorAssumption DEF Keys
  <2>2. \A k \in Keys : get'[k].out \in {get[k].out, "none"}
    BY <1>3, <2>1, TimeoutStops
  <2> QED BY <1>0, <2>2 DEF Causes, Is
<1>4. CASE ~(\E k \in Keys : GetRuns(k)) /\ ~Lookup /\ ~LoadTimesOut
  <2>1. \A k \in Keys : get'[k].out = get[k].out
    BY <1>4, GetsStay
  <2> QED BY <1>0, <2>1 DEF Causes, Is
<1> QED BY <1>1, <1>2, <1>3, <1>4

LEMMA NobodyLeftKept ==
    ASSUME IInv, Causes, NobodyLeft, Next
    PROVE  NobodyLeft'
<1> SUFFICES ASSUME load' = "done", "timeout" \notin seen', NEW k \in Keys
             PROVE  get'[k].out \notin {"run", "asleep"}
  BY DEF NobodyLeft
<1>0. "timeout" \notin seen
  BY Grows DEF Causes
<1>1. CASE \E j \in Keys : GetRuns(j)
  <2>1. PICK j \in Keys : GetRuns(j)
    BY <1>1
  <2>2. /\ load = "done" /\ \A i \in Keys \ {j} : get'[i] = get[i]
        /\ Moved(j) \/ Stopped(j) \/ Orphaned(j)
    BY <1>0, <2>1, RunOutcome
  <2>3. get[j].out \notin {"run", "asleep"} /\ get[k].out \notin {"run", "asleep"}
    BY <1>0, <2>2 DEF NobodyLeft
  <2> QED BY <2>2, <2>3 DEF Moved, Stopped, Orphaned
<1>2. CASE Lookup
  BY <1>2, LookupStarts
<1>3. CASE LoadTimesOut
  BY <1>3, TimeoutStops
<1>4. CASE ~(\E j \in Keys : GetRuns(j)) /\ ~Lookup /\ ~LoadTimesOut
  <2>1. /\ get'[k].out = get[k].out
        /\ load' # load => Begin \/ LookupTimesOut \/ (load = "load" /\ Ended)
    BY <1>4, GetsStay
  <2>2. CASE load = "done"
    BY <1>0, <2>1, <2>2 DEF NobodyLeft
  <2>3. CASE Begin \/ LookupTimesOut
    <3>1. load \in {"idle", "lookup"}
      BY <2>3 DEF Begin, LookupTimesOut
    <3>2. get[k] = [pc |-> 1, buf |-> 0, val |-> None, out |-> "idle"]
      BY <3>1, NotStarted
    <3> QED BY <2>1, <3>2
  <2>4. CASE load = "load" /\ Ended
    <3>1. get[k].out \in {"run", "asleep"} => k < pos
      BY DEF IInv, GetRight
    <3>2. k < pos => k \in Hits
      BY ConnectorAssumption DEF IInv, Types, Keys, Hits
    <3> QED BY <2>1, <2>4, <3>1, <3>2 DEF Ended
  <2> QED BY <2>1, <2>2, <2>3, <2>4
<1> QED BY <1>1, <1>2, <1>3, <1>4

\* The other puts stay as they are when one moves.
LEMMA PutsStay ==
    ASSUME IInv, NEW i \in Engines, NEW k \in Keys, PutAdvance(i, k) \/ EndPut(i, k),
           NEW x \in Engines, NEW j \in Keys, <<x, j>> # <<i, k>>
    PROVE  put'[x][j] = put[x][j]
<1>1. PICK T : put \in [Engines -> [Keys -> T]]
  BY DEF IInv, Types
<1>2. CASE EndPut(i, k) \/ put[i][k].pc = Len(PutProgram)
  <2>1. PICK v : v = Over(put[i][k])
    OBVIOUS
  <2>2. put' = [put EXCEPT ![i][k] = v]
    BY <1>2, <2>1 DEF EndPut, PutAdvance
  <2> QED BY <1>1, <2>2
<1>3. CASE ~(EndPut(i, k) \/ put[i][k].pc = Len(PutProgram))
  <2>1. PICK n : n = put[i][k].pc + 1
    OBVIOUS
  <2>2. put' = [put EXCEPT ![i][k].pc = n]
    BY <1>3, <2>1 DEF PutAdvance
  <2> QED BY <1>1, <2>2
<1> QED BY <1>2, <1>3

\* Where the contents of a fragile connector are: what was there stays, and the
\* metadata come after the content.
LEMMA StoreBacked ==
    ASSUME IInv, Backed, Next, Fragile, seen' \cap {"drop", "error"} = {}
    PROVE  /\ late = {} /\ late' = {} /\ mode' = mode
           /\ \A k \in Keys :
                 /\ data[k] # None => data'[k] # None
                 /\ lag[k].data # None => lag'[k].data # None
                 /\ lag'[k].data # None => data'[k] # None
                 /\ mode.kind # "eic" =>
                       /\ meta'[k] => data'[k] # None
                       /\ lag'[k].meta => lag'[k].data # None
                       /\ \A i \in Engines : PutStep(i, k)' = "meta" => data'[k] # None
<1> DEFINE Kept(k) ==
      /\ data[k] # None => data'[k] # None
      /\ lag[k].data # None => lag'[k].data # None
      /\ lag'[k].data # None => data'[k] # None
      /\ mode.kind # "eic" =>
            /\ meta'[k] => data'[k] # None
            /\ lag'[k].meta => lag'[k].data # None
            /\ \A i \in Engines : PutStep(i, k)' = "meta" => data'[k] # None
<1>1. /\ mode' = mode /\ seen \cap {"drop", "error"} = {} /\ late = {} /\ "error" \notin seen'
      /\ "drop" \notin seen' /\ PutProgram' = PutProgram
      /\ data \in [Keys -> Contents] /\ meta \in [Keys -> BOOLEAN]
      /\ lag \in [Keys -> [meta: BOOLEAN, data: Contents]]
      /\ put \in [Engines -> [Keys -> PutType]]
      /\ Engines = {"us", "peer"}
  BY Grows, SameMode DEF Backed, IInv, Types, PutType, Engines
<1>2. \A k \in Keys :
         /\ lag[k].data # None => data[k] # None
         /\ mode.kind # "eic" =>
               /\ meta[k] => data[k] # None
               /\ lag[k].meta => lag[k].data # None
               /\ \A i \in Engines : PutStep(i, k) = "meta" => data[k] # None
  BY <1>1 DEF Backed
<1>3. ASSUME NEW i \in Engines, NEW k \in Keys, put'[i][k] = put[i][k]
      PROVE  PutStep(i, k)' = PutStep(i, k)
  BY <1>1, <1>3, PutKept DEF PutStep
<1>4. ASSUME data' = data, lag' = lag, late' = late, put' = put,
             \A k \in Keys : meta'[k] => meta[k]
      PROVE  late' = {} /\ \A k \in Keys : Kept(k)
  BY <1>1, <1>2, <1>3, <1>4
<1>5. CASE \E i \in {"us", "peer"} : SubmitBatch(i) \/ \E k \in Keys : SubmitPut(i, k)
  <2>1. PICK i \in Engines : \E ks : Submit(i, ks)
    BY <1>1, <1>5 DEF SubmitBatch, SubmitPut
  <2> PICK ks : Submit(i, ks)
    BY <2>1
  <2>2. /\ data' = data /\ lag' = lag /\ late' = late /\ meta' = meta
        /\ put' = [put EXCEPT ![i] = [k \in Keys |->
                  IF k \in ks THEN [pc |-> 1, buf |-> BufferOf(i, k, ks), own |-> i = "us"]
                  ELSE put[i][k]]]
    BY DEF Submit, store
  <2>3. ASSUME NEW x \in Engines, NEW k \in Keys, mode.kind # "eic"
        PROVE  PutStep(x, k)' = "meta" => PutStep(x, k) = "meta"
    <3>1. CASE put'[x][k] = put[x][k]
      BY <1>3, <2>3, <3>1
    <3>2. CASE put'[x][k] # put[x][k]
      <4>1. put'[x][k].pc = 1
        BY <1>1, <2>2, <2>3, <3>2
      <4>2. PutProgram[1] = "data"
        BY <2>3, FragilePrograms
      <4> QED BY <1>1, <4>1, <4>2 DEF PutStep, Running
    <3> QED BY <3>1, <3>2
  <2> QED BY <1>1, <1>2, <2>2, <2>3
<1>6. CASE \E i \in {"us", "peer"}, k \in Keys : PutSteps(i, k)
  <2>1. PICK i \in Engines, k \in Keys : PutSteps(i, k)
    BY <1>1, <1>6
  <2>2. ~PutFails(i, k)
    BY <1>1 DEF PutFails
  <2>3. PutStep(i, k) \in {"data", "meta", "none"}
    BY FragilePrograms DEF PutStep, Running
  <2>4. PutData(i, k) \/ PutMeta(i, k)
    BY <2>1, <2>2, <2>3 DEF PutSteps, PutWhole, PutKeep, PutUpload, PutTmp, PutFill, PutPublish
  <2>5. /\ lag' = lag /\ late' = late /\ Running(i, k) /\ PutAdvance(i, k)
    BY <2>4 DEF PutData, PutMeta, PutStep
  <2>6. \A x \in Engines, j \in Keys : <<x, j>> # <<i, k>> => PutStep(x, j)' = PutStep(x, j)
    BY <1>3, <2>5, PutsStay
  <2>7. CASE PutData(i, k)
    <3>1. Content(i, k) = k /\ k # None
      BY <1>1, <2>5, ContentRight DEF Keys, None
    <3>2. data' = [data EXCEPT ![k] = Content(i, k)] /\ meta' = meta
      BY <2>7 DEF PutData
    <3>3. data'[k] # None /\ \A j \in Keys \ {k} : data'[j] = data[j]
      BY <1>1, <3>1, <3>2
    <3> QED BY <1>1, <1>2, <2>5, <2>6, <3>2, <3>3
  <2>8. CASE PutMeta(i, k)
    <3>1. data' = data /\ PutStep(i, k) = "meta" /\ \A j \in Keys \ {k} : meta'[j] = meta[j]
      BY <1>1, <2>8 DEF PutMeta
    <3>2. mode.kind # "eic" => data[k] # None
      BY <1>2, <3>1
    <3> QED BY <1>1, <1>2, <2>5, <2>6, <3>1, <3>2
  <2> QED BY <2>4, <2>7, <2>8
<1>7. CASE \E k \in Keys : PutTimesOut(k) \/ LeaseExpires(k)
  BY <1>7 DEF PutTimesOut, LeaseExpires, Fragile, Is
<1>8. CASE \E k \in Keys : GetRuns(k)
  <2>1. PICK k \in Keys : GetRuns(k)
    BY <1>8
  <2>2. data' = data /\ lag' = lag /\ late' = late /\ put' = put /\ (~GetRepair(k) => meta' = meta)
    BY <2>1 DEF GetRuns, GetWake, GetSteps, GetMeta, GetSize, GetBoth, GetLease, GetToken, GetAlloc,
                GetCopy, GetData, GetRepair, GetRelease, GetUnsupported, GetFails, quiet, store
  <2>3. \A j \in Keys : meta'[j] => meta[j]
    BY <1>1, <2>2 DEF GetRepair
  <2> QED BY <1>1, <1>4, <2>2, <2>3
<1>9. CASE Begin \/ LoadSteps
  <2>1. data' = data /\ lag' = lag /\ late' = late /\ put' = put /\ meta' = meta
    BY <1>9 DEF Begin, LoadSteps, Lookup, LookupTimesOut, ReturnPrefix, ReturnFiltered, ReturnBatch,
                ReturnEach, Return, LoadTimesOut, Consume, store
  <2> QED BY <1>1, <1>4, <2>1
<1>10. CASE OtherLookup \/ OtherLookupEnds
  <2>1. data' = data /\ lag' = lag /\ late' = late /\ put' = put /\ meta' = meta
    BY <1>10 DEF OtherLookup, OtherLookupEnds
  <2> QED BY <1>1, <1>4, <2>1
<1>11. CASE \E k \in Keys : Drop(k) \/ RemoveSync(k)
  BY <1>1, <1>11 DEF Drop, RemoveSync, Fragile, Is
<1>12. CASE \E k \in Keys : Replicate(k)
  <2>1. PICK k \in Keys : Replicate(k)
    BY <1>12
  <2>2. PICK m \in {meta[k], lag[k].meta} : lag' = [lag EXCEPT ![k] = [meta |-> m, data |-> data[k]]]
    BY <2>1 DEF Replicate
  <2>3. /\ data' = data /\ late' = late /\ put' = put /\ meta' = meta
        /\ lag'[k].meta = m /\ lag'[k].data = data[k] /\ \A j \in Keys \ {k} : lag'[j] = lag[j]
    BY <1>1, <2>1, <2>2 DEF Replicate
  <2> QED BY <1>1, <1>2, <1>3, <2>2, <2>3
<1> QED BY <1>5, <1>6, <1>7, <1>8, <1>9, <1>10, <1>11, <1>12, NextIs DEF Environment

LEMMA BackedKept ==
    ASSUME IInv, Causes, Backed, Next
    PROVE  Backed'
<1> SUFFICES ASSUME Fragile, seen' \cap {"drop", "error"} = {}
             PROVE  /\ late' = {}
                    /\ \A k \in Keys :
                          /\ lag'[k].data # None => data'[k] # None
                          /\ mode.kind # "eic" =>
                                /\ meta'[k] => data'[k] # None
                                /\ lag'[k].meta => lag'[k].data # None
                                /\ \A i \in Engines : PutStep(i, k)' = "meta" => data'[k] # None
                          /\ mode.kind = "eic" /\ k < pos' => data'[k] # None
                          /\ GetStep(k)' \in {"alloc", "data"} \/ get'[k].out = "asleep"
                             => DataOf(k)' # None
  BY Grows DEF Backed, Fragile, Is
<1>0. /\ mode' = mode /\ GetProgram' = GetProgram /\ seen \cap {"drop", "error"} = {}
      /\ "error" \notin seen' /\ GetProgram = <<"meta", "alloc", "data">>
  BY Grows, SameMode, FragilePrograms
<1>1. ASSUME NEW k \in Keys
      PROVE  /\ mode.kind = "eic" /\ k < pos => data[k] # None
             /\ GetStep(k) \in {"alloc", "data"} \/ get[k].out = "asleep" => DataOf(k) # None
             /\ DataOf(k) # None => DataOf(k)' # None
             /\ MetaOf(k) /\ get[k].out = "run" => DataOf(k) # None
             /\ data[k] # None => data'[k] # None
  <2>1. DataOf(k) # None => DataOf(k)' # None
    BY <1>0, StoreBacked DEF DataOf, Absent, May
  <2>2. get[k].out = "run" => k < pos
    BY DEF IInv, GetRight
  <2> QED BY <1>0, <2>1, <2>2, StoreBacked DEF Backed, MetaOf, DataOf
<1>2. ASSUME NEW k \in Keys
      PROVE  mode.kind = "eic" /\ k < pos' => data'[k] # None
  <2>1. CASE Lookup
    <3>1. pos \in Keys /\ pos' = IF ExistsIn(pos) THEN pos + 1 ELSE pos
      BY <2>1 DEF Lookup, IInv, LoadRight
    <3>2. mode.kind = "eic" /\ ExistsIn(pos) => data[pos] # None
      BY DEF ExistsIn, Is
    <3>3. k < pos + 1 => k < pos \/ k = pos
      BY <3>1 DEF Keys
    <3> QED BY <1>1, <3>1, <3>2, <3>3
  <2>2. CASE ~Lookup
    <3>1. pos' = pos
      <4>1. CASE \E i \in {"us", "peer"} : SubmitBatch(i) \/ \E j \in Keys : SubmitPut(i, j)
        BY <4>1 DEF SubmitBatch, SubmitPut, Submit, loading
      <4>2. CASE \E i \in {"us", "peer"}, j \in Keys : PutSteps(i, j)
        BY <4>2 DEF PutSteps, PutData, PutMeta, PutWhole, PutKeep, PutUpload, PutTmp, PutFill,
                    PutPublish, PutFails, loading
      <4>3. CASE \E j \in Keys : PutTimesOut(j) \/ LeaseExpires(j) \/ GetRuns(j)
        BY <4>3 DEF PutTimesOut, LeaseExpires, GetRuns, GetWake, GetSteps, GetMeta, GetSize, GetBoth, GetLease, GetToken,
                    GetAlloc, GetCopy, GetData, GetRepair, GetRelease, GetUnsupported, GetFails, quiet,
                    loading
      <4>4. CASE Begin \/ LoadSteps
        BY <2>2, <4>4 DEF Begin, LoadSteps, LookupTimesOut, ReturnPrefix, ReturnFiltered, ReturnBatch,
                    ReturnEach, Return, LoadTimesOut, Consume
      <4>5. CASE Environment
        BY <4>5 DEF Environment, Drop, RemoveSync, Replicate, OtherLookup, OtherLookupEnds, loading
      <4> QED BY <4>1, <4>2, <4>3, <4>4, <4>5, NextIs
    <3> QED BY <1>1, <3>1
  <2> QED BY <2>1, <2>2
<1>3. ASSUME NEW k \in Keys, GetStep(k)' \in {"alloc", "data"} \/ get'[k].out = "asleep"
      PROVE  DataOf(k)' # None
  <2>1. CASE \E j \in Keys : GetRuns(j)
    <3>1. PICK j \in Keys : GetRuns(j)
      BY <2>1
    <3>2. CASE j # k
      <4>1. get'[k] = get[k]
        BY <3>1, <3>2, RunOutcome DEF Causes
      <4> QED BY <1>0, <1>1, <1>3, <4>1 DEF GetStep
    <3>3. CASE j = k
      <4>1. CASE GetStep(k) \in {"alloc", "data"} \/ get[k].out = "asleep"
        BY <1>1, <4>1
      <4>2. CASE GetStep(k) \notin {"alloc", "data"} /\ get[k].out # "asleep"
        <5>1. get[k].out = "run" => GetStep(k) = "meta"
          BY <1>0, <4>2 DEF GetStep, IInv, GetRight
        <5>2. CASE GetRepair(k)
          <6>1. PICK v : v = [get[k] EXCEPT !.out = "none"]
            OBVIOUS
          <6>2. v.out = "none" /\ get' = [get EXCEPT ![k] = v] /\ get \in [Keys -> GetType]
            BY <5>2, <6>1 DEF GetRepair, GetType, IInv, Types
          <6> QED BY <1>3, <6>2 DEF GetStep
        <5>3. CASE ~GetRepair(k)
          <6>1. GetMeta(k)
            BY <1>0, <3>1, <3>3, <4>2, <5>1, <5>3
            DEF GetRuns, GetWake, GetSteps, GetSize, GetBoth, GetLease, GetToken, GetAlloc, GetCopy,
                GetData, GetRelease, GetUnsupported, GetFails, GetStep
          <6>2. get[k].out = "run" /\ load' = load /\ pos' = pos /\ late' = late
            BY <6>1 DEF GetMeta, GetStep, quiet
          <6>3. CASE MetaOf(k)
            BY <1>1, <6>2, <6>3
          <6>4. CASE ~MetaOf(k)
            <7>1. GetEnd(k, "none", 0)
              BY <6>1, <6>4 DEF GetMeta
            <7>2. PICK v : v = [get[k] EXCEPT !.out = "none", !.buf = 0]
              OBVIOUS
            <7>3. v.out = "none" /\ get' = [get EXCEPT ![k] = v] /\ get \in [Keys -> GetType]
              BY <7>1, <7>2 DEF GetEnd, GetType, IInv, Types
            <7> QED BY <1>3, <7>3 DEF GetStep
          <6> QED BY <6>3, <6>4
        <5> QED BY <5>2, <5>3
      <4> QED BY <4>1, <4>2
    <3> QED BY <3>2, <3>3
  <2>2. CASE Lookup
    <3>1. get'[k].pc = 1 /\ get'[k].out # "asleep"
      BY <2>2, LookupStarts
    <3> QED BY <1>0, <1>3, <3>1 DEF GetStep
  <2>3. CASE LoadTimesOut
    <3>1. get'[k].pc = get[k].pc /\ (get'[k].out \in {"run", "asleep"} => get[k].out = get'[k].out)
      BY <2>3, TimeoutStops
    <3> QED BY <1>0, <1>1, <1>3, <3>1 DEF GetStep
  <2>4. CASE ~(\E j \in Keys : GetRuns(j)) /\ ~Lookup /\ ~LoadTimesOut
    <3>1. get'[k].pc = get[k].pc /\ get'[k].out = get[k].out
      BY <2>4, GetsStay
    <3> QED BY <1>0, <1>1, <1>3, <3>1 DEF GetStep
  <2> QED BY <2>1, <2>2, <2>3, <2>4
<1> QED BY <1>2, <1>3, StoreBacked

\* Who has a buffer of the pool: nobody, the engine, a put or a get.
Keeps(k) == get[k].out = "run" \/ (load = "load" /\ Ok(k))
Found(b) ==
    \/ b \in free \cup given
    \/ \E k \in Keys : put["us"][k].own /\ put["us"][k].buf = b
    \/ \E k \in Keys : Keeps(k) /\ get[k].buf = b

LEMMA LostIsNotFound ==
    Lost = {b \in Bufs : ~Found(b)} /\ Lost' = {b \in Bufs' : ~Found(b)'}
  BY DEF Lost, Found, Keeps

\* A put keeps its buffer or gives it back.
PutGives ==
    /\ free \subseteq free'
    /\ \A k \in Keys : put["us"][k].own =>
          \/ put'["us"][k].own /\ put'["us"][k].buf = put["us"][k].buf
          \/ put["us"][k].buf \in free'

LEMMA AdvanceGives ==
    ASSUME IInv, NEW i \in Engines, NEW k \in Keys, PutAdvance(i, k) \/ EndPut(i, k)
    PROVE  PutGives
<1>1. put \in [Engines -> [Keys -> PutType]]
  BY DEF IInv, Types, PutType
<1>2. free \subseteq free'
  BY DEF PutAdvance, EndPut, GiveUp
<1>3. ASSUME NEW j \in Keys, put["us"][j].own
      PROVE  \/ put'["us"][j].own /\ put'["us"][j].buf = put["us"][j].buf
             \/ put["us"][j].buf \in free'
  <2>1. CASE <<"us", j>> # <<i, k>>
    BY <1>3, <2>1, PutsStay DEF Engines
  <2>2. CASE i = "us" /\ j = k
    <3>1. CASE EndPut(i, k) \/ put[i][k].pc = Len(PutProgram)
      BY <1>3, <2>2, <3>1 DEF PutAdvance, EndPut, GiveUp
    <3>2. CASE ~(EndPut(i, k) \/ put[i][k].pc = Len(PutProgram))
      <4>1. PICK n : n = put[i][k].pc + 1
        OBVIOUS
      <4>2. put' = [put EXCEPT ![i][k].pc = n]
        BY <3>2, <4>1 DEF PutAdvance
      <4>3. PICK v : v = [put[i][k] EXCEPT !.pc = n]
        OBVIOUS
      <4>4. put'[i][k] = v
        BY <1>1, <4>2, <4>3
      <4>5. put[i][k] \in PutType
        BY <1>1
      <4>6. v.buf = put[i][k].buf /\ v.own = put[i][k].own
        BY <4>3, <4>5 DEF PutType
      <4> QED BY <1>3, <2>2, <4>4, <4>6
    <3> QED BY <3>1, <3>2
  <2> QED BY <2>1, <2>2
<1> QED BY <1>2, <1>3 DEF PutGives

LEMMA PutsGive ==
    ASSUME IInv, (\E i \in Engines, k \in Keys : PutSteps(i, k)) \/ (\E k \in Keys : PutTimesOut(k))
    PROVE  PutGives /\ given' = given /\ load' = load /\ get' = get
<1>0. put \in [Engines -> [Keys -> PutType]] /\ Engines = {"us", "peer"}
  BY DEF IInv, Types, PutType, Engines
<1>1. CASE \E k \in Keys : PutTimesOut(k)
  <2>1. PICK k \in Keys : PutTimesOut(k)
    BY <1>1
  <2>2. PICK v : v = Disowned(put["us"][k])
    OBVIOUS
  <2>3. /\ put' = [put EXCEPT !["us"][k] = v] /\ given' = given /\ load' = load /\ get' = get
        /\ free' = free \cup {put["us"][j].buf : j \in {n \in {k} : put["us"][n].own}}
    BY <2>1, <2>2 DEF PutTimesOut, GiveUp, loading
  <2>4. \A j \in Keys \ {k} : put'["us"][j] = put["us"][j]
    BY <1>0, <2>3
  <2>5. put["us"][k].own => put["us"][k].buf \in free'
    BY <2>3
  <2> QED BY <2>3, <2>4, <2>5 DEF PutGives
<1>2. CASE \E i \in Engines, k \in Keys : PutSteps(i, k)
  <2>1. PICK i \in Engines, k \in Keys : PutSteps(i, k)
    BY <1>2
  <2>2. given' = given /\ load' = load /\ get' = get
    BY <2>1 DEF PutSteps, PutData, PutMeta, PutWhole, PutKeep, PutUpload, PutTmp, PutFill, PutPublish,
                PutFails, loading
  <2>3. CASE PutAdvance(i, k) \/ EndPut(i, k)
    BY <2>2, <2>3, AdvanceGives
  <2>4. CASE ~(PutAdvance(i, k) \/ EndPut(i, k))
    <3>1. PICK S : S = {k} \cup Siblings(i, k)
      OBVIOUS
    <3>2. /\ put' = [put EXCEPT ![i] = [j \in Keys |-> IF j = k THEN Over(put[i][j])
                          ELSE IF j \in Siblings(i, k) THEN Disowned(put[i][j]) ELSE put[i][j]]]
          /\ GiveUp(i, S)
      BY <2>1, <2>4, <3>1 DEF PutSteps, PutData, PutMeta, PutWhole, PutKeep, PutUpload, PutTmp, PutFill,
                              PutPublish, PutFails
    <3>3. free' = free \cup {put[i][j].buf : j \in {n \in S : put[i][n].own}}
      BY <3>2 DEF GiveUp
    <3>4. CASE i = "us"
      <4>1. \A j \in Keys : j \in S \/ put'["us"][j] = put["us"][j]
        BY <1>0, <3>1, <3>2, <3>4
      <4>2. \A j \in S : put["us"][j].own => put["us"][j].buf \in free'
        BY <3>3, <3>4
      <4> QED BY <2>2, <3>3, <4>1, <4>2 DEF PutGives
    <3>5. CASE i # "us"
      <4>1. put'["us"] = put["us"]
        BY <1>0, <3>2, <3>5
      <4> QED BY <2>2, <3>3, <4>1 DEF PutGives
    <3> QED BY <3>4, <3>5
  <2> QED BY <2>3, <2>4
<1> QED BY <1>1, <1>2

\* The engine takes its buffers from the free ones.
LEMMA SubmitKeeps ==
    ASSUME IInv, NEW i \in Engines, NEW ks \in SUBSET Keys, Submit(i, ks), NEW b, Found(b)
    PROVE  Found(b)'
<1>0. put \in [Engines -> [Keys -> PutType]] /\ Engines = {"us", "peer"}
  BY DEF IInv, Types, PutType, Engines
<1>1. /\ given' = given /\ load' = load /\ get' = get
      /\ (i = "us" => Cardinality(ks) <= Cardinality(free)) /\ \A k \in ks : put[i][k].pc = 0
      /\ put' = [put EXCEPT ![i] = [k \in Keys |->
                  IF k \in ks THEN [pc |-> 1, buf |-> BufferOf(i, k, ks), own |-> i = "us"]
                  ELSE put[i][k]]]
      /\ free' = IF i = "us" THEN free \ FirstFree(Cardinality(ks)) ELSE free
  BY DEF Submit, loading
<1>2. ASSUME NEW k \in Keys, Keeps(k)
      PROVE  Keeps(k)' /\ get'[k] = get[k]
  BY <1>1, <1>2 DEF Keeps, Ok
<1>3. CASE i = "peer"
  <2>1. put'["us"] = put["us"] /\ free' = free
    BY <1>0, <1>1, <1>3
  <2> QED BY <1>1, <1>2, <2>1 DEF Found
<1>4. CASE i = "us"
  <2>1. FirstFree(Cardinality(ks)) = {BufferOf("us", k, ks) : k \in ks}
    BY <1>1, <1>4, BatchBuffers
  <2>2. \A k \in ks : put'["us"][k].own /\ put'["us"][k].buf = BufferOf("us", k, ks)
    BY <1>0, <1>1, <1>4
  <2>3. \A k \in Keys : put["us"][k].own => put'["us"][k] = put["us"][k]
    <3>1. \A k \in Keys : put["us"][k].own => put["us"][k].pc # 0
      BY PutFollows DEF IInv, PutRight, Running, Types
    <3> QED BY <1>0, <1>1, <1>4, <3>1
  <2>4. b \in free => b \in free' \/ \E k \in ks : BufferOf("us", k, ks) = b
    BY <1>1, <1>4, <2>1
  <2> QED BY <1>1, <1>2, <2>2, <2>3, <2>4 DEF Found
<1> QED BY <1>0, <1>3, <1>4

\* A load that ends gives away, gives back, or loses after a fault.
LEMMA ReturnKeeps ==
    ASSUME IInv, Causes, seen \subseteq Survives, NEW b \in Bufs, Found(b),
           ReturnPrefix \/ ReturnFiltered \/ ReturnBatch \/ ReturnEach
    PROVE  Found(b)'
<1>1. load = "load" /\ Ended
  BY DEF ReturnPrefix, ReturnFiltered, ReturnBatch, ReturnEach
<1>2. ASSUME NEW k \in Keys, Keeps(k)
      PROVE  Ok(k) /\ k \in Hits
  <2>1. get[k].out # "idle"
    BY <1>2 DEF Keeps, Ok
  <2>2. k < pos
    BY <2>1 DEF IInv, GetRight
  <2>3. k \in Hits
    BY <2>2, ConnectorAssumption DEF IInv, Types, Keys, Hits
  <2> QED BY <1>1, <1>2, <2>3 DEF Keeps, Ok, Ended
<1>3. ASSUME NEW ks, NEW drop, NEW res, Return(ks, res, drop), \A k \in Hits : Ok(k) => k \in ks \cup drop
      PROVE  Found(b)'
  <2>1. /\ put' = put /\ given' = given \cup {get[k].buf : k \in ks}
        /\ free' = free \cup {get[k].buf : k \in drop}
    BY <1>3 DEF Return
  <2> QED BY <1>1, <1>2, <1>3, <2>1 DEF Found
<1>4. \A k \in Hits : get[k].out \in {"ok", "none", "raise"} /\ k \in Keys
  BY <1>1, ConnectorAssumption DEF Ended, Hits, IInv, Types, Keys
<1>5. ASSUME NEW k \in Raised
      PROVE  /\ k \in Keys /\ get[k].out = "raise"
             /\ \/ "error" \in seen /\ Is({"redis", "cluster", "sentinel", "valkey", "lm"})
                \/ mode.kind = "mooncake" /\ mode.via = "prefetch"
  BY <1>4, <1>5 DEF Raised, Causes
<1>6. CASE ReturnPrefix
  BY <1>3, <1>6 DEF ReturnPrefix
<1>7. CASE ReturnFiltered
  <2>1. ~(Gathers /\ Raised # {})
    BY <1>5 DEF Gathers, Is, Survives
  <2>2. PICK oks : oks = {k \in Hits : Ok(k)}
    OBVIOUS
  <2>3. Return(oks, Ordered(oks), {})
    BY <1>7, <2>1, <2>2 DEF ReturnFiltered
  <2> QED BY <1>3, <2>2, <2>3
<1>8. CASE ReturnBatch
  <2>1. Raised = {}
    BY <1>5, <1>8 DEF ReturnBatch, Batched, Is, Survives
  <2>2. PICK oks : oks = {k \in Hits : Ok(k)}
    OBVIOUS
  <2>3. Return(oks, AtPosition(oks), {})
    BY <1>8, <2>1, <2>2 DEF ReturnBatch
  <2> QED BY <1>3, <2>2, <2>3
<1>9. CASE ReturnEach
  <2>1. Raised = {}
    BY <1>5, <1>9 DEF ReturnEach, Batched, Is, Survives
  <2>2. PICK oks : oks = {k \in Hits : Ok(k) /\ \A j \in Raised : k < j}
    OBVIOUS
  <2>3. Return(oks, AtPosition(oks), {})
    BY <1>9, <2>2 DEF ReturnEach
  <2> QED BY <1>3, <2>1, <2>2, <2>3
<1> QED BY <1>6, <1>7, <1>8, <1>9

LEMMA BuffersBackKept ==
    ASSUME IInv, IInv', Causes, NobodyLeft, Backed, BuffersBack, Next
    PROVE  BuffersBack'
<1>1. mode' = mode /\ seen \subseteq seen' /\ Survives' = Survives /\ Bufs' = Bufs
  BY Grows, SameMode DEF Survives, Is, Causes
<1> SUFFICES ASSUME seen' \subseteq Survives, NEW b \in Bufs
             PROVE  Found(b)'
  BY <1>1, LostIsNotFound DEF BuffersBack
<1>2. seen \subseteq Survives /\ Found(b) /\ b # 0
  BY <1>1, LostIsNotFound DEF BuffersBack, Bufs
<1>3. "timeout" \notin seen'
  BY DEF Survives
<1>4. ASSUME put' = put, given' = given, free \subseteq free',
             \A k \in Keys : Keeps(k) => Keeps(k)' /\ get'[k].buf = get[k].buf
      PROVE  Found(b)'
  BY <1>2, <1>4 DEF Found
<1>5. ASSUME load' = load, get' = get, NEW k \in Keys
      PROVE  Keeps(k) => Keeps(k)' /\ get'[k].buf = get[k].buf
  BY <1>5 DEF Keeps, Ok
<1>6. CASE \E i \in {"us", "peer"} : SubmitBatch(i) \/ \E k \in Keys : SubmitPut(i, k)
  <2>1. PICK i \in Engines, ks \in SUBSET Keys : Submit(i, ks)
    <3>1. PICK i \in {"us", "peer"} : SubmitBatch(i) \/ \E k \in Keys : SubmitPut(i, k)
      BY <1>6
    <3>2. CASE SubmitBatch(i)
      BY <3>2 DEF SubmitBatch, PutsOf, Engines
    <3>3. CASE \E k \in Keys : SubmitPut(i, k)
      BY <3>3 DEF SubmitPut, Engines
    <3> QED BY <3>1, <3>2, <3>3
  <2> QED BY <1>2, <2>1, SubmitKeeps
<1>7. CASE \/ \E i \in {"us", "peer"}, k \in Keys : PutSteps(i, k)
           \/ \E k \in Keys : PutTimesOut(k)
  <2>1. PutGives /\ given' = given /\ load' = load /\ get' = get
    BY <1>7, PutsGive DEF Engines
  <2> QED BY <1>2, <1>5, <2>1 DEF Found, PutGives
<1>8. CASE \E k \in Keys : LeaseExpires(k)
  <2>1. PICK k \in Keys, d \in Keys : get' = [get EXCEPT ![k].val = d] /\ load' = load
                                      /\ put' = put /\ given' = given /\ free' = free
    BY <1>8 DEF LeaseExpires, quiet
  <2>2. PICK v : v = [get[k] EXCEPT !.val = d]
    OBVIOUS
  <2>3. get \in [Keys -> GetType] /\ get' = [get EXCEPT ![k] = v]
    BY <2>1, <2>2 DEF IInv, Types, GetType
  <2>4. v.out = get[k].out /\ v.buf = get[k].buf
    BY <2>2, <2>3 DEF GetType
  <2> QED BY <1>4, <2>1, <2>3, <2>4 DEF Keeps, Ok
<1>9. CASE \E k \in Keys : GetRuns(k)
  <2>1. PICK k \in Keys : GetRuns(k)
    BY <1>9
  <2>2. /\ load' = load /\ put' = put /\ given' = given /\ get[k].out \in {"run", "asleep", "repair"}
        /\ (\A j \in Keys \ {k} : get'[j] = get[j]) /\ (Moved(k) \/ Stopped(k) \/ Orphaned(k))
    BY <1>1, <2>1, RunOutcome
  <2>3. \A j \in Keys \ {k} : Keeps(j) => Keeps(j)' /\ get'[j].buf = get[j].buf
    BY <2>2 DEF Keeps, Ok
  <2>4. get[k].out \in {"run", "asleep"} => load = "load"
    BY <1>1, <1>3 DEF IInv, GetRight, NobodyLeft
  <2>5. CASE Moved(k)
    <3>1. Keeps(k)' \/ (get'[k].out = "asleep" /\ get'[k].buf = 0)
      <4>1. get'[k].out = "asleep" => get'[k].buf = 0
        BY DEF IInv, GetRight
      <4> QED BY <2>2, <2>4, <2>5, <4>1 DEF Moved, Keeps, Ok
    <3>2. CASE free' = free /\ get'[k].buf = get[k].buf
      BY <1>2, <2>2, <2>3, <3>1, <3>2 DEF Found
    <3>3. CASE \E x \in free : free' = free \ {x} /\ get'[k].buf = x /\ get[k].buf = 0
                               /\ get'[k].out = "run"
      BY <1>2, <2>2, <2>3, <3>1, <3>3 DEF Found
    <3> QED BY <2>5, <3>2, <3>3 DEF Moved
  <2>6. CASE Stopped(k)
    <3>1. ~(Fragile /\ ("error" \in seen' \/ (GetStep(k) = "data" /\ DataOf(k) \in {None, Torn})))
      <4> SUFFICES ASSUME Fragile
                   PROVE  /\ "error" \notin seen'
                          /\ ~(GetStep(k) = "data" /\ DataOf(k) \in {None, Torn})
        OBVIOUS
      <4>1. "error" \notin seen' /\ seen \cap {"drop", "error"} = {}
        BY <1>1 DEF Survives, Fragile, Is
      <4>2. GetStep(k) = "data" => DataOf(k) # None /\ k \notin late
        BY <4>1 DEF Backed
      <4>3. GetStep(k) = "data" => DataOf(k) \in {None, k}
        BY <4>2, DataOfRight DEF Right, Fragile, Is
      <4>4. k # Torn
        BY ConnectorAssumption DEF Keys, Torn
      <4> QED BY <4>1, <4>2, <4>3, <4>4
    <3>2. free \subseteq free' /\ (get[k].out = "run" => get[k].buf \in free' \cup {0})
      BY <2>6, <3>1 DEF Stopped
    <3>3. Keeps(k) => get[k].out = "run"
      BY <2>2 DEF Keeps, Ok
    <3> QED BY <1>2, <2>2, <2>3, <3>2, <3>3 DEF Found
  <2> QED BY <2>2, <2>4, <2>5, <2>6 DEF Orphaned
<1>10. CASE Begin \/ LookupTimesOut
  <2>1. \A k \in Keys : ~Keeps(k)
    BY <1>10, NotStarted DEF Begin, LookupTimesOut, Keeps, Ok
  <2> QED BY <1>4, <1>10, <2>1 DEF Begin, LookupTimesOut
<1>11. CASE Lookup
  <2>1. \A k \in Keys : ~Keeps(k)
    BY <1>11, NotStarted DEF Lookup, Keeps, Ok
  <2> QED BY <1>4, <1>11, <2>1 DEF Lookup
<1>12. CASE ReturnPrefix \/ ReturnFiltered \/ ReturnBatch \/ ReturnEach
  BY <1>2, <1>12, ReturnKeeps
<1>13. CASE LoadTimesOut
  BY <1>3, <1>13 DEF LoadTimesOut
<1>14. CASE Consume
  <2>1. free' = free \cup given /\ put' = put /\ load' = load /\ get' = get
    BY <1>14 DEF Consume
  <2> QED BY <1>2, <1>5, <2>1 DEF Found
<1>15. CASE Environment
  BY <1>4, <1>5, <1>15 DEF Environment, Drop, RemoveSync, Replicate, OtherLookup, OtherLookupEnds, loading
<1> QED BY <1>6, <1>7, <1>8, <1>9, <1>10, <1>11, <1>12, <1>13, <1>14, <1>15, NextIs DEF LoadSteps

\* The invariant from which it follows that no buffer is lost.
BInv == IInv /\ Causes /\ NobodyLeft /\ Backed /\ BuffersBack

LEMMA BInitially ==
    ASSUME Init
    PROVE  BInv
<1>1. IInv
  BY Initially
<1>2. \A k \in Keys : get[k].out = "idle" /\ put["us"][k].own = FALSE
  BY DEF Init
<1>3. Causes /\ NobodyLeft
  BY <1>2 DEF Init, Causes, NobodyLeft
<1>4. Lost = {}
  BY DEF Init, Lost
<1>5. BuffersBack
  BY <1>4 DEF BuffersBack
<1>6. Backed
  <2> SUFFICES ASSUME NEW k \in Keys
               PROVE  /\ lag[k].data # None => data[k] # None
                      /\ meta[k] => data[k] # None
                      /\ lag[k].meta => lag[k].data # None
                      /\ \A i \in Engines : PutStep(i, k) # "meta"
                      /\ ~(k < pos)
                      /\ GetStep(k) = "none"
    BY DEF Backed, Init
  <2>1. k \in Nat \ {0}
    BY ConnectorAssumption DEF Keys
  <2>2. /\ meta[k] <=> k \in mode.had
        /\ data[k] = (IF k \in mode.had THEN k ELSE None)
        /\ lag[k] = [meta |-> meta[k], data |-> data[k]]
        /\ pos = 1 /\ \A i \in Engines : put[i][k].pc = 0
    BY DEF Init, Engines
  <2>3. \A i \in Engines : PutStep(i, k) = "none"
    BY <2>2 DEF PutStep, Running
  <2> QED BY <1>2, <2>1, <2>2, <2>3 DEF GetStep, None
<1> QED BY <1>1, <1>3, <1>5, <1>6 DEF BInv

\* The fault set aside: a chunk is stored as it is, or in the making, or the buffer
\* of its put was given up.
LEMMA StoredIsRight ==
    ASSUME IInv
    PROVE  StoredRight
  BY DEF IInv, StoreRight, StoredRight, Right

\* For every connector and any number of chunks: what is stored under a key is that
\* chunk, or a part of it in the making, unless the buffer of its put was given up;
\* and every buffer of the pool is free, with the engine, a put or a get, unless a
\* fault happened that this connector does not clean up after.
THEOREM Safe == Spec /\ HeadersKept => []ConnectorSafe
<1> SUFFICES ASSUME HeadersKept PROVE Spec => []ConnectorSafe
  OBVIOUS
<1>1. Init => BInv
  BY BInitially
<1>2. BInv /\ [Next]_vars => BInv'
  <2> SUFFICES ASSUME BInv, [Next]_vars PROVE BInv'
    OBVIOUS
  <2>1. IInv'
    BY Inductive DEF BInv
  <2>2. CASE Next
    BY <2>1, <2>2, CausesKept, NobodyLeftKept, BackedKept, BuffersBackKept DEF BInv
  <2>3. CASE UNCHANGED vars
    <3>1. /\ mode' = mode /\ UNCHANGED <<meta, data, lag>> /\ seen' = seen /\ late' = late
          /\ load' = load /\ pos' = pos /\ get' = get /\ put' = put /\ free' = free /\ given' = given
      BY <2>3 DEF vars, store, loading
    <3>2. GetProgram' = GetProgram /\ PutProgram' = PutProgram /\ Bufs' = Bufs
      BY <3>1, SameMode
    <3>3. Causes' /\ NobodyLeft'
      BY <3>1 DEF BInv, Causes, NobodyLeft, Is
    <3>4. Backed'
      BY <3>1, <3>2 DEF BInv, Backed, Fragile, Is, PutStep, Running, GetStep, DataOf, Absent, May
    <3>5. BuffersBack'
      BY <3>1, <3>2 DEF BInv, BuffersBack, Lost, Survives, Is, Ok
    <3> QED BY <2>1, <3>3, <3>4, <3>5 DEF BInv
  <2> QED BY <2>2, <2>3
<1>3. BInv => ConnectorSafe
  BY StoredIsRight DEF BInv, ConnectorSafe
<1> QED BY <1>1, <1>2, <1>3, PTL DEF Spec
=============================================================================
