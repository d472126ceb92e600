----------------------------- MODULE LayerStreams -----------------------------
(***************************************************************************)
(* The GPU connectors of LMCache and the adapters that drive them:          *)
(* v1/gpu_connector.py, store_layer and retrieve_layer of                   *)
(* v1/cache_engine.py, start_load_kv ... wait_for_save of                   *)
(* integration/vllm/vllm_v1_adapter.py, integration/sglang/sglang_adapter.py*)
(* and blend of v1/compute/blend/blender.py.                                *)
(*                                                                          *)
(* The engine's thread never copies anything itself: it appends copies to   *)
(* CUDA streams (the model's own stream "cur", "load" and "store"), which   *)
(* run them later, each stream in order and different streams in any order  *)
(* unless an event (wait_stream) or a synchronize forbids it.  What a       *)
(* connector does is therefore a SCRIPT of host instructions; a script is   *)
(* built by one operator per function of the code, and the machine below    *)
(* runs the scripts and the streams.                                        *)
(*                                                                          *)
(* A cell is <<space, number, layer>>:                                      *)
(*   <<"kv", k, l>>    the slots of the paged KV cache that hold one chunk  *)
(*                     of one forward pass (k is Block(round, chunk)),      *)
(*   <<"page", c, l>>  the MemoryObj of chunk c,                            *)
(*   <<"tmp", t, 0>>   a temporary buffer of gpu_buffer_allocator,          *)
(*   <<"buf", 0, l>>   gpu_buffer (group_tmp_buffer), the fixed buffer of   *)
(*                     the connectors that move all the layers at once,     *)
(*   <<"index", k, 0>> an index tensor made on the GPU for block k:          *)
(*                     slot_mapping_full, or old_positions_full,            *)
(*   <<"given", c, 0>> the tensor it is made from: the slots or the cached   *)
(*                     positions of chunk c.                                *)
(* It holds <<c, l>>, the KV of layer l of chunk c (an index: <<c, 0>>), or  *)
(* Junk.                                                                    *)
(***************************************************************************)
EXTENDS Naturals, Sequences, FiniteSets, SequencesExt, FiniteSetsExt

CONSTANTS
    NumLayers,  \* num_layers, at least 2
    Runs        \* the cases explored: see the comment on `run`

(***************************************************************************)
(* run.kind    the connector: "paged" VLLMPagedMemLayerwiseGPUConnector,    *)
(*             "buffer" VLLMBufferLayerwiseGPUConnector (blending), "v2"    *)
(*             and "v3" VLLMPagedMemGPUConnectorV2 / V3, "sgl"              *)
(*             SGLangLayerwiseGPUConnector, "sglwhole" SGLangGPUConnector,  *)
(*             "xpu" VLLMPagedMemXPUConnectorV2;                            *)
(* run.use_gpu copies go through a temporary GPU buffer;                    *)
(* run.where   where the pages are: "hot" (loaded pages belong to the hot   *)
(*             cache, so the lookup's pin keeps them), "remote" (a loaded   *)
(*             page has no owner but the retriever), "cuda" (pages on the   *)
(*             GPU, the buffer of the PD backend);                          *)
(* run.passes  the forward passes, one after the other: the chunks each     *)
(*             loads and the chunks each stores, one request per chunk; the *)
(*             chunk 0 in `save` is a request that is saved and whose       *)
(*             chunks all are stored already (or found no memory).          *)
(***************************************************************************)
VARIABLES
    run,      \* the case
    todo,     \* the host instructions still to execute
    queue,    \* per stream, the operations not yet executed
    issued,   \* per stream, how many operations were appended so far
    mem,      \* what every cell holds
    tmpOf,    \* the buffer an owner holds (0: none)
    loose,    \* pages another thread may allocate or evict
    taken,    \* pages another thread did take: they hold other data now
    badReads, \* chunks that attention read with the wrong content
    badPuts,  \* chunks published while their content was not there yet
    strayed   \* streams in which a kernel used an index tensor not filled yet

vars == <<run, todo, queue, issued, mem, tmpOf, loose, taken, badReads, badPuts, strayed>>

Layers == 1..NumLayers
Streams == {"cur", "load", "store"}
Junk == <<0, 0>>
Other(l) == <<99, l>>     \* what the next owner of a page writes to it
Block(n, c) == 10 * n + c
Kv(k, l) == <<"kv", k, l>>
Page(c, l) == <<"page", c, l>>
Tmp(owner) == <<"tmp", owner, 0>>
Buf(l) == <<"buf", 0, l>>
Index(k) == <<"index", k, 0>>
Given(c) == <<"given", c, 0>>
Zeros == <<"given", 0, 0>>

\* The owner of a temporary buffer: the generator of block k (the buffer
\* connector's load takes two, `which` tells them apart).
Owner(k, which) == 10 * k + which

(***************************************************************************)
(* Instructions of the host.                                                *)
(***************************************************************************)
\* An operation for a stream.  A copy has pairs <<from, to>>, and the index
\* tensors it goes `by`, if any; an attention
\* kernel of layer l reads the blocks `reads` (pairs <<cell, content>>) and
\* fills the blocks `fills`; a wait holds the stream until stream `on` has run
\* everything appended to it by now (`upto` is set when it is appended).
Op(what, on, moves, reads, fills) ==
    [what |-> what, on |-> on, upto |-> 0, moves |-> moves, by |-> {},
     reads |-> reads, fills |-> fills]
Ins(do, on, op, n) == [do |-> do, on |-> on, op |-> op, n |-> n]
NoOp == Op("none", "cur", {}, {}, {})

\* with torch.cuda.stream(s): x.copy_(y, non_blocking=True) or a
\* *_layer_kv_transfer kernel, in streams that have made its slot mapping
Copy(s, moves) == <<Ins("enqueue", s, Op("copy", s, moves, {}, {}), 0)>>
\* a kernel or an indexed copy that goes by an index tensor of another stream
Kernel(s, moves, index) ==
    <<Ins("enqueue", s, [Op("copy", s, moves, {}, {}) EXCEPT !.by = {index}], 0)>>
\* slot_mapping_full = torch.cat(slot_mapping_chunks), on the current stream
Cat(c, k) == Copy("cur", {<<Given(c), Index(k)>>})
\* s.wait_stream(other)
WaitStream(s, other) == <<Ins("enqueue", s, Op("wait", other, {}, {}, {}), 0)>>
\* s.synchronize()
Synchronize(s) == <<Ins("sync", s, NoOp, 0)>>
\* torch.cuda.synchronize()
SynchronizeAll == Synchronize("cur") \o Synchronize("load") \o Synchronize("store")
\* slot_mapping.to(device) or .cuda(): a copy from pageable memory on the
\* current stream, which the host waits for
ToDevice == Synchronize("cur")
\* gpu_buffer_allocator.allocate and the ref_count_down that frees the buffer
AllocTmp(owner) == <<Ins("alloc", "cur", NoOp, owner)>>
FreeTmp(owner) == <<Ins("free", "cur", NoOp, owner)>>
\* storage_manager.batched_put of layer n of a chunk, the last one included
Put(c, l) == <<Ins("put", "cur", NoOp, Block(c, l))>>
\* ref_count_down of a loaded chunk's objects, and lookup_unpin of its request
CountDown(c) == <<Ins("down", "cur", NoOp, c)>>
LookupUnpin(c) == <<Ins("unpin", "cur", NoOp, c)>>

If(b, s) == IF b THEN s ELSE <<>>
\* one script after the other
Each(f(_), s) == FlattenSeq([i \in DOMAIN s |-> f(s[i])])
Upto(f(_), n) == FlattenSeq([i \in 1..n |-> f(i)])
Stored(p) == SelectSeq(p.save, LAMBDA c : c # 0)

\* The model's forward of layer l of pass n: it reads the loaded blocks and
\* computes the others, on the current stream.
Attend(p, n, l) ==
    <<Ins("enqueue", "cur",
          Op("attend", "cur", {},
             {<<Kv(Block(n, p.load[i]), l), p.load[i]>> : i \in DOMAIN p.load},
             {<<Kv(Block(n, Stored(p)[i]), l), <<Stored(p)[i], l>> >> :
                  i \in DOMAIN Stored(p)}), 0)>>

(***************************************************************************)
(* VLLMPagedMemLayerwiseGPUConnector, driven by the vLLM adapter.           *)
(***************************************************************************)
\* batched_to_gpu receives layer l: the kernels of the load stream go by the slot
\* mapping that the current stream makes, for which nothing makes them wait
PagedSend(r, n, c, l, sync) ==
    LET k == Block(n, c) t == Owner(k, 1) IN
    If(sync, WaitStream("cur", "load"))
    \o IF r.use_gpu
       THEN Copy("load", {<<Page(c, l), Tmp(t)>>})
            \o Kernel("load", {<<Tmp(t), Kv(k, l)>>}, Index(k))
       ELSE Kernel("load", {<<Page(c, l), Kv(k, l)>>}, Index(k))

\* Mutant: the last layer is not waited for before attention reads it.
PagedReceivedNoWait(r, n, c, sync) ==
    If(r.use_gpu, FreeTmp(Owner(Block(n, c), 1)))

\* batched_to_gpu after the last layer
PagedReceived(r, n, c, sync) ==
    If(sync, WaitStream("cur", "load"))
    \o If(r.use_gpu, FreeTmp(Owner(Block(n, c), 1)))

\* retrieve_layer, resumed to hand over layer l; after the last one the
\* references of all the layers are given back
RetrieveLayer(r, n, c, l, sync) ==
    PagedSend(r, n, c, l, sync) \o If(l = NumLayers, CountDown(c))

\* start_load_kv: only the last request that loads synchronizes
StartLoadPaged(r, n, p) ==
    Upto(LAMBDA i :
           ToDevice
           \o Cat(p.load[i], Block(n, p.load[i]))
           \o If(r.use_gpu, AllocTmp(Owner(Block(n, p.load[i]), 1)))
           \o RetrieveLayer(r, n, p.load[i], 1, i = Len(p.load)),
         Len(p.load))

\* wait_for_layer_load of layer l
WaitForLayerLoad(r, n, p, l) ==
    Upto(LAMBDA i :
           IF l < NumLayers
           THEN RetrieveLayer(r, n, p.load[i], l + 1, i = Len(p.load))
           ELSE PagedReceived(r, n, p.load[i], i = Len(p.load)),
         Len(p.load))

\* batched_from_gpu, one layer, of the paged and of the buffer connector: the
\* copies wait for the kernel that computes the layer, and so for the slot mapping
PagedFromLayer(r, n, c, l) ==
    LET k == Block(n, c) t == Owner(k, 2) IN
    WaitStream("store", "cur")
    \o IF r.use_gpu
       THEN Kernel("store", {<<Kv(k, l), Tmp(t)>>}, Index(k))
            \o Copy("store", {<<Tmp(t), Page(c, l)>>})
       ELSE Kernel("store", {<<Kv(k, l), Page(c, l)>>}, Index(k))

\* store_layer resumed for layer l: the generator synchronizes (if it may),
\* appends the copies of layer l, then the layer before is published; in
\* wait_for_save (l = NumLayers + 1) it frees its buffer instead
StoreLayer(r, n, c, l, sync) ==
    If(l = 1, Cat(c, Block(n, c)) \o If(r.use_gpu, AllocTmp(Owner(Block(n, c), 2))))
    \o If(l > 1 /\ sync, Synchronize("store"))
    \o If(l <= NumLayers, PagedFromLayer(r, n, c, l))
    \o If(l > NumLayers /\ r.use_gpu, FreeTmp(Owner(Block(n, c), 2)))
    \o If(l > 1, Put(c, l - 1))

\* The storer of the i-th request that is saved synchronizes: always in the
\* buffer connector, only the first one (is_first) in the paged connector
Syncs(r, i) == r.kind = "buffer" \/ i = 1

\* save_kv_layer of layer l, and wait_for_save (l = NumLayers + 1)
SaveKvLayer(r, n, p, l) ==
    If(l = 1, Each(LAMBDA c : ToDevice, p.save))
    \o Upto(LAMBDA i : If(p.save[i] # 0,
                          StoreLayer(r, n, p.save[i], l, Syncs(r, i))),
            Len(p.save))

\* One forward pass, layer by layer; waits[l] is what the host does
\* before layer l; loads are pulled by the layers, stores pushed by them
Layerwise(r, n, p, start, waits) ==
    start
    \o Upto(LAMBDA l : waits[l] \o Attend(p, n, l) \o SaveKvLayer(r, n, p, l),
            NumLayers)
    \o SaveKvLayer(r, n, p, NumLayers + 1)
    \o Each(LookupUnpin, p.load)

PagedPass(r, n, p) ==
    Layerwise(r, n, p, StartLoadPaged(r, n, p),
              [l \in Layers |-> WaitForLayerLoad(r, n, p, l)])

(***************************************************************************)
(* VLLMBufferLayerwiseGPUConnector: the whole prefix is loaded and blended  *)
(* before the forward pass, through two buffers that take turns.            *)
(***************************************************************************)
\* the buffer that holds layer l: load_gpu_buffer_obj and
\* compute_gpu_buffer_obj are swapped after every layer
Turn(n, c, l) == Tmp(Owner(Block(n, c), 3 + (l % 2)))

\* torch.cuda.synchronize() before the buffers are swapped
Swap == SynchronizeAll

\* batched_to_gpu receives layer l: it loads it, and with the first layer the
\* positions the chunk was computed at, moves the layer before to the KV cache, and
\* after the swap the blender computes with layer l's buffer, rotated by position
BufferSend(n, c, l) ==
    Copy("load", {<<Page(c, l), Turn(n, c, l)>>})
    \o If(l = 1, Kernel("load", {<<Given(c), Index(Block(n, c))>>}, Index(Block(n, c))))
    \o If(l > 1, Copy("cur", {<<Turn(n, c, l - 1), Kv(Block(n, c), l - 1)>>}))
    \o Swap
    \o If(l = NumLayers, CountDown(c))
    \o <<Ins("enqueue", "cur",
             Op("attend", "cur", {},
                {<<Turn(n, c, l), c>>, <<Index(Block(n, c)), c>>}, {}), 0)>>

\* blend of one request: old_positions_full is zeroed on the current stream; the
\* last layer is moved without a synchronize, then both buffers are freed.  Its
\* slot mapping stays on the current stream.
Blend(n, c) ==
    AllocTmp(Owner(Block(n, c), 3)) \o AllocTmp(Owner(Block(n, c), 4))
    \o Copy("cur", {<<Zeros, Index(Block(n, c))>>})
    \o Upto(LAMBDA l : BufferSend(n, c, l), NumLayers)
    \o Copy("cur", {<<Turn(n, c, NumLayers), Kv(Block(n, c), NumLayers)>>})
    \o FreeTmp(Owner(Block(n, c), 3)) \o FreeTmp(Owner(Block(n, c), 4))

BufferPass(r, n, p) ==
    Layerwise(r, n, p, Each(LAMBDA c : ToDevice \o Blend(n, c), p.load),
              [l \in Layers |-> <<>>])

(***************************************************************************)
(* The connectors that move all the layers of a chunk at once.              *)
(***************************************************************************)
\* V3 moves every group of layers (kv_layer_groups) by a kernel of its own
Groups(r) ==
    IF r.kind = "v3" THEN [l \in Layers |-> {l}] ELSE << Layers >>
\* SGLang's connector stays on the current stream
Lane(r, s) == IF r.kind \in {"sglwhole", "xpu"} THEN "cur" ELSE s

\* batched_to_gpu ends with load_stream.synchronize() in V2 and V3, and with
\* nothing in SGLang and on XPUs
LoadSync(r) == If(r.kind \in {"v2", "v3"}, Synchronize("load"))

\* to_gpu of one group of layers; on an XPU the page is copied to the device
\* with .to(), which the host waits for, and then to the cache
ToGpu(r, n, c, g) ==
    IF r.kind = "xpu"
    THEN Copy("cur", {<<Page(c, l), Buf(l)>> : l \in g}) \o ToDevice
         \o Copy("cur", {<<Buf(l), Kv(Block(n, c), l)>> : l \in g})
    ELSE Copy(Lane(r, "load"), {<<Page(c, l), Kv(Block(n, c), l)>> : l \in g})

\* batched_to_gpu, then retrieve gives the objects back
RetrieveWhole(r, n, c) ==
    ToDevice
    \o Each(LAMBDA g : ToGpu(r, n, c, g), Groups(r))
    \o LoadSync(r)
    \o CountDown(c)
    \o If(r.kind = "sglwhole", LookupUnpin(c))   \* nothing was pinned

\* from_gpu synchronizes when the page is not on the GPU: its store stream in
\* V2 and V3, every stream in SGLang and on XPUs
SglStoreSync == SynchronizeAll
StoreSync(r) ==
    If(r.where # "cuda",
       IF r.kind \in {"sglwhole", "xpu"} THEN SglStoreSync ELSE Synchronize("store"))

\* from_gpu of one chunk, then store publishes it
StoreWhole(r, n, c) ==
    ToDevice
    \o Each(LAMBDA g :
              IF r.use_gpu
              THEN Copy(Lane(r, "store"),
                        {<<Kv(Block(n, c), l), Buf(l)>> : l \in g})
                   \o Copy(Lane(r, "store"), {<<Buf(l), Page(c, l)>> : l \in g})
              ELSE Copy(Lane(r, "store"),
                        {<<Kv(Block(n, c), l), Page(c, l)>> : l \in g}),
            Groups(r))
    \o StoreSync(r)
    \o Upto(LAMBDA l : Put(c, l), NumLayers)

\* start_load_kv, the forward pass, and wait_for_save (load_kv and store_kv of
\* SGLang's LMCacheConnector)
WholePass(r, n, p) ==
    Each(LAMBDA c : RetrieveWhole(r, n, c), p.load)
    \o Upto(LAMBDA l : Attend(p, n, l), NumLayers)
    \o If(r.kind # "sglwhole", Each(LookupUnpin, p.load))
    \o Each(LAMBDA c : StoreWhole(r, n, c), Stored(p))

(***************************************************************************)
(* SGLangLayerwiseGPUConnector and LMCacheLayerwiseConnector: everything    *)
(* runs on the current stream.                                              *)
(***************************************************************************)
\* batched_to_gpu receives layer l; after the last one the buffer, the
\* references and the pins are given back
SglSend(r, n, c, l) ==
    LET k == Block(n, c) t == Owner(k, 1) IN
    (IF r.use_gpu
     THEN Copy("cur", {<<Page(c, l), Tmp(t)>>}) \o Copy("cur", {<<Tmp(t), Kv(k, l)>>})
     ELSE Copy("cur", {<<Page(c, l), Kv(k, l)>>}))
    \o If(l = NumLayers,
          If(r.use_gpu, FreeTmp(t)) \o CountDown(c) \o LookupUnpin(c))

\* start_load_kv
SglStart(r, n, p) ==
    Each(LAMBDA c : ToDevice
                    \o If(r.use_gpu, AllocTmp(Owner(Block(n, c), 1)))
                    \o SglSend(r, n, c, 1), p.load)

\* store_kv: store_layer is pulled to its end at once and never synchronizes
SglStore(r, n, c) ==
    LET k == Block(n, c) t == Owner(k, 2)
        FromLayer(l) ==
            IF r.use_gpu
            THEN Copy("cur", {<<Kv(k, l), Tmp(t)>>}) \o Copy("cur", {<<Tmp(t), Page(c, l)>>})
            ELSE Copy("cur", {<<Kv(k, l), Page(c, l)>>})
    IN ToDevice
       \o If(r.use_gpu, AllocTmp(t))
       \o FromLayer(1)
       \o Upto(LAMBDA l : (IF l < NumLayers THEN FromLayer(l + 1)
                           ELSE If(r.use_gpu, FreeTmp(t)))
                          \o Put(c, l), NumLayers)

\* load_kv_layerwise(l) pulls layer l + 1 before layer l is computed
SglPass(r, n, p) ==
    SglStart(r, n, p)
    \o Upto(LAMBDA l :
              If(l < NumLayers,
                 Each(LAMBDA c : SglSend(r, n, c, l + 1), p.load))
              \o Attend(p, n, l), NumLayers)
    \o Each(LAMBDA c : SglStore(r, n, c), Stored(p))

\* The connector a configuration builds decides what a pass does.
Pass(r, n, p) ==
    CASE r.kind = "paged" -> PagedPass(r, n, p)
      [] r.kind = "buffer" -> BufferPass(r, n, p)
      [] r.kind = "sgl" -> SglPass(r, n, p)
      [] OTHER -> WholePass(r, n, p)

Script(r) == Upto(LAMBDA n : Pass(r, n, r.passes[n]), Len(r.passes))

(***************************************************************************)
(* The machine.                                                             *)
(***************************************************************************)
Loads(r) == UNION {Range(r.passes[n].load) : n \in DOMAIN r.passes}
Saves(r) == UNION {Range(r.passes[n].save) : n \in DOMAIN r.passes} \ {0}
Chunks(r) == Loads(r) \cup Saves(r)
Blocks(r) == {Block(n, c) : n \in DOMAIN r.passes, c \in Chunks(r)}
Owners(r) == {Owner(k, w) : k \in Blocks(r), w \in 1..4}
NumTmp == 4

Cells(r) ==
    ({"kv"} \X Blocks(r) \X Layers) \cup ({"page"} \X Chunks(r) \X Layers)
    \cup ({"tmp"} \X (1..NumTmp) \X {0}) \cup ({"buf"} \X {0} \X Layers)
    \cup ({"index"} \X Blocks(r) \X {0}) \cup ({"given"} \X (Chunks(r) \cup {0}) \X {0})

Init ==
    /\ run \in Runs
    /\ todo = Script(run)
    /\ queue = [s \in Streams |-> <<>>]
    /\ issued = [s \in Streams |-> 0]
    /\ mem = [x \in Cells(run) |->
                CASE x[1] = "page" /\ x[2] \notin Saves(run) -> <<x[2], x[3]>>
                  [] x = Zeros -> <<0, 1>>
                  [] x[1] = "given" /\ x # Zeros -> <<x[2], 0>>
                  [] OTHER -> Junk]
    /\ tmpOf = [o \in Owners(run) |-> 0]
    /\ loose = {}
    /\ taken = {}
    /\ badReads = {}
    /\ badPuts = {}
    /\ strayed = {}

Instr == Head(todo)
Doing(what) == todo # <<>> /\ Instr.do = what /\ todo' = Tail(todo)

\* a buffer's cell, once its owner has it
Where(x) == IF x[1] = "tmp" THEN <<"tmp", tmpOf[x[2]], 0>> ELSE x
Placed(op) ==
    [op EXCEPT !.upto = issued[op.on],
               !.moves = {<<Where(m[1]), Where(m[2])>> : m \in op.moves},
               !.reads = {<<Where(m[1]), m[2]>> : m \in op.reads}]

\* The host appends an operation to a stream.
Enqueue ==
    /\ Doing("enqueue")
    /\ queue' = [queue EXCEPT ![Instr.on] = Append(@, Placed(Instr.op))]
    /\ issued' = [issued EXCEPT ![Instr.on] = @ + 1]
    /\ UNCHANGED <<run, mem, tmpOf, loose, taken, badReads, badPuts, strayed>>

\* The host waits for a stream.
HostSync ==
    /\ Doing("sync")
    /\ queue[Instr.on] = <<>>
    /\ UNCHANGED <<run, queue, issued, mem, tmpOf, loose, taken, badReads, badPuts, strayed>>

\* GPUMemoryAllocator.allocate: the first free range.
HostAlloc ==
    /\ Doing("alloc")
    /\ tmpOf' = [tmpOf EXCEPT
                   ![Instr.n] = Min(1..NumTmp \ {tmpOf[o] : o \in DOMAIN tmpOf})]
    /\ UNCHANGED <<run, queue, issued, mem, loose, taken, badReads, badPuts, strayed>>

\* GPUMemoryAllocator.free: the copies that use the buffer may still be queued.
HostFree ==
    /\ Doing("free")
    /\ tmpOf' = [tmpOf EXCEPT ![Instr.n] = 0]
    /\ UNCHANGED <<run, queue, issued, mem, loose, taken, badReads, badPuts, strayed>>

\* batched_put: from now on any thread may read the page, or evict it.
HostPut ==
    /\ Doing("put")
    /\ LET c == Instr.n \div 10 l == Instr.n % 10 IN
       /\ badPuts' = IF mem[Page(c, l)] = <<c, l>> THEN badPuts ELSE badPuts \cup {c}
       /\ loose' = IF l = NumLayers THEN loose \cup {c} ELSE loose
    /\ UNCHANGED <<run, queue, issued, mem, tmpOf, taken, badReads, strayed>>

\* ref_count_down of a loaded chunk: a page without another owner is free.
HostDown ==
    /\ Doing("down")
    /\ loose' = IF run.where = "remote" THEN loose \cup {Instr.n} ELSE loose
    /\ UNCHANGED <<run, queue, issued, mem, tmpOf, taken, badReads, badPuts, strayed>>

\* lookup_unpin: the hot cache may evict the page.
HostUnpin ==
    /\ Doing("unpin")
    /\ loose' = loose \cup {Instr.n}
    /\ UNCHANGED <<run, queue, issued, mem, tmpOf, taken, badReads, badPuts, strayed>>

Host == Enqueue \/ HostSync \/ HostAlloc \/ HostFree \/ HostPut \/ HostDown \/ HostUnpin

Op1(s) == Head(queue[s])
Running(s, what) ==
    /\ queue[s] # <<>>
    /\ Op1(s).what = what
    /\ queue' = [queue EXCEPT ![s] = Tail(@)]

\* how many operations of a stream are done
Completed(s) == issued[s] - Len(queue[s])

StreamCopy(s) ==
    /\ Running(s, "copy")
    /\ \A x \in Op1(s).by : mem[x] # Junk
    /\ mem' = [x \in DOMAIN mem |->
                 IF \E m \in Op1(s).moves : m[2] = x
                 THEN mem[(CHOOSE m \in Op1(s).moves : m[2] = x)[1]] ELSE mem[x]]
    /\ UNCHANGED <<run, todo, issued, tmpOf, loose, taken, badReads, badPuts, strayed>>

\* The index tensor is not filled yet: the kernel goes by what its memory held
\* before.  Where it writes is left open: from here on no content is relied upon.
StreamStray(s) ==
    /\ Running(s, "copy")
    /\ \E x \in Op1(s).by : mem[x] = Junk
    /\ strayed' = strayed \cup {s}
    /\ UNCHANGED <<run, todo, issued, mem, tmpOf, loose, taken, badReads, badPuts>>

StreamWait(s) ==
    /\ Running(s, "wait")
    /\ Completed(Op1(s).on) >= Op1(s).upto
    /\ UNCHANGED <<run, todo, issued, mem, tmpOf, loose, taken, badReads, badPuts, strayed>>

StreamAttend(s) ==
    /\ Running(s, "attend")
    /\ badReads' = badReads \cup
         {m[2] : m \in {x \in Op1(s).reads : mem[x[1]][1] # x[2]}}
    /\ mem' = [x \in DOMAIN mem |->
                 IF \E m \in Op1(s).fills : m[1] = x
                 THEN (CHOOSE m \in Op1(s).fills : m[1] = x)[2] ELSE mem[x]]
    /\ UNCHANGED <<run, todo, issued, tmpOf, loose, taken, badPuts, strayed>>

Stream(s) == StreamCopy(s) \/ StreamStray(s) \/ StreamWait(s) \/ StreamAttend(s)

\* Another thread allocates (or evicts and reuses) a page nobody holds, and
\* writes its own data to it.
TakePage(c) ==
    /\ c \in loose
    /\ loose' = loose \ {c}
    /\ taken' = taken \cup {c}
    /\ mem' = [x \in DOMAIN mem |->
                 IF x[1] = "page" /\ x[2] = c THEN Other(x[3]) ELSE mem[x]]
    /\ UNCHANGED <<run, todo, queue, issued, tmpOf, badReads, badPuts, strayed>>

Next ==
    \/ Host
    \/ \E s \in Streams : Stream(s)
    \/ \E c \in loose : TakePage(c)

Spec == Init /\ [][Next]_vars

(***************************************************************************)
(* Properties.                                                              *)
(***************************************************************************)
\* The runs in which the code publishes a page without ever waiting for its
\* copies: SGLang's layer-wise connector, pages on the GPU, and the paged
\* connector when the only storer told to synchronize has nothing to store.
StoresUnsynced ==
    \/ run.kind = "sgl"
    \/ run.where = "cuda"
    \/ /\ run.kind = "paged"
       /\ \E n \in DOMAIN run.passes :
            run.passes[n].save # <<>> /\ run.passes[n].save[1] = 0

\* The runs in which a loaded page is given back while its copy may still be
\* queued (cache_engine.py:960 and sglang_adapter.py:281).
LoadsUnsynced == run.kind \in {"paged", "sgl", "sglwhole"}

\* Only loads of vLLM's layer-wise connectors can go by an index tensor that is not
\* filled: the load stream never waits for the current stream that makes it
\* (gpu_connector.py:1176 and :1223; :801 and :864).
StraysOnLoad == strayed \subseteq (IF run.kind \in {"paged", "buffer"} THEN {"load"} ELSE {})

\* Attention and the blender never read a wrong block, in every order in which
\* the streams may run but those in which a kernel strayed, except when the page
\* was given back, and taken by another thread, before its copy ran, or when a
\* store that nobody waited for writes into a temporary buffer that has a new
\* owner.
LoadedRight ==
    \A c \in badReads : strayed # {} \/ StoresUnsynced \/ (LoadsUnsynced /\ c \in taken)

\* A page that batched_put publishes holds the chunk's KV by then, in the
\* connectors that wait for their store stream.
PublishedRight == badPuts # {} => strayed # {} \/ StoresUnsynced

\* A late copy never writes into a page that has another owner by now.
TakenPagesKept ==
    StoresUnsynced \/ \A c \in taken, l \in Layers : mem[Page(c, l)] = Other(l)

\* When the scripts and the streams are done, no temporary buffer is held and
\* what was stored is there, even where it was published too early, if no kernel
\* strayed.
EndsRight ==
    todo = <<>> /\ (\A s \in Streams : queue[s] = <<>>) =>
        /\ \A o \in DOMAIN tmpOf : tmpOf[o] = 0
        /\ \A c \in Saves(run) \ taken, l \in Layers :
             mem[Page(c, l)] = <<c, l>> \/ strayed # {} \/ (StoresUnsynced /\ run.use_gpu)

\* What the streams of every connector guarantee: no other kernel strays; correct
\* loads and complete pages, if none has; no late copy, no buffer lost.
StreamsSafe ==
    StraysOnLoad /\ LoadedRight /\ PublishedRight /\ TakenPagesKept /\ EndsRight
=============================================================================
