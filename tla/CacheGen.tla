------------------------------- MODULE CacheGen -------------------------------
(***************************************************************************)
(* The serializers of the remote backend, CacheGen above all:               *)
(* v1/storage_backend/naive_serde/, storage_backend/serde/cachegen_*.py and *)
(* the use RemoteBackend makes of them (submit_put_task, get_blocking).     *)
(*                                                                          *)
(* CacheGen quantizes every token of every layer to a few bins, codes each  *)
(* channel with an arithmetic coder (lmc_ops, external) in runs of at most  *)
(* CACHEGEN_GPU_MAX_TOKENS_PER_CHUNK tokens, and packs the channels' bytes  *)
(* one behind the other; the way back splits them by the prefix sums of     *)
(* their lengths, writes the symbols to an output buffer that the           *)
(* deserializer keeps from call to call, and scales them back.              *)
(*                                                                          *)
(* A tensor is [row -> [token -> [channel -> Int]]]; row 1 is the key and   *)
(* row 2 the value of one layer.  One chunk after the other is put to the   *)
(* remote store and read back.                                              *)
(***************************************************************************)
EXTENDS Integers, Sequences, FiniteSets, FiniteSetsExt, Functions

CONSTANTS
    MaxTokens,  \* CACHEGEN_GPU_MAX_TOKENS_PER_CHUNK
    ChunkSize,  \* chunk_size of the configuration
    Channels,   \* num_heads * head_size
    Plans       \* records [serde, layer, tensors]: the serializer, the layer
                \* the rows belong to, and the chunks, in order

VARIABLES
    plan,      \* the case
    round,     \* the chunk that is put and read back
    stage,     \* where its round trip is: see the actions
    at,        \* tokens encoded, then decoded, so far
    output,    \* encode_function's output_buffer, row by row
    chunks,    \* data_chunks, the CacheGenGPUBytestreams
    buffer,    \* CacheGenDeserializer.output_buffer, flat
    owned,     \* the caller (or the hot cache) still holds the chunk being put
    refs,      \* references to the page of the chunk being put
    page,      \* what that page holds: "kv" or "other" once it was reused
    sent,      \* what the connector sent: "none", "kv" or "other"
    result,    \* the symbols get_blocking decoded
    fetched    \* pages that hold bytes read from the store

vars == <<plan, round, stage, at, output, chunks, buffer,
          owned, refs, page, sent, result, fetched>>

Tensor == plan.tensors[round]
NumTokens == Len(Tensor[1])
Rows == 1..2
Cols == 1..Channels
Smaller(a, b) == IF a < b THEN a ELSE b

(***************************************************************************)
(* Quantization.                                                            *)
(***************************************************************************)
\* CacheGenConfig: 32 bins for the first layers (10 for keys, 2 for values),
\* 16 for the others
Bins(r) == IF plan.layer < (IF r = 1 THEN 10 ELSE 2) THEN 32 ELSE 16
C(r) == (Bins(r) \div 2) - 1

\* torch.amax(torch.abs(x), dim=-1): the largest channel of a token
Amax(x, r, t) == Max({IF x[r][t][c] < 0 THEN -x[r][t][c] ELSE x[r][t][c] : c \in Cols})

\* torch.round of num / den: to the nearest, ties to the even number
Round(num, den) ==
    LET q == num \div den rest == 2 * (num % den) IN
    IF rest > den \/ (rest = den /\ q % 2 = 1) THEN q + 1 ELSE q
Int8(n) == ((n + 128) % 256) - 128

\* torch_quant_vectorized: a token whose channels all are 0 divides by zero,
\* and the resulting NaN becomes 0 on the GPU
Quantized(x, r, t, c) ==
    LET m == Amax(x, r, t) IN
    IF m = 0 THEN 0 ELSE Int8(Round(x[r][t][c] * C(r) + C(r) * m, m))

\* do_dequantize: C times the value that the symbol s stands for
Dequantized(s, r, m) == (s - C(r)) * m

(***************************************************************************)
(* The arithmetic coder is external.  The model codes a symbol in one byte, *)
(* and in none when the channel has no other symbol: the CDF tells it then. *)
(***************************************************************************)
SymbolsOf(x, r, c) == {Quantized(x, r, t, c) : t \in DOMAIN x[r]}
Coded(x, r, c, first, last) ==
    IF Cardinality(SymbolsOf(x, r, c)) = 1 THEN <<>>
    ELSE [i \in 1..(last - first + 1) |-> Quantized(x, r, first + i - 1, c)]
Decoded(x, r, c, bytes, i) ==
    IF Cardinality(SymbolsOf(x, r, c)) = 1 THEN CHOOSE s \in SymbolsOf(x, r, c) : TRUE
    ELSE bytes[i]

(***************************************************************************)
(* Packing.  Channels are numbered 0..2 * Channels - 1 in row-major order.  *)
(***************************************************************************)
Lanes == 0..(2 * Channels - 1)
Lane(r, c) == (r - 1) * Channels + (c - 1)
Below(len, n, f(_)) == MapThenSumSet(f, {k \in Lanes : k < n})

\* summed_length: the unused bytes of the channels before n
Gap(len, n) == Below(len, n, LAMBDA k : MaxTokens - len[k])

\* collect_bytes: byte j of the stream is taken from the flattened buffer
CollectBytes(buf, len) ==
    LET total == Below(len, 2 * Channels, LAMBDA k : len[k])
        owner(j) == Min({n \in Lanes : Below(len, n + 1, LAMBDA k : len[k]) >= j})
    IN [j \in 1..total |->
          LET i == Gap(len, owner(j)) + j - 1     \* 0-based index
          IN buf[i \div MaxTokens][(i % MaxTokens) + 1]]

\* decode_chunk: a channel's bytes start where the prefix sum of the channel
\* before ends
BytesOf(chunk, n) ==
    SubSeq(chunk.bytes, Below(chunk.len, n, LAMBDA k : chunk.len[k]) + 1,
           Below(chunk.len, n + 1, LAMBDA k : chunk.len[k]))

\* Mutant: the buffer is laid out for full chunks.
SlotFull(r, t, c) == ((r - 1) * ChunkSize + (t - 1)) * Channels + (c - 1)

\* output[:ntokens, :].reshape((nlayers, ntokens, nchannels))
Slot(r, t, c) == ((r - 1) * NumTokens + (t - 1)) * Channels + (c - 1)

\* get_output_buffer: allocated once, for chunk_size tokens
BufferSize == ChunkSize * 2 * Channels

(***************************************************************************)
(* The round trip of a chunk.                                               *)
(***************************************************************************)
Init ==
    /\ plan \in Plans
    /\ round = 1
    /\ stage = "put"
    /\ at = 0
    /\ output = [n \in Lanes |-> [i \in 1..MaxTokens |-> 0]]
    /\ chunks = <<>>
    /\ buffer = [i \in 0..(BufferSize - 1) |-> 0]
    /\ owned = TRUE
    /\ refs = 1
    /\ page = "kv"
    /\ sent = "none"
    /\ result = <<>>
    /\ fetched = 0

\* submit_put_task: its own reference, which it gives back after serialize;
\* only the naive serializer takes one for the connector
SubmitPut ==
    /\ stage = "put"
    /\ stage' = IF plan.serde = "cachegen" THEN "encode" ELSE "sending"
    /\ refs' = refs + (IF plan.serde = "naive" THEN 1 ELSE 0)
    /\ UNCHANGED <<plan, round, at, output, chunks, buffer, owned, page,
                   sent, result, fetched>>

\* one pass of encode_function's loop over runs of tokens; the output buffer
\* is not cleared between two runs
EncodeRun ==
    /\ stage = "encode"
    /\ at < NumTokens
    /\ LET last == Smaller(at + MaxTokens, NumTokens)
           new == [n \in Lanes |-> Coded(Tensor, (n \div Channels) + 1,
                                         (n % Channels) + 1, at + 1, last)]
           len == [n \in Lanes |-> Len(new[n])]
           buf == [n \in Lanes |-> [i \in 1..MaxTokens |->
                     IF i <= len[n] THEN new[n][i] ELSE output[n][i]]]
       IN /\ output' = buf
          /\ chunks' = Append(chunks, [bytes |-> CollectBytes(buf, len),
                                       len |-> len,
                                       tokens |-> last - at])
          /\ at' = last
    /\ UNCHANGED <<plan, round, stage, buffer, owned, refs, page, sent, result, fetched>>

\* to_bytes: from here on the page is not needed
EncodeDone ==
    /\ stage = "encode"
    /\ at = NumTokens
    /\ stage' = "sending"
    /\ at' = 0
    /\ UNCHANGED <<plan, round, output, chunks, buffer, owned, refs, page, sent,
                   result, fetched>>

\* batched_put of the storage manager drops the caller's reference, or the hot
\* cache evicts the page, at any time after the put was submitted
Release ==
    /\ owned
    /\ stage \notin {"put", "encode"}
    /\ owned' = FALSE
    /\ refs' = refs - 1
    /\ page' = IF refs' = 0 THEN "other" ELSE page
    /\ UNCHANGED <<plan, round, stage, at, output, chunks, buffer, sent,
                   result, fetched>>

\* the connector's put ends: it sends what the page holds by then (a CacheGen
\* stream is a copy) and gives the connector's reference back
PutDone ==
    /\ stage = "sending"
    /\ stage' = "sent"
    /\ sent' = IF plan.serde = "cachegen" THEN "kv" ELSE page
    /\ refs' = refs - (IF plan.serde = "cachegen" THEN 0 ELSE 1)
    /\ page' = IF refs' = 0 THEN "other" ELSE page
    /\ UNCHANGED <<plan, round, at, output, chunks, buffer, owned, result,
                   fetched>>

\* get_blocking: the connector reads the bytes into a page of their own
Get ==
    /\ stage = "sent"
    /\ fetched' = fetched + 1
    /\ stage' = IF plan.serde = "cachegen" THEN "decode" ELSE "got"
    /\ UNCHANGED <<plan, round, at, output, chunks, buffer, owned, refs, page,
                   sent, result>>

\* output[:, start:end, :]
Target(t) == at + t

\* decode_function_gpu: one run
DecodeRun ==
    /\ stage = "decode"
    /\ chunks # <<>>
    /\ LET chunk == Head(chunks) IN
       /\ buffer' = [i \in DOMAIN buffer |->
            IF \E r \in Rows, c \in Cols, t \in 1..chunk.tokens : Slot(r, Target(t), c) = i
            THEN LET p == CHOOSE p \in Rows \X Cols \X (1..chunk.tokens) :
                                    Slot(p[1], Target(p[3]), p[2]) = i
                 IN Decoded(Tensor, p[1], p[2], BytesOf(chunk, Lane(p[1], p[2])), p[3])
            ELSE buffer[i]]
       /\ at' = at + chunk.tokens
    /\ chunks' = Tail(chunks)
    /\ UNCHANGED <<plan, round, stage, output, owned, refs, page, sent, result,
                   fetched>>

\* out.float() copies the symbols; the page with the bytes is not given back
DecodeDone ==
    /\ stage = "decode"
    /\ chunks = <<>>
    /\ result' = [r \in Rows |-> [t \in 1..NumTokens |-> [c \in Cols |->
                    buffer[((r - 1) * NumTokens + (t - 1)) * Channels + (c - 1)]]]]
    /\ stage' = "got"
    /\ UNCHANGED <<plan, round, at, output, chunks, buffer, owned, refs, page,
                   sent, fetched>>

\* the caller is done with what get_blocking returned: with the other
\* serializers that is the page that was read, so it is freed
Use ==
    /\ stage = "got"
    /\ fetched' = fetched - (IF plan.serde = "cachegen" THEN 0 ELSE 1)
    /\ IF round < Len(plan.tensors)
       THEN /\ round' = round + 1
            /\ stage' = "put" /\ owned' = TRUE /\ refs' = 1 /\ page' = "kv" /\ sent' = "none"
            /\ at' = 0 /\ result' = <<>>
       ELSE stage' = "end" /\ UNCHANGED <<round, owned, refs, page, sent, at, result>>
    /\ UNCHANGED <<plan, output, chunks, buffer>>

Next == SubmitPut \/ EncodeRun \/ EncodeDone \/ Release \/ PutDone \/ Get
        \/ DecodeRun \/ DecodeDone \/ Use

Spec == Init /\ [][Next]_vars

(***************************************************************************)
(* Properties.                                                              *)
(***************************************************************************)
Abs(n) == IF n < 0 THEN -n ELSE n

\* What get_blocking decodes is within half a quantization step of what was
\* put, for every token, channel and layer, and exact where a token is all
\* zero; whatever was coded, packed and left in the buffers before.
CodecRight ==
    stage = "got" /\ plan.serde = "cachegen" =>
        \A r \in Rows, t \in 1..NumTokens, c \in Cols :
            LET m == Amax(Tensor, r, t) IN
            2 * Abs(Dequantized(result[r][t][c], r, m) - Tensor[r][t][c] * C(r)) <= m

\* The bytes that reach the store are the chunk's, and the references of its
\* page balance, although the put runs after the caller let the page go; the
\* KIVI stub takes no reference for the connector.
SerdeKeepsPage ==
    plan.serde # "kivi" => /\ sent # "other"
                           /\ refs = (IF owned THEN 1 ELSE 0)
                                   + (IF plan.serde = "naive" /\ stage = "sending"
                                      THEN 1 ELSE 0)

\* A page read from the store is freed with the object it became; only the
\* pages of CacheGen's streams are never given back, one per chunk read.
FetchedBack ==
    fetched = IF plan.serde = "cachegen"
              THEN (IF stage \in {"decode", "got", "end"} THEN round ELSE round - 1)
              ELSE (IF stage = "got" THEN 1 ELSE 0)

\* The serializers as a whole: values survive, pages are neither sent late
\* nor lost beyond the leak above.
SerdeSafe == CodecRight /\ SerdeKeepsPage /\ FetchedBack
=============================================================================
