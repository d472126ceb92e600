--------------------------- MODULE LocalCPUBackend ---------------------------
(***************************************************************************)
(* The CPU hot cache (local_cpu_backend.py) with its cache policy, and the *)
(* requests that run against it on different threads:                      *)
(*   - a store allocates a chunk at a time without busy looping, puts what *)
(*     it got and drops its references;                                    *)
(*   - a load allocates its chunks with busy_loop=True, keeping those it   *)
(*     already has, writes them back to the hot cache and drops them;      *)
(*   - a lookup pins the hit prefix, touches the cache, gets the chunks    *)
(*     and gives back references and pins (LMCacheEngine.lookup,           *)
(*     lookup_unpin);                                                      *)
(*   - a peer request pins and gets in two critical sections and gives     *)
(*     back on the objects (P2PBackend._handle_batched_lookup_and_get).    *)
(* One step is one critical section of cpu_lock or one operation of an     *)
(* object.  Chunks have one size, so the allocator is a set of free        *)
(* buffers; AddressManager and MemoryObj model what is below.              *)
(***************************************************************************)
EXTENDS Integers, Sequences, FiniteSets, SequencesExt, FiniteSetsExt, Dictionary

CONSTANTS
    Keys, Objs,                      \* chunk keys and chunk buffers
    Stores, Loads, Lookups, Peers,   \* threads, by the request they run
    Requests,                        \* key sequences a request may carry
    Modes,                           \* configurations, as described at ModeType
    MaxFreq, MaxTouch,               \* bounds: LFU frequency, keys_in_request
    NoObj

Threads == Stores \cup Loads \cup Lookups \cup Peers

\* policy: cache_policy; active: the threads that run requests; admin: which
\* of remove(force=True) and clear() are called.
ModeType == [policy: {"LRU", "MRU", "FIFO", "LFU"}, active: SUBSET Threads,
             admin: SUBSET {"remove", "clear"}]

ASSUME ModeAssumption == Modes \subseteq ModeType
ASSUME RequestAssumption == Requests \subseteq Seq(Keys) \ {<<>>}
ASSUME NoObjAssumption == NoObj \notin Objs
ASSUME BoundAssumption == MaxFreq \in Nat \ {0}
\* A thread runs one kind of request.
ASSUME ThreadAssumption ==
    /\ IsFiniteSet(Threads)
    /\ Stores \cap (Loads \cup Lookups \cup Peers) = {}
    /\ Loads \cap (Lookups \cup Peers) = {} /\ Lookups \cap Peers = {}

VARIABLES
    mode,            \* the configuration, never changed
    hotCache,        \* the keys of hot_cache in dictionary order
    objOf,           \* the object under each key
    refCount, pinCount, free,
    keyToFreq,       \* LFU: key_to_freq, 0 for no entry
    bucketOrder,     \* LFU: keys in order of arrival in their current bucket
    keysInRequest,
    pc, todo,        \* per thread: program counter and keys left
    held,            \* per thread: <<key, object>> pairs it has a reference to
    pinned,          \* per thread: <<key, object>> pairs it has pinned
    clearKeys,       \* keys a clear() has yet to remove
    touchFailed      \* touch_cache has raised KeyError

memVars == <<refCount, pinCount, free>>
policyVars == <<keyToFreq, bucketOrder>>
cacheVars == <<hotCache, objOf, policyVars, keysInRequest>>
vars == <<mode, cacheVars, memVars, pc, todo, held, pinned, clearKeys, touchFailed>>

Policy == mode.policy
AdminOps == mode.admin

Init ==
    /\ mode \in Modes
    /\ hotCache = <<>>
    /\ objOf = [k \in Keys |-> NoObj]
    /\ refCount = [o \in Objs |-> 0]
    /\ pinCount = [o \in Objs |-> 0]
    /\ free = Objs
    /\ keyToFreq = [k \in Keys |-> 0]
    /\ bucketOrder = <<>>
    /\ keysInRequest = <<>>
    /\ pc = [t \in Threads |-> "idle"]
    /\ todo = [t \in Threads |-> <<>>]
    /\ held = [t \in Threads |-> <<>>]
    /\ pinned = [t \in Threads |-> <<>>]
    /\ clearKeys = <<>>
    /\ touchFailed = FALSE

InHot(k) == k \in Range(hotCache)
AtLeastZero(n) == IF n < 0 THEN 0 ELSE n

-----------------------------------------------------------------------------
(* Cache policies *)

\* update_on_hit of the keys in hits, the last one first: under LRU and MRU the
\* key moves to the end of the cache, under LFU to the end of the next bucket.
\* MaxFreq bounds the frequency.
HitOrder(hits) == IF Policy \in {"LRU", "MRU"} THEN MovedToEnd(hotCache, hits) ELSE {hotCache}
HitFreq(hits, k) ==
    LET f == keyToFreq[k] + Cardinality({i \in DOMAIN hits : hits[i] = k}) IN
    CASE Policy # "LFU" -> keyToFreq[k] [] Policy = "LFU" /\ f <= MaxFreq -> f [] OTHER -> MaxFreq
HitBucket(hits) == IF Policy = "LFU" THEN MovedToEnd(bucketOrder, hits) ELSE {bucketOrder}

\* update_on_put.
PutPolicy(k) ==
    IF Policy = "LFU"
    THEN /\ keyToFreq' = [keyToFreq EXCEPT ![k] = 1]
         /\ bucketOrder' = Append(Without(bucketOrder, k), k)
    ELSE UNCHANGED policyVars

\* Mutant: the key stays in its frequency bucket.
DropPolicyKeepsBucket(k) ==
    IF Policy = "LFU"
    THEN /\ keyToFreq' = [keyToFreq EXCEPT ![k] = 0]
         /\ UNCHANGED bucketOrder
    ELSE UNCHANGED policyVars

\* update_on_force_evict, and what get_evict_candidates does to a candidate.
DropPolicy(k) ==
    IF Policy = "LFU"
    THEN /\ keyToFreq' = [keyToFreq EXCEPT ![k] = 0]
         /\ bucketOrder' = Without(bucketOrder, k)
    ELSE UNCHANGED policyVars

\* Mutant: a pinned chunk can be evicted.
CanEvictPinned(o) == refCount[o] = 1
CanEvict(o) == pinCount[o] <= 0 /\ refCount[o] = 1

\* The order in which get_evict_candidates looks at the keys.
Earlier(j, k) ==
    LET before(s) == \E m, n \in 1..Len(s) : m < n /\ s[m] = j /\ s[n] = k IN
    CASE Policy \in {"LRU", "FIFO"} -> before(hotCache)
      [] Policy = "MRU" -> before(Reverse(hotCache))
      [] Policy = "LFU" -> \/ keyToFreq[j] < keyToFreq[k]
                           \/ keyToFreq[j] = keyToFreq[k] /\ before(bucketOrder)

Evictable == {k \in Keys : InHot(k) /\ CanEvict(objOf[k])
                           /\ (Policy = "LFU" => keyToFreq[k] > 0)}
EvictCandidate(k) == k \in Evictable /\ \A j \in Evictable \ {k} : Earlier(k, j)

-----------------------------------------------------------------------------
(* Objects *)

\* ref_count_down on o; the last reference of an unpinned object frees it.
RefCountDown(o) ==
    LET r == AtLeastZero(refCount[o] - 1) IN
    /\ refCount' = [refCount EXCEPT ![o] = r]
    /\ free' = IF r = 0 /\ pinCount[o] = 0 THEN free \cup {o} ELSE free
    /\ UNCHANGED pinCount

UnpinObj(o) ==
    /\ pinCount' = [pinCount EXCEPT ![o] = AtLeastZero(@ - 1)]
    /\ free' = IF pinCount[o] <= 1 /\ refCount[o] = 0 THEN free \cup {o} ELSE free
    /\ UNCHANGED refCount

\* pop the key and drop the cache's reference.
PopKey(k) ==
    /\ hotCache' = Without(hotCache, k)
    /\ objOf' = [objOf EXCEPT ![k] = NoObj]
    /\ RefCountDown(objOf[k])

-----------------------------------------------------------------------------
(* allocate, for stores and loads *)

BeginAlloc(t, ks) ==
    /\ t \in mode.active \cap (Stores \cup Loads) /\ pc[t] = "idle"
    /\ pc' = [pc EXCEPT ![t] = "alloc"]
    /\ todo' = [todo EXCEPT ![t] = ks]
    /\ UNCHANGED <<mode, cacheVars, memVars, held, pinned, clearKeys, touchFailed>>

\* memory_allocator.allocate: the chunk for the next key, or the eviction loop.
AllocTry(t) ==
    /\ pc[t] = "alloc"
    /\ \/ /\ free = {}
          /\ pc' = [pc EXCEPT ![t] = "evict"]
          /\ UNCHANGED <<memVars, todo, held>>
       \/ \E o \in free :
            /\ free' = free \ {o}
            /\ refCount' = [refCount EXCEPT ![o] = 1]
            /\ held' = [held EXCEPT ![t] = Append(@, <<Head(todo[t]), o>>)]
            /\ todo' = [todo EXCEPT ![t] = Tail(@)]
            /\ pc' = [pc EXCEPT ![t] = IF Len(todo[t]) = 1 THEN "put" ELSE "alloc"]
            /\ UNCHANGED pinCount
    /\ UNCHANGED <<mode, cacheVars, pinned, clearKeys, touchFailed>>

\* One round of the loop: evict one candidate and retry; with none, a store
\* gives up with what it has and a load sleeps and retries.
EvictRound(t) ==
    /\ pc[t] = "evict"
    /\ \/ \E k \in Keys :
            /\ EvictCandidate(k)
            /\ PopKey(k)
            /\ DropPolicy(k)
            /\ pc' = [pc EXCEPT ![t] = "alloc"]
            /\ UNCHANGED todo
       \/ /\ Evictable = {}
          /\ IF t \in Stores
             THEN /\ pc' = [pc EXCEPT ![t] = "put"]
                  /\ todo' = [todo EXCEPT ![t] = <<>>]
             ELSE /\ pc' = [pc EXCEPT ![t] = "alloc"]
                  /\ UNCHANGED todo
          /\ UNCHANGED <<hotCache, objOf, policyVars, memVars>>
    /\ UNCHANGED <<mode, keysInRequest, held, pinned, clearKeys, touchFailed>>

\* Mutant: a key already in the cache gets the new object.
SubmitPutReplaces(t, i) ==
    LET k == held[t][i][1]
        o == held[t][i][2]
    IN  /\ pc[t] = "put" /\ i = Len(todo[t]) + 1 /\ i <= Len(held[t])
        /\ todo' = [todo EXCEPT ![t] = Append(@, k)]
        /\ refCount' = [refCount EXCEPT ![o] = @ + 1]
        /\ hotCache' = Append(Without(hotCache, k), k)
        /\ objOf' = [objOf EXCEPT ![k] = o]
        /\ PutPolicy(k)
        /\ UNCHANGED <<mode, pinCount, free, keysInRequest, pc, held, pinned, clearKeys, touchFailed>>

\* batched_submit_put_task, one key at a time (todo now lists the keys done);
\* a key already in the cache keeps its object.
SubmitPut(t, i) ==
    LET k == held[t][i][1]
        o == held[t][i][2]
    IN  /\ pc[t] = "put" /\ i = Len(todo[t]) + 1 /\ i <= Len(held[t])
        /\ todo' = [todo EXCEPT ![t] = Append(@, k)]
        /\ IF InHot(k)
           THEN UNCHANGED <<hotCache, objOf, refCount, policyVars>>
           ELSE /\ refCount' = [refCount EXCEPT ![o] = @ + 1]
                /\ hotCache' = Append(hotCache, k)
                /\ objOf' = [objOf EXCEPT ![k] = o]
                /\ PutPolicy(k)
        /\ UNCHANGED <<mode, pinCount, free, keysInRequest, pc, held, pinned, clearKeys, touchFailed>>

PutDone(t) ==
    /\ pc[t] = "put" /\ Len(todo[t]) = Len(held[t])
    /\ pc' = [pc EXCEPT ![t] = "drop"]
    /\ todo' = [todo EXCEPT ![t] = <<>>]
    /\ UNCHANGED <<mode, cacheVars, memVars, held, pinned, clearKeys, touchFailed>>

\* The request is finished with a chunk.
DropRef(t) ==
    /\ pc[t] = "drop" /\ held[t] # <<>>
    /\ t \in Peers => Len(held[t]) = Len(pinned[t])
    /\ RefCountDown(Head(held[t])[2])
    /\ held' = [held EXCEPT ![t] = Tail(@)]
    /\ UNCHANGED <<mode, cacheVars, pc, todo, pinned, clearKeys, touchFailed>>

-----------------------------------------------------------------------------
(* Lookup and retrieve *)

BeginLookup(t, ks) ==
    /\ t \in mode.active \cap Lookups /\ pc[t] = "idle"
    /\ pc' = [pc EXCEPT ![t] = "contains"]
    /\ todo' = [todo EXCEPT ![t] = ks]
    /\ UNCHANGED <<mode, cacheVars, memVars, held, pinned, clearKeys, touchFailed>>

\* contains(key, pin=True); the prefix match ends at the first miss.
ContainsPin(t) ==
    LET k == Head(todo[t]) IN
    /\ pc[t] = "contains" /\ todo[t] # <<>>
    /\ Len(keysInRequest) < MaxTouch
    /\ IF InHot(k)
       THEN /\ pinCount' = [pinCount EXCEPT ![objOf[k]] = @ + 1]
            /\ keysInRequest' = Append(keysInRequest, k)
            /\ pinned' = [pinned EXCEPT ![t] = Append(@, <<k, objOf[k]>>)]
            /\ todo' = [todo EXCEPT ![t] = Tail(@)]
       ELSE /\ todo' = [todo EXCEPT ![t] = <<>>]
            /\ UNCHANGED <<pinCount, keysInRequest, pinned>>
    /\ UNCHANGED <<mode, hotCache, objOf, policyVars, refCount, free, pc, held, clearKeys, touchFailed>>

\* touch_cache: update_on_hit in reverse order.  A key that has left the
\* cache raises KeyError (not under FIFO): the keys after it have been
\* touched, the list is kept, and the exception ends the lookup.
Gone == {i \in 1..Len(keysInRequest) : Policy # "FIFO" /\ ~InHot(keysInRequest[i])}
TouchCache(t) ==
    LET touched == SubSeq(keysInRequest, IF Gone = {} THEN 1 ELSE Max(Gone) + 1,
                          Len(keysInRequest))
    IN  /\ pc[t] = "contains" /\ todo[t] = <<>>
        /\ hotCache' \in HitOrder(touched)
        /\ keyToFreq' = [k \in Keys |-> HitFreq(touched, k)]
        /\ bucketOrder' \in HitBucket(touched)
        /\ IF Gone = {}
           THEN /\ keysInRequest' = <<>>
                /\ pc' = [pc EXCEPT ![t] = "get"]
                /\ todo' = [todo EXCEPT ![t] = [i \in 1..Len(pinned[t]) |-> pinned[t][i][1]]]
                /\ UNCHANGED touchFailed
           ELSE /\ pc' = [pc EXCEPT ![t] = "drop"]
                /\ touchFailed' = TRUE
                /\ UNCHANGED <<keysInRequest, todo>>
        /\ UNCHANGED <<mode, objOf, memVars, held, pinned, clearKeys>>

\* get_blocking of the next looked-up key.
GetBlocking(t) ==
    LET k == Head(todo[t]) IN
    /\ t \in Lookups /\ pc[t] = "get" /\ todo[t] # <<>>
    /\ todo' = [todo EXCEPT ![t] = Tail(@)]
    /\ IF InHot(k)
       THEN /\ refCount' = [refCount EXCEPT ![objOf[k]] = @ + 1]
            /\ held' = [held EXCEPT ![t] = Append(@, <<k, objOf[k]>>)]
       ELSE UNCHANGED <<refCount, held>>
    /\ UNCHANGED <<mode, cacheVars, pinCount, free, pc, pinned, clearKeys, touchFailed>>

GetDone(t) ==
    /\ t \in Lookups /\ pc[t] = "get" /\ todo[t] = <<>>
    /\ pc' = [pc EXCEPT ![t] = "drop"]
    /\ UNCHANGED <<mode, cacheVars, memVars, todo, held, pinned, clearKeys, touchFailed>>

\* Mutant: lookup_unpin forgets the pins without giving them back.
UnpinKeyLost(t) ==
    /\ t \in Lookups /\ pc[t] = "drop" /\ held[t] = <<>> /\ pinned[t] # <<>>
    /\ pinned' = [pinned EXCEPT ![t] = Tail(@)]
    /\ UNCHANGED <<mode, cacheVars, memVars, pc, todo, held, clearKeys, touchFailed>>

\* lookup_unpin through the key: whatever object is under it now.
UnpinKey(t) ==
    LET k == Head(pinned[t])[1] IN
    /\ t \in Lookups /\ pc[t] = "drop" /\ held[t] = <<>> /\ pinned[t] # <<>>
    /\ pinned' = [pinned EXCEPT ![t] = Tail(@)]
    /\ IF InHot(k) THEN UnpinObj(objOf[k]) ELSE UNCHANGED memVars
    /\ UNCHANGED <<mode, cacheVars, pc, todo, held, clearKeys, touchFailed>>

-----------------------------------------------------------------------------
(* A peer's lookup and get *)

HitPrefix(ks) ==
    SubSeq(ks, 1, CHOOSE n \in 0..Len(ks) :
                     /\ \A i \in 1..n : InHot(ks[i])
                     /\ n < Len(ks) => ~InHot(ks[n + 1]))

\* batched_async_contains(pin=True) pins the whole hit prefix at once.
AsyncContains(t, ks) ==
    LET hit == HitPrefix(ks) IN
    /\ t \in mode.active \cap Peers /\ pc[t] = "idle" /\ hit # <<>>
    /\ Len(keysInRequest) + Len(hit) <= MaxTouch
    /\ pinCount' = [o \in Objs |-> pinCount[o] + Cardinality({i \in DOMAIN hit : objOf[hit[i]] = o})]
    /\ keysInRequest' = keysInRequest \o hit
    /\ pinned' = [pinned EXCEPT ![t] = [i \in 1..Len(hit) |-> <<hit[i], objOf[hit[i]]>>]]
    /\ pc' = [pc EXCEPT ![t] = "get"]
    /\ UNCHANGED <<mode, hotCache, objOf, policyVars, refCount, free, todo, held, clearKeys, touchFailed>>

\* batched_get_non_blocking: a missing key raises, the references taken so
\* far and all pins are lost, because mem_objs is still None in the handler.
GetNonBlocking(t) ==
    LET want == [i \in 1..Len(pinned[t]) |-> pinned[t][i][1]]
        got  == HitPrefix(want)
    IN  /\ t \in Peers /\ pc[t] = "get"
        /\ pc' = [pc EXCEPT ![t] = "drop"]
        /\ refCount' = [o \in Objs |->
                          refCount[o] + Cardinality({i \in DOMAIN got : objOf[got[i]] = o})]
        /\ IF got = want
           THEN /\ held' = [held EXCEPT ![t] = [i \in 1..Len(got) |-> <<got[i], objOf[got[i]]>>]]
                /\ UNCHANGED pinned
           ELSE /\ pinned' = [pinned EXCEPT ![t] = <<>>]
                /\ UNCHANGED held
        /\ UNCHANGED <<mode, cacheVars, pinCount, free, todo, clearKeys, touchFailed>>

\* mem_obj.unpin() follows mem_obj.ref_count_down() on the same object.
UnpinPeer(t) ==
    /\ t \in Peers /\ pc[t] = "drop" /\ Len(pinned[t]) > Len(held[t])
    /\ UnpinObj(Head(pinned[t])[2])
    /\ pinned' = [pinned EXCEPT ![t] = Tail(@)]
    /\ UNCHANGED <<mode, cacheVars, pc, todo, held, clearKeys, touchFailed>>

Finish(t) ==
    /\ pc[t] = "drop" /\ held[t] = <<>> /\ pinned[t] = <<>>
    /\ pc' = [pc EXCEPT ![t] = "idle"]
    /\ UNCHANGED <<mode, cacheVars, memVars, todo, held, pinned, clearKeys, touchFailed>>

-----------------------------------------------------------------------------
(* remove and clear *)

\* remove(key, force=True).
ForceRemove(k) ==
    /\ InHot(k)
    /\ PopKey(k)
    /\ DropPolicy(k)
    /\ UNCHANGED <<mode, keysInRequest, pc, todo, held, pinned, touchFailed>>

RemoveKey(k) == "remove" \in AdminOps /\ ForceRemove(k) /\ UNCHANGED clearKeys

\* clear: the list is made under cpu_lock ...
ClearBegin ==
    /\ "clear" \in AdminOps /\ clearKeys = <<>>
    /\ clearKeys' = SelectSeq(hotCache, LAMBDA k : CanEvict(objOf[k]))
    /\ clearKeys' # <<>>
    /\ UNCHANGED <<mode, cacheVars, memVars, pc, todo, held, pinned, touchFailed>>

\* ... and its keys are removed by force, each under cpu_lock again.
ClearRemove ==
    /\ clearKeys # <<>>
    /\ clearKeys' = Tail(clearKeys)
    /\ IF InHot(Head(clearKeys))
       THEN ForceRemove(Head(clearKeys))
       ELSE UNCHANGED <<mode, cacheVars, memVars, pc, todo, held, pinned, touchFailed>>

-----------------------------------------------------------------------------
Next ==
    \/ \E t \in Threads, ks \in Requests : BeginAlloc(t, ks)
    \/ \E t \in Threads : AllocTry(t)
    \/ \E t \in Threads : EvictRound(t)
    \/ \E t \in Threads : \E i \in 1..Len(held[t]) : SubmitPut(t, i)
    \/ \E t \in Threads : PutDone(t)
    \/ \E t \in Threads : DropRef(t)
    \/ \E t \in Threads, ks \in Requests : BeginLookup(t, ks)
    \/ \E t \in Threads : ContainsPin(t)
    \/ \E t \in Threads : TouchCache(t)
    \/ \E t \in Threads : GetBlocking(t)
    \/ \E t \in Threads : GetDone(t)
    \/ \E t \in Threads : UnpinKey(t)
    \/ \E t \in Threads, ks \in Requests : AsyncContains(t, ks)
    \/ \E t \in Threads : GetNonBlocking(t)
    \/ \E t \in Threads : UnpinPeer(t)
    \/ \E t \in Threads : Finish(t)
    \/ \E k \in Keys : RemoveKey(k)
    \/ ClearBegin
    \/ ClearRemove

Spec == Init /\ [][Next]_vars

\* Every step of a request under way is taken by a running thread.
Step(t) ==
    \/ AllocTry(t) \/ EvictRound(t) \/ (\E i \in 1..Len(held[t]) : SubmitPut(t, i))
    \/ PutDone(t) \/ DropRef(t) \/ ContainsPin(t) \/ TouchCache(t) \/ GetBlocking(t)
    \/ GetDone(t) \/ UnpinKey(t) \/ GetNonBlocking(t) \/ UnpinPeer(t) \/ Finish(t)
FairSpec == Spec /\ \A t \in Threads : WF_vars(Step(t))

-----------------------------------------------------------------------------
(* Properties *)

\* The references and pins that the requests have on an object, each a thread
\* and a place in its list, and the keys the object is under.
Places(lists, o) == UNION {{<<t, i>> : i \in {j \in DOMAIN lists[t] : lists[t][j][2] = o}} :
                             t \in Threads}
KeysOf(o) == {k \in Keys : objOf[k] = o}
Users(o) == Cardinality(Places(held, o)) + Cardinality(KeysOf(o))

\* The hot cache in every state: its variables have their types, and the
\* dictionary and the LFU bookkeeping describe the same keys (otherwise
\* get_evict_candidates raises KeyError on cache_dict[key], or a chunk that is
\* in no bucket can never be evicted again).
TypeOK ==
    /\ mode \in Modes
    /\ hotCache \in Seq(Keys) /\ bucketOrder \in Seq(Keys) /\ keysInRequest \in Seq(Keys)
    /\ objOf \in [Keys -> Objs \cup {NoObj}]
    /\ refCount \in [Objs -> Nat] /\ pinCount \in [Objs -> Nat] /\ free \subseteq Objs
    /\ keyToFreq \in [Keys -> 0..MaxFreq]
    /\ pc \in [Threads -> {"idle", "alloc", "evict", "put", "drop", "contains", "get"}]
    /\ touchFailed \in BOOLEAN
InSync ==
    /\ IsInjective(hotCache)
    /\ \A k \in Keys : InHot(k) <=> objOf[k] # NoObj
    /\ Policy = "LFU" => /\ IsInjective(bucketOrder)
                         /\ Range(bucketOrder) = Range(hotCache)
                         /\ \A k \in Keys : keyToFreq[k] > 0 <=> InHot(k)
PolicyInSync == TypeOK /\ InSync

\* Reference counts are exact: one for the cache, one for each request that
\* holds the chunk; a free buffer is under no key and held by nobody.
RefsExact ==
    \A o \in Objs :
        /\ refCount[o] = Users(o)
        /\ o \in free <=> refCount[o] = 0 /\ pinCount[o] = 0

\* A chunk a lookup reported as a hit and pinned stays in the hot cache, as
\* the same object, until that lookup unpins it ("pinned in the storage
\* backend"), so the retrieve that follows finds it.
PinnedStays ==
    AdminOps = {} =>
    \A t \in Threads : \A i \in 1..Len(pinned[t]) : objOf[pinned[t][i][1]] = pinned[t][i][2]

\* No lookup removes another lookup's pin: the count covers every pin held
\* (a chunk that is removed by force and stored again excepted).
PinsCovered ==
    AdminOps = {} =>
    \A o \in Objs : pinCount[o] >= Cardinality(Places(pinned, o))

\* touch_cache never meets a key that has left the cache: the keys a lookup
\* pinned are still there ("touch_cache is tightly coupled with
\* batched_contains"), so the policy update cannot raise.  (A peer's request
\* or a forced removal leaves keys in keys_in_request that are gone.)
TouchNeverRaises == (AdminOps = {} /\ mode.active \cap Peers = {}) => ~touchFailed

\* What contains(pin=True) promises while other requests store, evict and
\* unpin: the chunk stays, the pin is nobody else's to drop, and the touch at
\* the end of the lookup finds its keys.
PinsHold == PinnedStays /\ PinsCovered /\ TouchNeverRaises

\* The busy loop of a load ends ("one retrieve at a time (okay to busy loop
\* because stores will clear)"): once no new request arrives, the stores and
\* lookups under way give back every buffer and the load gets its chunks.
LoadReturns ==
    (\A t \in Threads \ Loads : <>[](pc[t] = "idle"))
        => \A t \in Loads : (pc[t] = "alloc") ~> (pc[t] = "idle")
=============================================================================
