------------------------------ MODULE MemoryObj ------------------------------
(***************************************************************************)
(* The life of a TensorMemoryObj: its reference count, its pin count, the  *)
(* allocator it returns to and the PinMonitor thread that revokes pins     *)
(* after a timeout (memory_management.py, pin_monitor.py).                 *)
(*                                                                         *)
(* Every method of the object is one critical section of its lock, hence   *)
(* one step.  The holders follow the protocol of the code: a reference or  *)
(* a pin is taken on an object found in the CPU hot cache (which owns a    *)
(* reference of its own), and each is given back once, either on the       *)
(* object (P2PBackend, compress) or through its key (lookup_unpin).        *)
(*                                                                         *)
(* A configuration (mode) says which allocator owns the objects.  That of  *)
(* Paged is PagedTensorMemoryAllocator: free() appends the object to       *)
(* free_blocks and leaves it valid.  The other is TensorMemoryAllocator:   *)
(* free() is refused on an invalid object and invalidates it;              *)
(* AddressManager models where its bytes go.                               *)
(***************************************************************************)
EXTENDS Integers, FiniteSets

CONSTANTS
    Objs,         \* memory objects; a freed one stands for its next tenant
    Clients,      \* threads and coroutines that hold references and pins
    Modes,        \* configurations: allocator, its objects, whether pins time out
    PinTimeout,   \* pin_timeout_sec, in ticks
    MaxBatch,     \* bound on batch_size
    MaxPins,      \* bound on the pin count of an object
    NoObj

ASSUME ModeAssumption == Modes \subseteq [paged: BOOLEAN, monitor: BOOLEAN, heap: SUBSET Objs]
ASSUME ClientAssumption == IsFiniteSet(Clients)
ASSUME ObjAssumption == NoObj \notin Objs
ASSUME BoundAssumption == PinTimeout \in Nat /\ MaxBatch \in Nat /\ MaxPins \in Nat

VARIABLES
    mode,          \* the configuration, never changed
    refCount,      \* meta.ref_count
    pinCount,      \* meta.pin_count
    valid,         \* is_valid()
    freeBlocks,    \* how often each object is in free_blocks
    cached,        \* the objects the hot cache holds a reference to
    refs,          \* the references each client holds
    pins,          \* the pins each client holds
    batch,         \* batched_allocate in progress: pages taken and wanted
    pinnedObjects, \* the keys of PinMonitor._pinned_objects
    age,           \* time since an object's register_time, capped
    timeoutObjs,   \* timeout_objects still to be handled by this cycle
    forcing,       \* the object being force-unpinned
    monitorPc      \* where in _force_unpin_timeout_object the thread is

objVars == <<refCount, pinCount, valid, freeBlocks>>
holderVars == <<cached, refs, pins, batch>>
monitorVars == <<pinnedObjects, age, timeoutObjs, forcing, monitorPc>>
vars == <<mode, objVars, holderVars, monitorVars>>

Paged == mode.paged
MonitorOn == mode.monitor
NoBatch == [got |-> {}, want |-> 0]

Init ==
    /\ mode \in Modes
    /\ refCount = [o \in Objs |-> 0]
    /\ pinCount = [o \in Objs |-> 0]
    /\ valid = [o \in Objs |-> Paged]
    /\ freeBlocks = [o \in Objs |-> IF o \in mode.heap THEN 1 ELSE 0]
    /\ cached = {}
    /\ refs = [c \in Clients |-> {}]
    /\ pins = [c \in Clients |-> {}]
    /\ batch = [c \in Clients |-> NoBatch]
    /\ pinnedObjects = {}
    /\ age = [o \in Objs |-> 0]
    /\ timeoutObjs = {}
    /\ forcing = NoObj
    /\ monitorPc = "idle"

-----------------------------------------------------------------------------
(* TensorMemoryObj *)

AtLeastZero(n) == IF n < 0 THEN 0 ELSE n

\* parent_allocator.free(o).
Release(o) ==
    IF valid[o]
    THEN /\ freeBlocks' = [freeBlocks EXCEPT ![o] = @ + 1]
         /\ valid' = [valid EXCEPT ![o] = Paged]
    ELSE UNCHANGED <<freeBlocks, valid>>

RefCountUp(o) ==
    /\ refCount' = [refCount EXCEPT ![o] = @ + 1]
    /\ UNCHANGED <<pinCount, valid, freeBlocks>>

\* Mutant: the last reference frees the memory even while it is pinned.
RefCountDownIgnoresPins(o) ==
    LET r == AtLeastZero(refCount[o] - 1) IN
    /\ refCount' = [refCount EXCEPT ![o] = r]
    /\ IF r = 0 THEN Release(o) ELSE UNCHANGED <<valid, freeBlocks>>
    /\ UNCHANGED pinCount

\* A negative count is reset to 0 and the memory is released (again).
RefCountDown(o) ==
    LET r == AtLeastZero(refCount[o] - 1) IN
    /\ refCount' = [refCount EXCEPT ![o] = r]
    /\ IF r = 0 /\ pinCount[o] = 0 THEN Release(o) ELSE UNCHANGED <<valid, freeBlocks>>
    /\ UNCHANGED pinCount

\* pin() registers the object, or restarts its countdown: PinMonitor.on_pin.
PinObj(o) ==
    /\ pinCount' = [pinCount EXCEPT ![o] = @ + 1]
    /\ pinnedObjects' = pinnedObjects \cup {o}
    /\ age' = [age EXCEPT ![o] = 0]
    /\ UNCHANGED <<refCount, valid, freeBlocks>>

UnpinObjAlwaysUnwatched(o) ==
    LET p == pinCount[o] - 1 IN
    /\ pinCount' = [pinCount EXCEPT ![o] = AtLeastZero(p)]
    /\ pinnedObjects' = pinnedObjects \ {o}
    /\ IF p <= 0 /\ refCount[o] <= 0 THEN Release(o) ELSE UNCHANGED <<valid, freeBlocks>>
    /\ UNCHANGED <<refCount, age>>

\* unpin() unregisters at zero (on_unpin), may release the memory, and only
\* then resets a negative count.
UnpinObj(o) ==
    LET p == pinCount[o] - 1 IN
    /\ pinCount' = [pinCount EXCEPT ![o] = AtLeastZero(p)]
    /\ pinnedObjects' = IF p = 0 THEN pinnedObjects \ {o} ELSE pinnedObjects
    /\ age' = IF p = 0 THEN [age EXCEPT ![o] = 0] ELSE age
    /\ IF p <= 0 /\ refCount[o] <= 0 THEN Release(o) ELSE UNCHANGED <<valid, freeBlocks>>
    /\ UNCHANGED refCount

-----------------------------------------------------------------------------
(* Allocation *)

\* TensorMemoryAllocator returns a new object, so an identity is used again
\* only when nobody refers to the old object; a page is the same object.
Reusable(o) == Paged \/ (forcing # o /\ o \notin timeoutObjs /\ \A c \in Clients : o \notin pins[c])

\* A block leaves free_blocks with ref_count = 1; its pin_count is not set.
Take(o) ==
    /\ freeBlocks[o] > 0
    /\ Reusable(o)
    /\ freeBlocks' = [freeBlocks EXCEPT ![o] = @ - 1]
    /\ refCount' = [refCount EXCEPT ![o] = 1]
    /\ valid' = [valid EXCEPT ![o] = TRUE]
    /\ UNCHANGED pinCount

Allocate(c, o) ==
    /\ batch[c] = NoBatch
    /\ Take(o)
    /\ refs' = [refs EXCEPT ![c] = @ \cup {o}]
    /\ UNCHANGED <<mode, cached, pins, batch, monitorVars>>

\* batched_allocate of the paged allocator: no lock is held between two pops.
BatchedAllocateBegin(c, n) ==
    /\ Paged
    /\ batch[c] = NoBatch
    /\ batch' = [batch EXCEPT ![c] = [got |-> {}, want |-> n]]
    /\ UNCHANGED <<mode, objVars, cached, refs, pins, monitorVars>>

BatchedAllocateTake(c, o) ==
    /\ batch[c].want > Cardinality(batch[c].got)
    /\ Take(o)
    /\ batch' = [batch EXCEPT ![c].got = @ \cup {o}]
    /\ UNCHANGED <<mode, cached, refs, pins, monitorVars>>

BatchedAllocateDone(c) ==
    /\ batch[c] # NoBatch
    /\ batch[c].want = Cardinality(batch[c].got)
    /\ refs' = [refs EXCEPT ![c] = @ \cup batch[c].got]
    /\ batch' = [batch EXCEPT ![c] = NoBatch]
    /\ UNCHANGED <<mode, objVars, cached, pins, monitorVars>>

\* popleft() raises IndexError: what was taken goes back with its count of 1.
BatchedAllocateFail(c) ==
    /\ batch[c].want > Cardinality(batch[c].got)
    /\ \A o \in Objs : freeBlocks[o] = 0
    /\ freeBlocks' = [o \in Objs |-> IF o \in batch[c].got THEN 1 ELSE 0]
    /\ batch' = [batch EXCEPT ![c] = NoBatch]
    /\ UNCHANGED <<mode, refCount, pinCount, valid, cached, refs, pins, monitorVars>>

-----------------------------------------------------------------------------
(* Holders *)

\* LocalCPUBackend.submit_put_task: the cache takes its own reference.
Put(c, o) ==
    /\ o \in refs[c] /\ o \notin cached
    /\ RefCountUp(o)
    /\ cached' = cached \cup {o}
    /\ UNCHANGED <<mode, refs, pins, batch, monitorVars>>

\* get_blocking / batched_get_non_blocking on a key of the hot cache.
Get(c, o) ==
    /\ o \in cached /\ o \notin refs[c]
    /\ RefCountUp(o)
    /\ refs' = [refs EXCEPT ![c] = @ \cup {o}]
    /\ UNCHANGED <<mode, cached, pins, batch, monitorVars>>

\* contains(pin=True) / batched_async_contains(pin=True) / pin.
Pin(c, o) ==
    /\ o \in cached /\ o \notin pins[c] /\ pinCount[o] < MaxPins
    /\ PinObj(o)
    /\ pins' = [pins EXCEPT ![c] = @ \cup {o}]
    /\ UNCHANGED <<mode, cached, refs, batch, timeoutObjs, forcing, monitorPc>>

DropRef(c, o) ==
    /\ o \in refs[c]
    /\ RefCountDown(o)
    /\ refs' = [refs EXCEPT ![c] = @ \ {o}]
    /\ UNCHANGED <<mode, cached, pins, batch, monitorVars>>

\* memory_obj.unpin() on the object itself.
Unpin(c, o) ==
    /\ o \in pins[c]
    /\ UnpinObj(o)
    /\ pins' = [pins EXCEPT ![c] = @ \ {o}]
    /\ UNCHANGED <<mode, cached, refs, batch, timeoutObjs, forcing, monitorPc>>

\* LocalCPUBackend.unpin(key) when the key has left the hot cache: it
\* returns False and the pin stays on the object.
UnpinKeyGone(c, o) ==
    /\ o \in pins[c] /\ o \notin cached
    /\ pins' = [pins EXCEPT ![c] = @ \ {o}]
    /\ UNCHANGED <<mode, objVars, cached, refs, batch, monitorVars>>

\* remove(key, force=True) ignores pins and other references.
ForceRemove(o) ==
    /\ o \in cached
    /\ RefCountDown(o)
    /\ cached' = cached \ {o}
    /\ UNCHANGED <<mode, refs, pins, batch, monitorVars>>

\* Eviction only takes an object for which can_evict is true.
Evict(o) ==
    /\ pinCount[o] <= 0 /\ refCount[o] = 1
    /\ ForceRemove(o)

-----------------------------------------------------------------------------
(* PinMonitor *)

\* Time passes for the registered objects.
Tick ==
    /\ MonitorOn
    /\ \E o \in pinnedObjects : age[o] <= PinTimeout
    /\ age' = [o \in Objs |-> IF o \in pinnedObjects /\ age[o] <= PinTimeout
                              THEN age[o] + 1 ELSE age[o]]
    /\ UNCHANGED <<mode, objVars, holderVars, pinnedObjects, timeoutObjs, forcing, monitorPc>>

\* _check_timeouts, under _objects_lock.
CheckTimeouts ==
    /\ monitorPc = "idle" /\ timeoutObjs = {}
    /\ timeoutObjs' = {o \in pinnedObjects : pinCount[o] > 0 /\ age[o] > PinTimeout}
    /\ timeoutObjs' # {}
    /\ UNCHANGED <<mode, objVars, holderVars, pinnedObjects, age, forcing, monitorPc>>

\* The first look at pin_count, under the object's lock.
ForceBegin(o) ==
    /\ monitorPc = "idle" /\ o \in timeoutObjs
    /\ timeoutObjs' = timeoutObjs \ {o}
    /\ IF pinCount[o] <= 0
       THEN UNCHANGED <<forcing, monitorPc>>
       ELSE forcing' = o /\ monitorPc' = "test"
    /\ UNCHANGED <<mode, objVars, holderVars, pinnedObjects, age>>

\* while memory_obj.meta.pin_count > 0, read without the lock ...
ForceTest ==
    /\ monitorPc = "test"
    /\ IF pinCount[forcing] > 0
       THEN monitorPc' = "unpin" /\ UNCHANGED forcing
       ELSE monitorPc' = "idle" /\ forcing' = NoObj
    /\ UNCHANGED <<mode, objVars, holderVars, pinnedObjects, age, timeoutObjs>>

\* ... memory_obj.unpin()
ForceUnpin ==
    /\ monitorPc = "unpin"
    /\ UnpinObj(forcing)
    /\ monitorPc' = "test"
    /\ UNCHANGED <<mode, holderVars, timeoutObjs, forcing>>

-----------------------------------------------------------------------------
Monitor == CheckTimeouts \/ (\E o \in Objs : ForceBegin(o)) \/ ForceTest \/ ForceUnpin

Next ==
    \/ \E c \in Clients, o \in Objs : Allocate(c, o)
    \/ \E c \in Clients, n \in 1..MaxBatch : BatchedAllocateBegin(c, n)
    \/ \E c \in Clients, o \in Objs : BatchedAllocateTake(c, o)
    \/ \E c \in Clients : BatchedAllocateDone(c)
    \/ \E c \in Clients : BatchedAllocateFail(c)
    \/ \E c \in Clients, o \in Objs : Put(c, o)
    \/ \E c \in Clients, o \in Objs : Get(c, o)
    \/ \E c \in Clients, o \in Objs : Pin(c, o)
    \/ \E c \in Clients, o \in Objs : DropRef(c, o)
    \/ \E c \in Clients, o \in Objs : Unpin(c, o)
    \/ \E c \in Clients, o \in Objs : UnpinKeyGone(c, o)
    \/ \E o \in Objs : ForceRemove(o)
    \/ \E o \in Objs : Evict(o)
    \/ Tick
    \/ CheckTimeouts
    \/ \E o \in Objs : ForceBegin(o)
    \/ ForceTest
    \/ ForceUnpin

Spec == Init /\ [][Next]_vars

\* The clock advances and the monitor is a running periodic thread.
FairSpec == Spec /\ WF_vars(Tick) /\ WF_vars(Monitor)

-----------------------------------------------------------------------------
(* Properties *)

Holders(o) == {c \in Clients : o \in refs[c] \/ o \in batch[c].got}
Pinners(o) == {c \in Clients : o \in pins[c]}

\* Every variable has its type; counts are never left negative.
TypeOK ==
    /\ mode \in Modes
    /\ refCount \in [Objs -> Nat]
    /\ pinCount \in [Objs -> Nat]
    /\ valid \in [Objs -> BOOLEAN]
    /\ freeBlocks \in [Objs -> Nat]
    /\ cached \subseteq Objs
    /\ refs \in [Clients -> SUBSET Objs]
    /\ pins \in [Clients -> SUBSET Objs]
    /\ batch \in [Clients -> [got: SUBSET Objs, want: Nat]]
    /\ pinnedObjects \subseteq Objs
    /\ age \in [Objs -> Nat]
    /\ timeoutObjs \subseteq Objs
    /\ forcing \in Objs \cup {NoObj}
    /\ monitorPc \in {"idle", "test", "unpin"}
    /\ monitorPc # "idle" => forcing \in Objs

\* The memory of an object is handed out at most once: it is not in the
\* allocator twice, and not there at all while the cache or a client holds a
\* reference, whatever unpins, evictions and removals interleave.
NoDoubleFree ==
    \A o \in Objs :
        /\ freeBlocks[o] <= 1
        /\ (o \in cached \/ Holders(o) # {}) => freeBlocks[o] = 0

\* The count is exact while the object is out: one for the cache and one for
\* each client, so the last one to leave, and only it, frees the object.
RefExact ==
    \A o \in Objs :
        freeBlocks[o] = 0 =>
            refCount[o] = Cardinality(Holders(o)) + (IF o \in cached THEN 1 ELSE 0)

\* A pin a client still relies on is on the object, and its memory is kept:
\* no other client's unpin takes it away (only a timeout of the monitor may).
PinKept ==
    ~MonitorOn => \A o \in Objs : /\ pinCount[o] >= Cardinality(Pinners(o))
                                  /\ Pinners(o) # {} => freeBlocks[o] = 0

\* An object is watched by the monitor exactly while it is pinned: no pin
\* escapes the timeout and no unpinned object stays in _pinned_objects.
WatchedWhilePinned == \A o \in Objs : o \in pinnedObjects <=> pinCount[o] > 0

\* What every holder of a chunk's memory relies on, in one invariant.
ObjectsSafe == TypeOK /\ NoDoubleFree /\ RefExact /\ PinKept /\ WatchedWhilePinned

\* A running countdown ends: a new pin() restarts it or the object becomes
\* unpinned, even if the client that pinned it never comes back.
CountdownEnds == \A o \in Objs : []<>(MonitorOn => pinCount[o] = 0 \/ age[o] = 0)

\* Memory is not leaked by a lost unpin: an object with no reference left,
\* pinned only by pins that nobody will give back, does not stay out.
LostPinReleased ==
    \A o \in Objs : []<>(MonitorOn /\ o \in mode.heap => refCount[o] > 0 \/ freeBlocks[o] > 0)

\* The PinMonitor does its work: countdowns end and lost pins are released.
PinsTimeOut == CountdownEnds /\ LostPinReleased
=============================================================================
