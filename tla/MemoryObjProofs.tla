--------------------------- MODULE MemoryObjProofs ---------------------------
(***************************************************************************)
(* Proofs about the life of memory objects, for any set of objects, any    *)
(* finite set of clients and any bounds, and about the asynchronous        *)
(* lookups that prefetch chunks, for any requests, workers and plans.      *)
(***************************************************************************)
EXTENDS MCObjects, DictionaryProofs

\* No configuration lets pins time out on pages: the monitor's forced unpin and
\* the client's own one would both release the page, which stays valid when it
\* is free (pin_monitor.py, PagedTensorMemoryAllocator.free).
PagesNotMonitored == \A m \in Modes : ~(m.paged /\ m.monitor)

\* Only pages are taken in batches, and a page that batched_allocate has taken
\* belongs to that call alone.
BatchPrivate ==
    \A c \in Clients :
        /\ Paged \/ batch[c] = NoBatch
        /\ \A o \in batch[c].got :
              /\ o \notin cached /\ pinCount[o] = 0
              /\ \A d \in Clients : o \notin refs[d] /\ (d # c => o \notin batch[d].got)

\* A free object is not pinned, and it is invalid unless it is a page.
FreeIdle ==
    \A o \in Objs : freeBlocks[o] > 0 => pinCount[o] = 0 /\ (Paged \/ ~valid[o])

\* Without the timeout the monitor has nothing to do.
MonitorQuiet ==
    ~MonitorOn => /\ \A o \in Objs : age[o] = 0
                  /\ timeoutObjs = {} /\ monitorPc = "idle"

IInv ==
    /\ TypeOK /\ NoDoubleFree /\ RefExact /\ PinKept /\ WatchedWhilePinned
    /\ BatchPrivate /\ FreeIdle /\ MonitorQuiet
    /\ ~(Paged /\ MonitorOn)

-----------------------------------------------------------------------------
(* What the methods of an object do, and the sets that are counted. *)

\* The holders and the pinners of an object are finitely many.
LEMMA CountedSets ==
    ASSUME NEW o
    PROVE  /\ IsFiniteSet(Holders(o)) /\ Cardinality(Holders(o)) \in Nat
           /\ IsFiniteSet(Pinners(o)) /\ Cardinality(Pinners(o)) \in Nat
           /\ Cardinality(Holders(o)) = 0 <=> Holders(o) = {}
           /\ Cardinality(Pinners(o)) = 0 <=> Pinners(o) = {}
<1>1. IsFiniteSet(Holders(o)) /\ IsFiniteSet(Pinners(o))
  BY ClientAssumption, FS_Subset DEF Holders, Pinners
<1> QED BY <1>1, FS_CardinalityType, FS_EmptySet

\* ref_count_down() on an object that is held: one reference less, and the
\* memory is released only with the last of them and when it is not pinned.
LEMMA RefCountDownEffect ==
    ASSUME IInv, NEW o \in Objs, RefCountDown(o), freeBlocks[o] = 0, refCount[o] > 0,
           mode' = mode
    PROVE  /\ refCount' \in [Objs -> Nat] /\ freeBlocks' \in [Objs -> Nat]
           /\ valid' \in [Objs -> BOOLEAN] /\ pinCount' = pinCount
           /\ refCount'[o] = refCount[o] - 1
           /\ \A x \in Objs \ {o} : /\ refCount'[x] = refCount[x]
                                    /\ freeBlocks'[x] = freeBlocks[x] /\ valid'[x] = valid[x]
           /\ \/ freeBlocks'[o] = 0
              \/ /\ freeBlocks'[o] = 1 /\ (Paged' \/ ~valid'[o])
                 /\ refCount'[o] = 0 /\ pinCount'[o] = 0
<1>1. Paged \in BOOLEAN
  BY ModeAssumption DEF IInv, TypeOK, Paged
<1>2. AtLeastZero(refCount[o] - 1) = refCount[o] - 1 /\ refCount[o] \in Nat
  BY DEF AtLeastZero, IInv, TypeOK
<1> QED BY <1>1, <1>2 DEF RefCountDown, Release, IInv, TypeOK, Paged

\* unpin(): one pin less, the object is watched while a pin is left, and the
\* memory is released only by the last pin and when nobody holds a reference.
LEMMA UnpinEffect ==
    ASSUME IInv, NEW o \in Objs, UnpinObj(o), freeBlocks[o] = 0 \/ ~valid[o], mode' = mode
    PROVE  /\ pinCount' \in [Objs -> Nat] /\ freeBlocks' \in [Objs -> Nat]
           /\ valid' \in [Objs -> BOOLEAN] /\ refCount' = refCount
           /\ age' \in [Objs -> Nat] /\ \A x \in Objs : age'[x] = 0 \/ age'[x] = age[x]
           /\ pinnedObjects' \subseteq Objs
           /\ pinCount'[o] = IF pinCount[o] = 0 THEN 0 ELSE pinCount[o] - 1
           /\ o \in pinnedObjects' <=> pinCount'[o] > 0
           /\ \A x \in Objs \ {o} : /\ pinCount'[x] = pinCount[x] /\ valid'[x] = valid[x]
                                    /\ freeBlocks'[x] = freeBlocks[x]
                                    /\ x \in pinnedObjects' <=> x \in pinnedObjects
           /\ \/ freeBlocks'[o] = freeBlocks[o] /\ valid'[o] = valid[o]
              \/ /\ freeBlocks[o] = 0 /\ freeBlocks'[o] = 1 /\ (Paged' \/ ~valid'[o])
                 /\ refCount[o] = 0 /\ pinCount'[o] = 0
<1>1. Paged \in BOOLEAN
  BY ModeAssumption DEF IInv, TypeOK, Paged
<1>2. /\ refCount[o] \in Nat /\ pinCount[o] \in Nat /\ pinCount[o] - 1 \in Int
      /\ AtLeastZero(pinCount[o] - 1) = IF pinCount[o] = 0 THEN 0 ELSE pinCount[o] - 1
      /\ AtLeastZero(pinCount[o] - 1) \in Nat
  BY DEF AtLeastZero, IInv, TypeOK
<1>3. /\ pinCount' = [pinCount EXCEPT ![o] = AtLeastZero(pinCount[o] - 1)]
      /\ refCount' = refCount
      /\ pinnedObjects' = IF pinCount[o] - 1 = 0 THEN pinnedObjects \ {o} ELSE pinnedObjects
      /\ age' = IF pinCount[o] - 1 = 0 THEN [age EXCEPT ![o] = 0] ELSE age
  BY DEF UnpinObj
<1>4. /\ pinCount' \in [Objs -> Nat] /\ refCount' = refCount /\ pinnedObjects' \subseteq Objs
      /\ age' \in [Objs -> Nat] /\ \A x \in Objs : age'[x] = 0 \/ age'[x] = age[x]
      /\ pinCount'[o] = IF pinCount[o] = 0 THEN 0 ELSE pinCount[o] - 1
      /\ \A x \in Objs \ {o} : /\ pinCount'[x] = pinCount[x]
                               /\ x \in pinnedObjects' <=> x \in pinnedObjects
  BY <1>2, <1>3 DEF IInv, TypeOK
<1>5. o \in pinnedObjects' <=> pinCount'[o] > 0
  BY <1>2, <1>3, <1>4 DEF IInv, WatchedWhilePinned
<1>6. /\ freeBlocks' \in [Objs -> Nat] /\ valid' \in [Objs -> BOOLEAN]
      /\ \A x \in Objs \ {o} : valid'[x] = valid[x] /\ freeBlocks'[x] = freeBlocks[x]
      /\ \/ freeBlocks'[o] = freeBlocks[o] /\ valid'[o] = valid[o]
         \/ /\ freeBlocks[o] = 0 /\ freeBlocks'[o] = 1 /\ (Paged' \/ ~valid'[o])
            /\ refCount[o] = 0 /\ pinCount[o] - 1 <= 0
  BY <1>1, <1>2 DEF UnpinObj, Release, IInv, TypeOK, Paged
<1> QED BY <1>2, <1>4, <1>5, <1>6

\* An object that is held has a reference, and so has not been released.
LEMMA HeldCounted ==
    ASSUME IInv, NEW o \in Objs, o \in cached \/ Holders(o) # {}
    PROVE  freeBlocks[o] = 0 /\ refCount[o] > 0
BY CountedSets DEF IInv, NoDoubleFree, RefExact, TypeOK

\* A singleton has one element, the empty set none.
LEMMA SmallSets == Cardinality({}) = 0 /\ \A x : Cardinality({x}) = 1
BY FS_EmptySet, FS_Singleton

\* Who holds and who pins an object is kept where the books are kept.
LEMMA SameHolders ==
    ASSUME UNCHANGED <<refs, batch>>
    PROVE  \A x \in Objs : Holders(x)' = Holders(x)
BY DEF Holders
\* Who pins it is kept where the pins are.
LEMMA SamePinners ==
    ASSUME UNCHANGED pins
    PROVE  \A x \in Objs : Pinners(x)' = Pinners(x)
BY DEF Pinners

\* The initial states satisfy the inductive invariant.
LEMMA InitIInv == Init /\ PagesNotMonitored => IInv
<1> SUFFICES ASSUME Init, PagesNotMonitored PROVE IInv
  OBVIOUS
<1> USE DEF Init
<1>1. Paged \in BOOLEAN /\ ~(Paged /\ MonitorOn)
  BY ModeAssumption DEF Paged, MonitorOn, PagesNotMonitored
<1>2. TypeOK
  BY <1>1 DEF TypeOK, NoBatch
<1>3. \A o \in Objs : Holders(o) = {} /\ Pinners(o) = {}
  BY DEF Holders, Pinners, NoBatch
<1>4. NoDoubleFree /\ RefExact /\ PinKept /\ WatchedWhilePinned
  BY <1>3, FS_EmptySet DEF NoDoubleFree, RefExact, PinKept, WatchedWhilePinned
<1>5. BatchPrivate /\ FreeIdle /\ MonitorQuiet
  BY DEF BatchPrivate, FreeIdle, MonitorQuiet, NoBatch
<1> QED BY <1>1, <1>2, <1>4, <1>5 DEF IInv

-----------------------------------------------------------------------------
(* Allocation preserves the inductive invariant. *)

\* A block that leaves the allocator has no holder and no pin.
LEMMA TakeEffect ==
    ASSUME IInv, NEW o \in Objs, Take(o), mode' = mode
    PROVE  /\ Holders(o) = {} /\ o \notin cached /\ pinCount[o] = 0
           /\ ~MonitorOn => Pinners(o) = {}
           /\ refCount' \in [Objs -> Nat] /\ freeBlocks' \in [Objs -> Nat]
           /\ valid' \in [Objs -> BOOLEAN] /\ pinCount' = pinCount
           /\ refCount'[o] = 1 /\ freeBlocks'[o] = 0
           /\ \A x \in Objs \ {o} : /\ refCount'[x] = refCount[x] /\ valid'[x] = valid[x]
                                    /\ freeBlocks'[x] = freeBlocks[x]
<1>1. freeBlocks[o] = 1 /\ pinCount[o] = 0
  BY DEF Take, IInv, NoDoubleFree, FreeIdle, TypeOK
<1>2. Holders(o) = {} /\ o \notin cached
  BY <1>1 DEF IInv, NoDoubleFree
<1>3. ~MonitorOn => Pinners(o) = {}
  BY <1>1, CountedSets DEF IInv, PinKept
<1> QED BY <1>1, <1>2, <1>3 DEF Take, IInv, TypeOK

\* allocate(): the caller becomes the only holder.
LEMMA AllocateIInv == \A c \in Clients, o \in Objs : IInv /\ Allocate(c, o) => IInv'
<1> SUFFICES ASSUME NEW c \in Clients, NEW o \in Objs, IInv, Allocate(c, o) PROVE IInv'
  OBVIOUS
<1>1. /\ Take(o) /\ batch[c] = NoBatch /\ refs' = [refs EXCEPT ![c] = @ \cup {o}]
      /\ UNCHANGED <<mode, cached, pins, batch, pinnedObjects, age, timeoutObjs, forcing, monitorPc>>
  BY DEF Allocate, monitorVars
<1> USE TakeEffect, <1>1
<1>2. TypeOK'
  BY DEF IInv, TypeOK
<1>3. /\ \A x \in Objs : Pinners(x)' = Pinners(x)
      /\ \A x \in Objs \ {o} : Holders(x)' = Holders(x)
      /\ Holders(o)' = {c}
  BY DEF Holders, Pinners, IInv, TypeOK
<1>4. NoDoubleFree'
  BY <1>3 DEF IInv, NoDoubleFree
<1>5. RefExact'
  <2>1. Cardinality(Holders(o)') = 1
    <3>1. Cardinality({c}) = 1
      BY SmallSets
    <3> QED BY ONLY <1>3, <3>1
  <2> SUFFICES ASSUME NEW x \in Objs, freeBlocks'[x] = 0
               PROVE  refCount'[x] = Cardinality(Holders(x)') + (IF x \in cached' THEN 1 ELSE 0)
    BY DEF RefExact
  <2>2. CASE x = o
    BY <2>1, <2>2
  <2>3. CASE x # o
    BY <1>3, <2>3 DEF IInv, RefExact
  <2> QED BY <2>2, <2>3
<1>6. PinKept' /\ WatchedWhilePinned'
  BY <1>3 DEF IInv, PinKept, WatchedWhilePinned, MonitorOn
<1>7. BatchPrivate'
  BY DEF IInv, BatchPrivate, Holders, TypeOK, NoBatch, Paged
<1>8. FreeIdle' /\ MonitorQuiet' /\ ~(Paged /\ MonitorOn)'
  BY DEF IInv, FreeIdle, MonitorQuiet, Paged, MonitorOn
<1> QED BY <1>2, <1>4, <1>5, <1>6, <1>7, <1>8 DEF IInv

\* batched_allocate() begins: no object is concerned.
LEMMA BatchBeginIInv ==
    \A c \in Clients, n \in 1..MaxBatch : IInv /\ BatchedAllocateBegin(c, n) => IInv'
<1> SUFFICES ASSUME NEW c \in Clients, NEW n \in 1..MaxBatch, IInv, BatchedAllocateBegin(c, n)
             PROVE  IInv'
  OBVIOUS
<1>1. /\ batch[c] = NoBatch /\ batch' = [batch EXCEPT ![c] = [got |-> {}, want |-> n]]
      /\ UNCHANGED <<mode, refCount, pinCount, valid, freeBlocks, cached, refs, pins, pinnedObjects,
                     age, timeoutObjs, forcing, monitorPc>>
  BY DEF BatchedAllocateBegin, monitorVars, objVars
<1> USE <1>1
<1>2. TypeOK'
  BY BoundAssumption DEF IInv, TypeOK
<1>3. \A x \in Objs : Holders(x)' = Holders(x) /\ Pinners(x)' = Pinners(x)
  BY DEF Holders, Pinners, IInv, TypeOK, NoBatch
<1>4. NoDoubleFree' /\ RefExact' /\ PinKept' /\ WatchedWhilePinned'
  BY <1>3 DEF IInv, NoDoubleFree, RefExact, PinKept, WatchedWhilePinned, MonitorOn
<1>5. BatchPrivate'
  BY DEF IInv, BatchPrivate, TypeOK, Paged, BatchedAllocateBegin
<1>6. FreeIdle' /\ MonitorQuiet' /\ ~(Paged /\ MonitorOn)'
  BY DEF IInv, FreeIdle, MonitorQuiet, Paged, MonitorOn
<1> QED BY <1>2, <1>4, <1>5, <1>6 DEF IInv

\* One pop of batched_allocate(): the page belongs to this call.
LEMMA BatchTakeIInv ==
    \A c \in Clients, o \in Objs : IInv /\ BatchedAllocateTake(c, o) => IInv'
<1> SUFFICES ASSUME NEW c \in Clients, NEW o \in Objs, IInv, BatchedAllocateTake(c, o) PROVE IInv'
  OBVIOUS
<1>1. /\ Take(o) /\ batch' = [batch EXCEPT ![c].got = @ \cup {o}]
      /\ UNCHANGED <<mode, cached, refs, pins, pinnedObjects, age, timeoutObjs, forcing, monitorPc>>
  BY DEF BatchedAllocateTake, monitorVars
<1> USE TakeEffect, <1>1
<1>2. TypeOK'
  BY DEF IInv, TypeOK
<1>3. batch'[c].got = batch[c].got \cup {o} /\ \A d \in Clients \ {c} : batch'[d] = batch[d]
  BY DEF IInv, TypeOK
<1>4. /\ \A x \in Objs : Pinners(x)' = Pinners(x)
      /\ \A x \in Objs \ {o} : Holders(x)' = Holders(x)
      /\ Holders(o)' = {c}
  BY <1>3 DEF Holders, Pinners
<1>5. NoDoubleFree'
  BY <1>4 DEF IInv, NoDoubleFree
<1>6. RefExact'
  <2>1. Cardinality(Holders(o)') = 1
    <3>1. Cardinality({c}) = 1
      BY SmallSets
    <3> QED BY ONLY <1>4, <3>1
  <2> SUFFICES ASSUME NEW x \in Objs, freeBlocks'[x] = 0
               PROVE  refCount'[x] = Cardinality(Holders(x)') + (IF x \in cached' THEN 1 ELSE 0)
    BY DEF RefExact
  <2>2. CASE x = o
    BY <2>1, <2>2
  <2>3. CASE x # o
    BY <1>4, <2>3 DEF IInv, RefExact
  <2> QED BY <2>2, <2>3
<1>7. PinKept' /\ WatchedWhilePinned'
  BY <1>4 DEF IInv, PinKept, WatchedWhilePinned, MonitorOn
<1>8. BatchPrivate'
  <2>1. batch[c] # NoBatch
    <3> SUFFICES ASSUME batch[c] = NoBatch PROVE FALSE
      OBVIOUS
    <3>1. batch[c].want > Cardinality(batch[c].got)
      BY DEF BatchedAllocateTake
    <3>2. batch[c].want = 0 /\ batch[c].got = {}
      BY DEF NoBatch
    <3> QED BY <3>1, <3>2, SmallSets
  <2> QED BY <1>3, <2>1 DEF IInv, BatchPrivate, Holders, Paged
<1>9. FreeIdle' /\ MonitorQuiet' /\ ~(Paged /\ MonitorOn)'
  BY DEF IInv, FreeIdle, MonitorQuiet, Paged, MonitorOn
<1> QED BY <1>2, <1>5, <1>6, <1>7, <1>8, <1>9 DEF IInv

\* batched_allocate() returns its pages: the caller holds what the call held.
LEMMA BatchDoneIInv == \A c \in Clients : IInv /\ BatchedAllocateDone(c) => IInv'
<1> SUFFICES ASSUME NEW c \in Clients, IInv, BatchedAllocateDone(c) PROVE IInv'
  OBVIOUS
<1>1. /\ refs' = [refs EXCEPT ![c] = @ \cup batch[c].got]
      /\ batch' = [batch EXCEPT ![c] = NoBatch]
      /\ UNCHANGED <<mode, refCount, pinCount, valid, freeBlocks, cached, pins, pinnedObjects,
                     age, timeoutObjs, forcing, monitorPc>>
  BY DEF BatchedAllocateDone, monitorVars, objVars
<1> USE <1>1
<1>2. TypeOK'
  BY DEF IInv, TypeOK, NoBatch
<1>3. /\ batch'[c].got = {} /\ \A d \in Clients \ {c} : batch'[d] = batch[d] /\ refs'[d] = refs[d]
      /\ refs'[c] = refs[c] \cup batch[c].got
  BY DEF IInv, TypeOK, NoBatch
<1>4. \A x \in Objs : Holders(x)' = Holders(x) /\ Pinners(x)' = Pinners(x)
  BY <1>3 DEF Holders, Pinners
<1>5. NoDoubleFree' /\ RefExact' /\ PinKept' /\ WatchedWhilePinned'
  BY <1>4 DEF IInv, NoDoubleFree, RefExact, PinKept, WatchedWhilePinned, MonitorOn
<1>6. BatchPrivate'
  BY <1>3 DEF IInv, BatchPrivate, Paged, TypeOK
<1>7. FreeIdle' /\ MonitorQuiet' /\ ~(Paged /\ MonitorOn)'
  BY DEF IInv, FreeIdle, MonitorQuiet, Paged, MonitorOn
<1> QED BY <1>2, <1>5, <1>6, <1>7 DEF IInv

\* batched_allocate() runs out of pages and gives back what it took: nobody else
\* has seen these pages.
LEMMA BatchFailIInv == \A c \in Clients : IInv /\ BatchedAllocateFail(c) => IInv'
<1> SUFFICES ASSUME NEW c \in Clients, IInv, BatchedAllocateFail(c) PROVE IInv'
  OBVIOUS
<1> DEFINE G == batch[c].got
<1>1. /\ \A o \in Objs : freeBlocks[o] = 0
      /\ freeBlocks' = [o \in Objs |-> IF o \in G THEN 1 ELSE 0]
      /\ batch' = [batch EXCEPT ![c] = NoBatch]
      /\ UNCHANGED <<mode, refCount, pinCount, valid, cached, refs, pins, pinnedObjects,
                     age, timeoutObjs, forcing, monitorPc>>
  BY DEF BatchedAllocateFail, monitorVars
<1>2. TypeOK'
  BY <1>1 DEF IInv, TypeOK, NoBatch
<1>3. batch'[c].got = {} /\ \A d \in Clients \ {c} : batch'[d] = batch[d]
  BY <1>1 DEF IInv, TypeOK, NoBatch
<1>4. /\ \A x \in Objs : Pinners(x)' = Pinners(x)
      /\ \A x \in Objs \ G : Holders(x)' = Holders(x)
      /\ \A x \in G : Holders(x)' = {} /\ x \notin cached' /\ pinCount'[x] = 0
  BY <1>1, <1>3 DEF Holders, Pinners, IInv, BatchPrivate
<1> HIDE DEF G
<1>5. NoDoubleFree' /\ RefExact'
  BY <1>1, <1>4 DEF IInv, NoDoubleFree, RefExact
<1>6. PinKept' /\ WatchedWhilePinned'
  BY <1>1, <1>4, CountedSets DEF IInv, PinKept, WatchedWhilePinned, MonitorOn
<1>7. BatchPrivate'
  BY <1>1, <1>3 DEF IInv, BatchPrivate, Paged, TypeOK
<1>8. FreeIdle'
  <2>1. G = {} \/ Paged
    BY DEF G, IInv, BatchPrivate, NoBatch
  <2> QED BY <1>1, <1>4, <2>1 DEF FreeIdle, Paged
<1>9. MonitorQuiet' /\ ~(Paged /\ MonitorOn)'
  BY <1>1 DEF IInv, MonitorQuiet, Paged, MonitorOn
<1> QED BY <1>2, <1>5, <1>6, <1>7, <1>8, <1>9 DEF IInv

-----------------------------------------------------------------------------
(* The holders' operations preserve the inductive invariant. *)

\* submit_put_task: the object is held already, the cache adds its reference.
LEMMA PutIInv == \A c \in Clients, o \in Objs : IInv /\ Put(c, o) => IInv'
<1> SUFFICES ASSUME NEW c \in Clients, NEW o \in Objs, IInv, Put(c, o) PROVE IInv'
  OBVIOUS
<1>1. /\ o \in refs[c] /\ o \notin cached /\ cached' = cached \cup {o}
      /\ refCount' = [refCount EXCEPT ![o] = @ + 1]
      /\ UNCHANGED <<mode, pinCount, valid, freeBlocks, refs, pins, batch, pinnedObjects, age,
                     timeoutObjs, forcing, monitorPc>>
  BY DEF Put, RefCountUp, monitorVars
<1> USE <1>1
<1>2. TypeOK'
  BY DEF IInv, TypeOK
<1>3. \A x \in Objs : Holders(x)' = Holders(x) /\ Pinners(x)' = Pinners(x)
  BY SameHolders, SamePinners
<1>4. Holders(o) # {} /\ freeBlocks[o] = 0
  BY HeldCounted DEF Holders
<1>5. NoDoubleFree' /\ PinKept' /\ WatchedWhilePinned'
  BY <1>3, <1>4 DEF IInv, NoDoubleFree, PinKept, WatchedWhilePinned, MonitorOn
<1>6. RefExact'
  BY <1>3, CountedSets DEF IInv, RefExact, TypeOK
<1>7. BatchPrivate' /\ FreeIdle' /\ MonitorQuiet' /\ ~(Paged /\ MonitorOn)'
  BY DEF IInv, BatchPrivate, FreeIdle, MonitorQuiet, Paged, MonitorOn
<1> QED BY <1>2, <1>5, <1>6, <1>7 DEF IInv

\* A get on a key of the hot cache: one more holder, one more reference.
LEMMA GetIInv == \A c \in Clients, o \in Objs : IInv /\ Get(c, o) => IInv'
<1> SUFFICES ASSUME NEW c \in Clients, NEW o \in Objs, IInv, Get(c, o) PROVE IInv'
  OBVIOUS
<1>1. /\ o \notin refs[c] /\ o \in cached /\ refs' = [refs EXCEPT ![c] = @ \cup {o}]
      /\ refCount' = [refCount EXCEPT ![o] = @ + 1]
      /\ UNCHANGED <<mode, pinCount, valid, freeBlocks, cached, pins, batch, pinnedObjects, age,
                     timeoutObjs, forcing, monitorPc>>
  BY DEF Get, RefCountUp, monitorVars
<1> USE <1>1
<1>2. TypeOK'
  BY DEF IInv, TypeOK
<1>3. /\ \A x \in Objs : Pinners(x)' = Pinners(x)
      /\ \A x \in Objs \ {o} : Holders(x)' = Holders(x)
      /\ c \notin Holders(o) /\ Holders(o)' = Holders(o) \cup {c}
  BY DEF Holders, Pinners, IInv, TypeOK, BatchPrivate
<1>4. freeBlocks[o] = 0
  BY HeldCounted
<1>5. NoDoubleFree'
  BY <1>3, <1>4 DEF IInv, NoDoubleFree
<1>6. PinKept' /\ WatchedWhilePinned'
  BY <1>3 DEF IInv, PinKept, WatchedWhilePinned, MonitorOn
<1>7. Cardinality(Holders(o)') = Cardinality(Holders(o)) + 1
  <2>1. Cardinality(Holders(o) \cup {c}) = Cardinality(Holders(o)) + 1
    BY <1>3, CountedSets, FS_AddElement
  <2> QED BY ONLY <1>3, <2>1
<1>8. RefExact'
  <2> SUFFICES ASSUME NEW x \in Objs, freeBlocks'[x] = 0
               PROVE  refCount'[x] = Cardinality(Holders(x)') + (IF x \in cached' THEN 1 ELSE 0)
    BY DEF RefExact
  <2>1. CASE x = o
    BY <1>7, <2>1, CountedSets DEF IInv, RefExact, TypeOK
  <2>2. CASE x # o
    BY <1>3, <2>2 DEF IInv, RefExact, TypeOK
  <2> QED BY <2>1, <2>2
<1>9. BatchPrivate'
  BY DEF IInv, BatchPrivate, Paged, TypeOK
<1>10. FreeIdle' /\ MonitorQuiet' /\ ~(Paged /\ MonitorOn)'
  BY DEF IInv, FreeIdle, MonitorQuiet, Paged, MonitorOn
<1> QED BY <1>2, <1>5, <1>6, <1>8, <1>9, <1>10 DEF IInv

\* A pin on an object of the hot cache is counted and watched.
LEMMA PinIInv == \A c \in Clients, o \in Objs : IInv /\ Pin(c, o) => IInv'
<1> SUFFICES ASSUME NEW c \in Clients, NEW o \in Objs, IInv, Pin(c, o) PROVE IInv'
  OBVIOUS
<1>1. /\ o \in cached /\ o \notin pins[c] /\ pins' = [pins EXCEPT ![c] = @ \cup {o}]
      /\ pinCount' = [pinCount EXCEPT ![o] = @ + 1]
      /\ pinnedObjects' = pinnedObjects \cup {o} /\ age' = [age EXCEPT ![o] = 0]
      /\ UNCHANGED <<mode, refCount, valid, freeBlocks, cached, refs, batch, timeoutObjs, forcing,
                     monitorPc>>
  BY DEF Pin, PinObj
<1> USE <1>1
<1>2. TypeOK'
  BY DEF IInv, TypeOK
<1>3. /\ \A x \in Objs : Holders(x)' = Holders(x)
      /\ \A x \in Objs \ {o} : Pinners(x)' = Pinners(x)
      /\ c \notin Pinners(o) /\ Pinners(o)' = Pinners(o) \cup {c}
  BY DEF Holders, Pinners, IInv, TypeOK
<1>4. freeBlocks[o] = 0
  BY HeldCounted
<1>5. NoDoubleFree' /\ RefExact'
  BY <1>3 DEF IInv, NoDoubleFree, RefExact
<1>6. Cardinality(Pinners(o)') = Cardinality(Pinners(o)) + 1
  <2>1. Cardinality(Pinners(o) \cup {c}) = Cardinality(Pinners(o)) + 1
    BY <1>3, CountedSets, FS_AddElement
  <2> QED BY ONLY <1>3, <2>1
<1>7. PinKept'
  <2> SUFFICES ASSUME ~MonitorOn, NEW x \in Objs
               PROVE  /\ pinCount'[x] >= Cardinality(Pinners(x)')
                      /\ Pinners(x)' # {} => freeBlocks'[x] = 0
    BY DEF PinKept, MonitorOn
  <2>1. CASE x = o
    BY <1>4, <1>6, <2>1, CountedSets DEF IInv, PinKept, TypeOK
  <2>2. CASE x # o
    BY <1>3, <2>2 DEF IInv, PinKept, TypeOK
  <2> QED BY <2>1, <2>2
<1>8. WatchedWhilePinned'
  BY DEF IInv, WatchedWhilePinned, TypeOK
<1>9. BatchPrivate'
  BY DEF IInv, BatchPrivate, Paged, TypeOK
<1>10. FreeIdle' /\ MonitorQuiet' /\ ~(Paged /\ MonitorOn)'
  BY <1>4 DEF IInv, FreeIdle, MonitorQuiet, Paged, MonitorOn, TypeOK
<1> QED BY <1>2, <1>5, <1>7, <1>8, <1>9, <1>10 DEF IInv

\* A reference that is dropped was counted once, and the last one frees the
\* object only when no client relies on a pin.
LEMMA DropRefIInv == \A c \in Clients, o \in Objs : IInv /\ DropRef(c, o) => IInv'
<1> SUFFICES ASSUME NEW c \in Clients, NEW o \in Objs, IInv, DropRef(c, o) PROVE IInv'
  OBVIOUS
<1>1. /\ o \in refs[c] /\ RefCountDown(o) /\ refs' = [refs EXCEPT ![c] = @ \ {o}]
      /\ UNCHANGED <<mode, cached, pins, batch, pinnedObjects, age, timeoutObjs, forcing, monitorPc>>
  BY DEF DropRef, monitorVars
<1>2. c \in Holders(o) /\ freeBlocks[o] = 0 /\ refCount[o] > 0
  BY <1>1, HeldCounted DEF Holders
<1> USE <1>1, <1>2, RefCountDownEffect
<1>3. TypeOK'
  BY DEF IInv, TypeOK
<1>4. /\ \A x \in Objs : Pinners(x)' = Pinners(x)
      /\ \A x \in Objs \ {o} : Holders(x)' = Holders(x)
      /\ Holders(o)' = Holders(o) \ {c}
  BY DEF Holders, Pinners, IInv, TypeOK, BatchPrivate
<1>5. Cardinality(Holders(o)') = Cardinality(Holders(o)) - 1
  <2>1. Cardinality(Holders(o) \ {c}) = Cardinality(Holders(o)) - 1
    BY ONLY <1>2, CountedSets, FS_RemoveElement
  <2> QED BY ONLY <1>4, <2>1
<1>6. refCount[o] = Cardinality(Holders(o)) + (IF o \in cached THEN 1 ELSE 0)
  BY DEF IInv, RefExact
<1>7. freeBlocks'[o] = 0 \/ (o \notin cached /\ Holders(o)' = {} /\ freeBlocks'[o] = 1)
  <2>1. Cardinality(Holders(o)') = 0 => Holders(o)' = {}
    <3>1. Cardinality(Holders(o) \ {c}) = 0 => Holders(o) \ {c} = {}
      BY ONLY CountedSets, FS_RemoveElement, FS_EmptySet
    <3> QED BY ONLY <1>4, <3>1
  <2> QED BY <1>5, <1>6, <2>1, CountedSets
<1>8. NoDoubleFree'
  BY <1>4, <1>7 DEF IInv, NoDoubleFree
<1>9. RefExact'
  <2> SUFFICES ASSUME NEW x \in Objs, freeBlocks'[x] = 0
               PROVE  refCount'[x] = Cardinality(Holders(x)') + (IF x \in cached' THEN 1 ELSE 0)
    BY DEF RefExact
  <2>1. CASE x = o
    BY <1>5, <1>6, <2>1, CountedSets
  <2>2. CASE x # o
    BY <1>4, <2>2 DEF IInv, RefExact
  <2> QED BY <2>1, <2>2
<1>10. PinKept'
  <2>1. ASSUME ~MonitorOn PROVE Pinners(o) = {} \/ freeBlocks'[o] = 0
    BY <2>1, CountedSets DEF IInv, PinKept
  <2> QED BY <1>4, <2>1 DEF IInv, PinKept, MonitorOn
<1>11. WatchedWhilePinned'
  BY DEF IInv, WatchedWhilePinned
<1>12. BatchPrivate'
  BY DEF IInv, BatchPrivate, Paged, TypeOK
<1>13. FreeIdle' /\ MonitorQuiet' /\ ~(Paged /\ MonitorOn)'
  BY DEF IInv, FreeIdle, MonitorQuiet, Paged, MonitorOn
<1> QED BY <1>3, <1>8, <1>9, <1>10, <1>11, <1>12, <1>13 DEF IInv

\* remove() drops the reference of the cache, and eviction does the same.
LEMMA RemoveIInv == \A o \in Objs : IInv /\ (ForceRemove(o) \/ Evict(o)) => IInv'
<1> SUFFICES ASSUME NEW o \in Objs, IInv, ForceRemove(o) PROVE IInv'
  BY DEF Evict
<1>1. /\ o \in cached /\ RefCountDown(o) /\ cached' = cached \ {o}
      /\ UNCHANGED <<mode, refs, pins, batch, pinnedObjects, age, timeoutObjs, forcing, monitorPc>>
  BY DEF ForceRemove, monitorVars
<1>2. freeBlocks[o] = 0 /\ refCount[o] > 0
  BY <1>1, HeldCounted
<1> USE <1>1, <1>2, RefCountDownEffect
<1>3. TypeOK'
  BY DEF IInv, TypeOK
<1>4. \A x \in Objs : Holders(x)' = Holders(x) /\ Pinners(x)' = Pinners(x)
  BY SameHolders, SamePinners
<1>5. refCount[o] = Cardinality(Holders(o)) + 1
  BY DEF IInv, RefExact
<1>6. freeBlocks'[o] = 0 \/ (Holders(o) = {} /\ freeBlocks'[o] = 1)
  BY <1>5, CountedSets
<1>7. NoDoubleFree'
  BY <1>4, <1>6 DEF IInv, NoDoubleFree
<1>8. RefExact'
  <2> SUFFICES ASSUME NEW x \in Objs, freeBlocks'[x] = 0
               PROVE  refCount'[x] = Cardinality(Holders(x)') + (IF x \in cached' THEN 1 ELSE 0)
    BY DEF RefExact
  <2>1. CASE x = o
    BY <1>4, <1>5, <2>1, CountedSets
  <2>2. CASE x # o
    BY <1>4, <2>2 DEF IInv, RefExact
  <2> QED BY <2>1, <2>2
<1>9. PinKept'
  <2>1. ASSUME ~MonitorOn PROVE Pinners(o) = {} \/ freeBlocks'[o] = 0
    BY <2>1, CountedSets DEF IInv, PinKept
  <2> QED BY <1>4, <2>1 DEF IInv, PinKept, MonitorOn
<1>10. WatchedWhilePinned' /\ BatchPrivate'
  BY DEF IInv, WatchedWhilePinned, BatchPrivate, Paged, TypeOK
<1>11. FreeIdle' /\ MonitorQuiet' /\ ~(Paged /\ MonitorOn)'
  BY DEF IInv, FreeIdle, MonitorQuiet, Paged, MonitorOn
<1> QED BY <1>3, <1>7, <1>8, <1>9, <1>10, <1>11 DEF IInv

\* A client's pin keeps the memory, so its unpin() finds the object out, or the
\* monitor has released it, which made it invalid.
LEMMA PinnedKept ==
    ASSUME IInv, NEW o \in Objs, Pinners(o) # {} \/ pinCount[o] > 0
    PROVE  freeBlocks[o] = 0 \/ ~valid[o]
BY DEF IInv, PinKept, FreeIdle, TypeOK

\* unpin() by the client that pinned the object.
LEMMA UnpinIInv == \A c \in Clients, o \in Objs : IInv /\ Unpin(c, o) => IInv'
<1> SUFFICES ASSUME NEW c \in Clients, NEW o \in Objs, IInv, Unpin(c, o) PROVE IInv'
  OBVIOUS
<1>1. /\ o \in pins[c] /\ UnpinObj(o) /\ pins' = [pins EXCEPT ![c] = @ \ {o}]
      /\ UNCHANGED <<mode, cached, refs, batch, timeoutObjs, forcing, monitorPc>>
  BY DEF Unpin
<1>2. c \in Pinners(o) /\ (freeBlocks[o] = 0 \/ ~valid[o])
  BY <1>1, PinnedKept DEF Pinners
<1> USE <1>1, <1>2, UnpinEffect
<1>3. TypeOK'
  BY DEF IInv, TypeOK
<1>4. /\ \A x \in Objs : Holders(x)' = Holders(x)
      /\ \A x \in Objs \ {o} : Pinners(x)' = Pinners(x)
      /\ Pinners(o)' = Pinners(o) \ {c}
  BY DEF Holders, Pinners, IInv, TypeOK
<1>5. Cardinality(Pinners(o)') = Cardinality(Pinners(o)) - 1
  <2>1. Cardinality(Pinners(o) \ {c}) = Cardinality(Pinners(o)) - 1
    BY ONLY <1>2, CountedSets, FS_RemoveElement
  <2> QED BY ONLY <1>4, <2>1
<1>6. freeBlocks'[o] = freeBlocks[o] \/ (o \notin cached /\ Holders(o) = {})
  BY CountedSets DEF IInv, RefExact
<1>7. NoDoubleFree'
  BY <1>4, <1>6 DEF IInv, NoDoubleFree
<1>8. RefExact'
  BY <1>4, <1>6 DEF IInv, RefExact
<1>9. PinKept'
  <2> SUFFICES ASSUME ~MonitorOn, NEW x \in Objs
               PROVE  /\ pinCount'[x] >= Cardinality(Pinners(x)')
                      /\ Pinners(x)' # {} => freeBlocks'[x] = 0
    BY DEF PinKept, MonitorOn
  <2>1. pinCount[o] >= Cardinality(Pinners(o)) /\ freeBlocks[o] = 0 /\ pinCount[o] \in Nat
    BY DEF IInv, PinKept, TypeOK
  <2>2. Cardinality(Pinners(o)) > 0 /\ Cardinality(Pinners(o)) \in Nat
    BY ONLY <1>2, CountedSets
  <2>3. pinCount'[o] >= Cardinality(Pinners(o)')
    BY <1>5, <2>1, <2>2
  <2>4. Cardinality(Pinners(o)') = 0 => Pinners(o)' = {}
    <3>1. Cardinality(Pinners(o) \ {c}) = 0 => Pinners(o) \ {c} = {}
      BY ONLY CountedSets, FS_RemoveElement, FS_EmptySet
    <3> QED BY ONLY <1>4, <3>1
  <2>5. Pinners(o)' # {} => freeBlocks'[o] = 0
    BY <1>5, <2>1, <2>2, <2>3, <2>4
  <2>6. CASE x = o
    BY <2>3, <2>5, <2>6
  <2>7. CASE x # o
    BY <1>4, <2>7 DEF IInv, PinKept
  <2> QED BY <2>6, <2>7
<1>10. WatchedWhilePinned'
  BY DEF IInv, WatchedWhilePinned
<1>11. BatchPrivate'
  <2> SUFFICES ASSUME NEW d \in Clients, NEW x \in batch[d].got PROVE pinCount'[x] = 0
    BY DEF IInv, BatchPrivate, Paged
  <2>1. x \in Objs /\ pinCount[x] = 0
    BY DEF IInv, BatchPrivate, TypeOK
  <2> QED BY <2>1
<1>12. FreeIdle'
  BY DEF IInv, FreeIdle, Paged
<1>13. MonitorQuiet' /\ ~(Paged /\ MonitorOn)'
  BY DEF IInv, MonitorQuiet, Paged, MonitorOn
<1> QED BY <1>3, <1>7, <1>8, <1>9, <1>10, <1>11, <1>12, <1>13 DEF IInv

\* The pin whose key has left the cache: the client no longer relies on it.
LEMMA UnpinKeyGoneIInv == \A c \in Clients, o \in Objs : IInv /\ UnpinKeyGone(c, o) => IInv'
<1> SUFFICES ASSUME NEW c \in Clients, NEW o \in Objs, IInv, UnpinKeyGone(c, o) PROVE IInv'
  OBVIOUS
<1>1. /\ pins' = [pins EXCEPT ![c] = @ \ {o}]
      /\ UNCHANGED <<mode, refCount, pinCount, valid, freeBlocks, cached, refs, batch, pinnedObjects,
                     age, timeoutObjs, forcing, monitorPc>>
  BY DEF UnpinKeyGone, monitorVars, objVars
<1> USE <1>1
<1>2. TypeOK'
  BY DEF IInv, TypeOK
<1>3. \A x \in Objs : Holders(x)' = Holders(x)
  BY SameHolders
<1>4. \A x \in Objs : Pinners(x)' \subseteq Pinners(x)
  BY DEF Pinners, IInv, TypeOK
<1>5. \A x \in Objs : Cardinality(Pinners(x)') <= Cardinality(Pinners(x))
                     /\ Cardinality(Pinners(x)') \in Nat
  BY ONLY <1>4, CountedSets, FS_Subset, FS_CardinalityType
<1>6. PinKept'
  <2> SUFFICES ASSUME ~MonitorOn, NEW x \in Objs
               PROVE  /\ pinCount[x] >= Cardinality(Pinners(x)')
                      /\ Pinners(x)' # {} => freeBlocks[x] = 0
    BY DEF PinKept, MonitorOn
  <2>1. pinCount[x] >= Cardinality(Pinners(x)) /\ pinCount[x] \in Nat
    BY DEF IInv, PinKept, TypeOK
  <2>2. Pinners(x)' # {} => freeBlocks[x] = 0
    BY <1>4 DEF IInv, PinKept
  <2> QED BY <1>5, <2>1, <2>2, CountedSets
<1>7. NoDoubleFree' /\ RefExact' /\ WatchedWhilePinned'
  BY <1>3 DEF IInv, NoDoubleFree, RefExact, WatchedWhilePinned
<1>8. BatchPrivate' /\ FreeIdle' /\ MonitorQuiet' /\ ~(Paged /\ MonitorOn)'
  BY DEF IInv, BatchPrivate, FreeIdle, MonitorQuiet, Paged, MonitorOn
<1> QED BY <1>2, <1>6, <1>7, <1>8 DEF IInv

-----------------------------------------------------------------------------
(* The monitor thread preserves the inductive invariant. *)

\* The clock, the scan, and the looks at pin_count touch no object.
LEMMA MonitorLooksIInv ==
    IInv /\ (Tick \/ CheckTimeouts \/ (\E o \in Objs : ForceBegin(o)) \/ ForceTest) => IInv'
<1> SUFFICES ASSUME IInv, Tick \/ CheckTimeouts \/ (\E o \in Objs : ForceBegin(o)) \/ ForceTest
             PROVE  IInv'
  OBVIOUS
<1>1. UNCHANGED <<mode, refCount, pinCount, valid, freeBlocks, cached, refs, pins, batch, pinnedObjects>>
  BY DEF Tick, CheckTimeouts, ForceBegin, ForceTest, objVars, holderVars
<1>2. \A x \in Objs : Holders(x)' = Holders(x) /\ Pinners(x)' = Pinners(x)
  BY <1>1, SameHolders, SamePinners
<1>3. NoDoubleFree' /\ RefExact' /\ PinKept' /\ WatchedWhilePinned' /\ BatchPrivate' /\ FreeIdle'
      /\ ~(Paged /\ MonitorOn)'
  BY <1>1, <1>2 DEF IInv, NoDoubleFree, RefExact, PinKept, WatchedWhilePinned, BatchPrivate, FreeIdle,
                   Paged, MonitorOn
<1>4. /\ age' \in [Objs -> Nat] /\ timeoutObjs' \subseteq Objs /\ forcing' \in Objs \cup {NoObj}
      /\ monitorPc' \in {"idle", "test", "unpin"} /\ (monitorPc' # "idle" => forcing' \in Objs)
      /\ MonitorQuiet'
  <2>1. CASE Tick
    BY <2>1, BoundAssumption DEF Tick, IInv, TypeOK, MonitorQuiet, MonitorOn
  <2>2. CASE CheckTimeouts
    BY <2>2, BoundAssumption DEF CheckTimeouts, IInv, TypeOK, MonitorQuiet, MonitorOn
  <2>3. ASSUME NEW o \in Objs, ForceBegin(o)
        PROVE  <1>4!:
    BY <2>3 DEF ForceBegin, IInv, TypeOK, MonitorQuiet, MonitorOn
  <2>4. CASE ForceTest
    BY <2>4 DEF ForceTest, IInv, TypeOK, MonitorQuiet, MonitorOn
  <2> QED BY <2>1, <2>2, <2>3, <2>4
<1>5. TypeOK'
  BY <1>1, <1>4 DEF IInv, TypeOK
<1> QED BY <1>3, <1>4, <1>5 DEF IInv

\* The forced unpin: pins time out on invalidated objects, so an object that was
\* released meanwhile is not released again.
LEMMA ForceUnpinIInv == IInv /\ ForceUnpin => IInv'
<1> SUFFICES ASSUME IInv, ForceUnpin PROVE IInv'
  OBVIOUS
<1> DEFINE o == forcing
<1>1. /\ o \in Objs /\ forcing \in Objs /\ UnpinObj(o) /\ monitorPc' = "test"
      /\ UNCHANGED <<mode, cached, refs, pins, batch, timeoutObjs, forcing>>
  BY DEF ForceUnpin, holderVars, IInv, TypeOK
<1>2. MonitorOn /\ ~Paged
  BY DEF IInv, MonitorQuiet, ForceUnpin
<1>3. freeBlocks[o] = 0 \/ ~valid[o]
  BY <1>1, <1>2 DEF IInv, FreeIdle, TypeOK
<1> HIDE DEF o
<1> USE <1>1, <1>2, <1>3, UnpinEffect
<1>4. TypeOK'
  BY DEF IInv, TypeOK
<1>5. \A x \in Objs : Holders(x)' = Holders(x) /\ Pinners(x)' = Pinners(x)
  BY SameHolders, SamePinners
<1>6. freeBlocks'[o] = freeBlocks[o] \/ (o \notin cached /\ Holders(o) = {})
  BY CountedSets DEF IInv, RefExact
<1>7. NoDoubleFree'
  BY <1>5, <1>6 DEF IInv, NoDoubleFree
<1>8. RefExact'
  BY <1>5, <1>6 DEF IInv, RefExact
<1>9. PinKept' /\ WatchedWhilePinned'
  BY DEF IInv, WatchedWhilePinned, PinKept, MonitorOn
<1>10. BatchPrivate'
  BY DEF IInv, BatchPrivate, Paged, NoBatch
<1>11. FreeIdle' /\ MonitorQuiet' /\ ~(Paged /\ MonitorOn)'
  BY DEF IInv, FreeIdle, MonitorQuiet, Paged, MonitorOn
<1> QED BY <1>4, <1>7, <1>8, <1>9, <1>10, <1>11 DEF IInv

\* Every step preserves the inductive invariant.
LEMMA NextIInv == IInv /\ [Next]_vars => IInv'
<1>1. ASSUME IInv, UNCHANGED vars PROVE IInv'
  <2>1. UNCHANGED <<mode, refCount, pinCount, valid, freeBlocks, cached, refs, pins, batch,
                   pinnedObjects, age, timeoutObjs, forcing, monitorPc>>
    BY <1>1 DEF vars, objVars, holderVars, monitorVars
  <2>2. \A x \in Objs : Holders(x)' = Holders(x) /\ Pinners(x)' = Pinners(x)
    BY <2>1, SameHolders, SamePinners
  <2> QED BY <1>1, <2>1, <2>2 DEF IInv, TypeOK, NoDoubleFree, RefExact, PinKept, WatchedWhilePinned,
                                BatchPrivate, FreeIdle, MonitorQuiet, Paged, MonitorOn
<1> QED BY <1>1, AllocateIInv, BatchBeginIInv, BatchTakeIInv, BatchDoneIInv, BatchFailIInv, PutIInv,
           GetIInv, PinIInv, DropRefIInv, RemoveIInv, UnpinIInv, UnpinKeyGoneIInv, MonitorLooksIInv,
           ForceUnpinIInv DEF Next

\* The memory of a chunk is handed out once and kept while it is held or pinned,
\* its count is exact and every pin is watched, for any set of objects and any
\* number of clients whose gets, puts, unpins, evictions and forced removals
\* interleave with the monitor, where pages are not pinned with a timeout.
THEOREM Custody == Spec /\ PagesNotMonitored => []ObjectsSafe
<1>1. IInv => ObjectsSafe
  BY DEF IInv, ObjectsSafe
<1> QED BY <1>1, InitIInv, NextIInv, PTL DEF Spec

-----------------------------------------------------------------------------
(* Asynchronous lookup: the inductive invariant. *)

\* A request is looked up once where its lookup may time out: a late answer
\* would be counted for the next lookup of the request.
TimedOutOnce == \A u \in Uses : u.timeout => u.attempts = 1

\* The current lookup of a request, and whether worker w has answered it, has
\* its answer on the way, or has had it counted.
Current(r) == <<r, attempt[r]>>
Hits(w, r) == AL!Prefix(lookup[w][Current(r)])
Over(w, r) == /\ attempt[r] > 0 /\ lookup[w][Current(r)].phase = "over"
              /\ ~AL!GapRaises(lookup[w][Current(r)])
Sent(w, r) == \E i \in 1..Len(toScheduler[w]) : toScheduler[w][i].req = r
Counted(r) == {w \in Workers : Over(w, r) /\ ~Sent(w, r)}
Complete(r) == Counted(r) = Workers

\* The values of the lookups, of the messages and of the events.
Phases == {"none", "queued", "loading", "loaded", "failed", "over", "failedOver"}
LookupType == [phase: Phases, expected: Seq(Nat), actual: Seq(Nat)]
CallType == [type: {"lookup", "cleanup"}, req: Reqs, attempt: 0..MaxAttempts]
AnswerType == [req: Reqs, hits: Nat]
EventType == [status: {"NOT_FOUND", "ONGOING", "DONE"}, attempt: 0..MaxAttempts]

\* Every variable of the lookups has its type.
LookupTypes ==
    /\ use \in Uses
    /\ req \in [Reqs -> {"waiting", "running", "finished", "aborted"}]
    /\ attempt \in [Reqs -> 0..MaxAttempts]
    /\ promise \in [Reqs -> Nat] /\ toLoad \in [Reqs -> SUBSET Workers]
    /\ reqsStatus \in [Reqs -> Nat \cup {AL!NotFound, AL!Ongoing}]
    /\ firstLookupTime \in [Reqs -> {"unset", "set", "due"}]
    /\ resForEachWorker \in [Reqs -> Seq(Nat)]
    /\ abortedLookups \subseteq Reqs
    /\ toWorker \in [Workers -> Seq(CallType)]
    /\ toScheduler \in [Workers -> Seq(AnswerType)]
    /\ lookup \in [Workers -> [AL!LookupIds -> LookupType]]
    /\ buffers \in [Workers -> [AL!LookupIds -> Nat]]
    /\ events \in [Workers -> [Reqs -> EventType]]

\* The request in vLLM and its lookups.
RequestRight(r) ==
    /\ attempt[r] <= use.attempts /\ (attempt[r] > 0 => r \in use.reqs)
    /\ attempt[r] = 0 => req[r] \in {"waiting", "aborted"} /\ reqsStatus[r] = AL!NotFound
    /\ req[r] = "aborted" => use.abort
    /\ r \in abortedLookups => req[r] = "aborted"
    /\ toLoad[r] # {} => req[r] = "running"
    /\ ~use.timeout => firstLookupTime[r] # "due"

\* What the client holds of the answers to the current lookup.
StatusRight(r) ==
    /\ reqsStatus[r] >= 0 => Complete(r) /\ \A w \in Workers : reqsStatus[r] <= Hits(w, r)
    /\ reqsStatus[r] = AL!Ongoing =>
          attempt[r] > 0 /\ ~Complete(r) /\ req[r] \in {"waiting", "aborted"}
    /\ attempt[r] > 0 /\ reqsStatus[r] = AL!NotFound /\ (~use.timeout \/ req[r] = "waiting")
          => Complete(r)
    /\ ~use.timeout /\ req[r] \in {"running", "finished"} => reqsStatus[r] = AL!NotFound

\* The answers it has collected so far.
AnswersRight(r) ==
    /\ Complete(r) => resForEachWorker[r] = <<>>
    /\ ~Complete(r) =>
          /\ Len(resForEachWorker[r]) = Cardinality(Counted(r))
          /\ \A w \in Counted(r) :
                \E i \in 1..Len(resForEachWorker[r]) : resForEachWorker[r][i] = Hits(w, r)

\* The messages in the sockets of worker w.
CallRight(w, m) ==
    /\ m.type = "lookup" => /\ m.attempt > 0 /\ m.attempt = attempt[m.req]
                            /\ lookup[w][<<m.req, m.attempt>>].phase = "none"
    /\ m.type = "cleanup" => req[m.req] = "aborted" /\ Complete(m.req)
\* A lookup is sent once.
CallsRight(w) ==
    /\ \A i \in 1..Len(toWorker[w]) : CallRight(w, toWorker[w][i])
    /\ \A i, j \in 1..Len(toWorker[w]) :
          toWorker[w][i].type = "lookup" /\ toWorker[w][j] = toWorker[w][i] => i = j

\* An answer is that of the current lookup of its request, and the only one.
AnswerRight(w, m) == Over(w, m.req) /\ m.hits = Hits(w, m.req)
SentRight(w) ==
    /\ \A i \in 1..Len(toScheduler[w]) : AnswerRight(w, toScheduler[w][i])
    /\ \A i, j \in 1..Len(toScheduler[w]) :
          toScheduler[w][i].req = toScheduler[w][j].req => i = j

\* The lookups of worker w: the earlier ones of a request are over, the later
\* ones do not exist.
LookupsRight(w) ==
    \A r \in Reqs, a \in 1..MaxAttempts :
        LET lk == lookup[w][<<r, a>>] IN
        /\ a < attempt[r] => lk.phase = "over"
        /\ a > attempt[r] => lk.phase = "none"
        /\ lk.phase \in {"none", "queued"} => lk.expected = <<>> /\ lk.actual = <<>>
        /\ buffers[w][<<r, a>>] > 0 => lk.phase \in {"loaded", "over"}

\* The event of request r on worker w.
EventRight(w, r) ==
    LET e == events[w][r] IN
    /\ e.status = "ONGOING" => attempt[r] > 0 /\ e.attempt = attempt[r]
    /\ attempt[r] > 0 => (e.status = "ONGOING" <=>
          lookup[w][Current(r)].phase \in {"loading", "loaded", "failed"})
    /\ e.status = "DONE" => e.attempt \in 1..attempt[r]
    /\ req[r] = "waiting" /\ reqsStatus[r] # AL!NotFound
          /\ lookup[w][Current(r)].phase = "over" /\ Hits(w, r) > 0
          => e = [status |-> "DONE", attempt |-> attempt[r]]
    /\ w \in toLoad[r] => /\ e = [status |-> "DONE", attempt |-> attempt[r]]
                          /\ Complete(r) /\ promise[r] <= Hits(w, r)
    /\ attempt[r] = 1 /\ req[r] # "aborted" /\ buffers[w][Current(r)] > 0 =>
          e.status # "NOT_FOUND"

\* Where every lookup hits and is used.
UsedRight ==
    AL!AllUsed =>
        /\ \A r \in Reqs : /\ reqsStatus[r] # 0
                           /\ \A i \in 1..Len(resForEachWorker[r]) : resForEachWorker[r][i] > 0
        /\ \A w \in Workers : \A i \in 1..Len(toScheduler[w]) : toScheduler[w][i].hits > 0
        /\ \A w \in Workers, l \in AL!LookupIds :
              LET lk == lookup[w][l] IN
              /\ lk.phase = "loading" => /\ lk.expected # <<>>
                                          /\ \A i \in 1..Len(lk.expected) : lk.expected[i] > 0
              /\ lk.phase \in {"loaded", "over"} => AL!Prefix(lk) > 0
        /\ \A w \in Workers, r \in Reqs, a \in 1..MaxAttempts :
              buffers[w][<<r, a>>] > 0 =>
                  /\ a = attempt[r]
                  /\ \/ req[r] = "waiting" /\ reqsStatus[r] # AL!NotFound
                     \/ w \in toLoad[r]

\* The inductive invariant.
LookupInv ==
    /\ LookupTypes /\ AL!LoadDelivers
    /\ \A r \in Reqs : RequestRight(r) /\ StatusRight(r) /\ AnswersRight(r)
    /\ \A w \in Workers : CallsRight(w) /\ SentRight(w) /\ LookupsRight(w)
    /\ \A w \in Workers, r \in Reqs : EventRight(w, r)
    /\ UsedRight

-----------------------------------------------------------------------------
(* Asynchronous lookup: sums, and what a lookup brings. *)

\* What the tiers bring together: a natural, positive if each brings a chunk.
LEMMA ChunkSum ==
    ASSUME NEW s \in Seq(Nat)
    PROVE  /\ AL!SumSeq(s) \in Nat
           /\ s = <<>> => AL!SumSeq(s) = 0
           /\ s # <<>> /\ (\A i \in 1..Len(s) : s[i] > 0) => AL!SumSeq(s) > 0
<1>1. s \in [1..Len(s) -> Nat] /\ Len(s) \in Nat /\ DOMAIN s = 1..Len(s)
  BY LenProperties
<1>2. IsFiniteSet(DOMAIN s) /\ DOMAIN s \in SUBSET DOMAIN s /\ s \in [DOMAIN s -> Nat]
  <2>1. IsFiniteSet(1..Len(s))
    BY <1>1, FS_Interval
  <2> QED BY <1>1, <2>1
<1>3. AL!SumSeq(s) = Sum(s, DOMAIN s)
  BY DEF AL!SumSeq, AL!FoldSeq, AL!FoldFunction, AL!FoldFunctionOnSet, AL!MapThenFoldSet,
         Sum, IsSum, SumStep, Chosen
<1> DEFINE c == Chosen(DOMAIN s)
<1>4. /\ Sum(s, DOMAIN s) \in Nat
      /\ DOMAIN s = {} => Sum(s, DOMAIN s) = 0
      /\ DOMAIN s # {} => Sum(s, DOMAIN s) = s[c] + Sum(s, DOMAIN s \ {c})
  BY <1>2, SumByStep
<1>5. Sum(s, DOMAIN s \ {c}) \in Nat
  <2>1. IsFiniteSet(DOMAIN s \ {c}) /\ DOMAIN s \ {c} \in SUBSET DOMAIN s
    BY <1>2, FS_Subset
  <2> QED BY <1>2, <2>1, SumByStep
<1>6. DOMAIN s # {} => c \in DOMAIN s
  BY DEF Chosen
<1>7. s = <<>> <=> DOMAIN s = {}
  BY <1>1, EmptySeq
<1>8. ASSUME s # <<>>, \A i \in 1..Len(s) : s[i] > 0 PROVE Sum(s, DOMAIN s) > 0
  <2>1. s[c] > 0 /\ s[c] \in Nat
    BY <1>1, <1>2, <1>6, <1>7, <1>8
  <2> QED BY <1>4, <1>5, <1>7, <1>8, <2>1
<1> QED BY <1>3, <1>4, <1>7, <1>8

\* Every non-empty set of naturals has its least number.
LEMMA MinIs ==
    ASSUME NEW S \in SUBSET Nat, S # {}
    PROVE  AL!Min(S) \in S /\ \A x \in S : AL!Min(S) <= x
<1>1. \E m \in S : \A x \in S : m <= x
  BY LeastNat
<1> QED BY <1>1 DEF AL!Min

\* What a lookup brings is what its tiers loaded, whatever its state.
LEMMA SameHits ==
    ASSUME NEW k, NEW lk, k.actual = lk.actual, k.expected = lk.expected
    PROVE  AL!Prefix(k) = AL!Prefix(lk) /\ AL!GapRaises(k) = AL!GapRaises(lk)
BY DEF AL!Prefix, AL!GapRaises, AL!Short

\* The contiguous prefix is a natural; nothing loaded is a prefix of 0 and no
\* gap; a lookup whose tiers load all of what they have is a positive one.
LEMMA PrefixIs ==
    ASSUME NEW lk \in LookupType
    PROVE  /\ AL!Prefix(lk) \in Nat /\ AL!GapRaises(lk) \in BOOLEAN
           /\ lk.actual = <<>> => AL!Prefix(lk) = 0 /\ ~AL!GapRaises(lk)
           /\ lk.actual # <<>>
              /\ (\A i \in 1..Len(lk.actual) : lk.actual[i] = lk.expected[i] /\ lk.actual[i] > 0)
                => AL!Prefix(lk) > 0
<1> DEFINE s == lk.actual
           S == AL!Short(lk)
           n == IF S = {} THEN Len(s) ELSE AL!Min(S)
<1>1. s \in Seq(Nat) /\ Len(s) \in Nat
  BY LenProperties DEF LookupType
<1>2. S \subseteq 1..Len(s) /\ S \in SUBSET Nat
  BY <1>1 DEF AL!Short
<1>3. n \in 0..Len(s)
  BY <1>1, <1>2, MinIs
<1>4. AL!Prefix(lk) = AL!SumSeq(SubSeq(s, 1, n))
  BY DEF AL!Prefix
<1> HIDE DEF n, S
<1>5. SubSeq(s, 1, n) \in Seq(Nat) /\ Len(SubSeq(s, 1, n)) = n
      /\ \A i \in 1..n : SubSeq(s, 1, n)[i] = s[i]
  BY <1>1, <1>3, SubSeqProperties
<1>6. AL!Prefix(lk) \in Nat
  BY <1>4, <1>5, ChunkSum
<1>7. ASSUME s = <<>> PROVE AL!Prefix(lk) = 0 /\ ~AL!GapRaises(lk)
  <2>1. Len(s) = 0
    BY <1>7
  <2>2. n = 0 /\ SubSeq(s, 1, n) = <<>> /\ S = {}
    BY <1>2, <1>3, <1>5, <2>1
  <2> QED BY <1>4, <1>5, <2>2, ChunkSum DEF AL!GapRaises, S
<1>8. ASSUME s # <<>>, \A i \in 1..Len(s) : lk.actual[i] = lk.expected[i] /\ lk.actual[i] > 0
      PROVE  AL!Prefix(lk) > 0
  <2>1. S = {} /\ n = Len(s) /\ n # 0
    <3>1. S = {}
      BY <1>1, <1>8 DEF AL!Short, S, LookupType
    <3>2. Len(s) # 0
      BY <1>1, <1>8, EmptySeq
    <3> QED BY <3>1, <3>2 DEF n
  <2>2. SubSeq(s, 1, n) # <<>>
    BY <1>1, <1>5, <2>1
  <2>3. \A i \in 1..Len(SubSeq(s, 1, n)) : SubSeq(s, 1, n)[i] > 0
    BY <1>5, <1>8, <2>1
  <2> QED BY <1>4, <1>5, <2>2, <2>3, ChunkSum
<1> QED BY <1>6, <1>7, <1>8 DEF AL!GapRaises

\* A finite set as a sequence.
LEMMA ListIs ==
    ASSUME NEW S, IsFiniteSet(S)
    PROVE  AL!SetToSeq(S) \in Seq(S)
<1>1. Cardinality(S) \in Nat /\ AL!Cardinality(S) = Cardinality(S)
  BY FS_CardinalityType DEF Cardinality, AL!Cardinality
<1>2. ExistsBijection(1..Cardinality(S), S)
  BY FS_CardinalityType
<1>3. \E f \in [1..Cardinality(S) -> S] : AL!IsInjective(f)
  <2>1. PICK f \in [1..Cardinality(S) -> S] : IsInjective(f)
    BY <1>2 DEF ExistsBijection, Bijection, Injection
  <2>2. AL!IsInjective(f)
    BY <2>1 DEF IsInjective, AL!IsInjective
  <2> QED BY <2>1, <2>2
<1>4. AL!SetToSeq(S) \in [1..Cardinality(S) -> S]
  BY <1>1, <1>3 DEF AL!SetToSeq
<1> QED BY <1>1, <1>4

\* What is in three sequences put together.
LEMMA CallsTogether ==
    ASSUME NEW s \in Seq(CallType), NEW c \in Seq(CallType), NEW m \in Seq(CallType), NEW t,
           t = (s \o c) \o m
    PROVE  /\ t \in Seq(CallType)
           /\ \A i \in 1..Len(t) :
                 \/ i \in 1..Len(s) /\ t[i] = s[i]
                 \/ i - Len(s) \in 1..Len(c) /\ t[i] = c[i - Len(s)]
                 \/ i - (Len(s) + Len(c)) \in 1..Len(m) /\ t[i] = m[i - (Len(s) + Len(c))]
<1> DEFINE u == s \o c
<1>1. /\ u \in Seq(CallType) /\ Len(u) = Len(s) + Len(c)
      /\ \A i \in 1..Len(s) + Len(c) : u[i] = IF i <= Len(s) THEN s[i] ELSE c[i - Len(s)]
  BY ConcatProperties
<1>2. Len(s) \in Nat /\ Len(c) \in Nat /\ Len(m) \in Nat
  BY LenProperties
<1> HIDE DEF u
<1>3. /\ u \o m \in Seq(CallType) /\ Len(u \o m) = Len(u) + Len(m)
      /\ \A i \in 1..Len(u) + Len(m) : (u \o m)[i] = IF i <= Len(u) THEN u[i] ELSE m[i - Len(u)]
  <2>1. u \in Seq(CallType)
    BY <1>1
  <2> QED BY ONLY <2>1, m \in Seq(CallType), ConcatProperties
<1>4. t = u \o m
  BY DEF u
<1>5. ASSUME NEW i \in 1..Len(t)
      PROVE  \/ i \in 1..Len(s) /\ t[i] = s[i]
             \/ i \in Len(s) + 1 .. Len(s) + Len(c) /\ i - Len(s) \in 1..Len(c) /\ t[i] = c[i - Len(s)]
             \/ i \in Len(s) + Len(c) + 1 .. Len(s) + Len(c) + Len(m)
                /\ i - (Len(s) + Len(c)) \in 1..Len(m) /\ t[i] = m[i - (Len(s) + Len(c))]
  <2>1. i \in Nat /\ i <= Len(s) + Len(c) + Len(m) /\ i >= 1
    BY <1>1, <1>2, <1>3, <1>4
  <2>2. t[i] = IF i <= Len(s) + Len(c) THEN u[i] ELSE m[i - (Len(s) + Len(c))]
    BY <1>1, <1>2, <1>3, <1>4
  <2>3. i <= Len(s) + Len(c) => u[i] = IF i <= Len(s) THEN s[i] ELSE c[i - Len(s)]
    BY <1>1, <1>2, <2>1
  <2> QED BY ONLY <1>2, <2>1, <2>2, <2>3
<1>6. t \in Seq(CallType)
  BY <1>3, <1>4
<1> QED BY <1>5, <1>6

\* The sockets to the workers after Send: what was there, the cleanups of the
\* aborted requests that have an answer, and the new calls.
LEMMA SendIs ==
    ASSUME LookupTypes, NEW m \in Seq(CallType), AL!Send(m)
    PROVE  /\ toWorker' \in [Workers -> Seq(CallType)]
           /\ \A w \in Workers : \E c \in Seq(CallType) :
                 /\ toWorker'[w] = (toWorker[w] \o c) \o m
                 /\ \A i \in 1..Len(c) : c[i].type = "cleanup" /\ c[i].req \in AL!FinishedAborted
<1> DEFINE S == {AL!Msg("cleanup", l, 0) : l \in AL!FinishedAborted}
           c == AL!SetToSeq(S)
<1>1. AL!FinishedAborted \in SUBSET Reqs
  BY DEF AL!FinishedAborted, LookupTypes
<1>2. IsFiniteSet(AL!FinishedAborted)
  BY <1>1, FS_Subset, LookupAssumption
<1>3. IsFiniteSet(S)
  <2> DEFINE f == [l \in AL!FinishedAborted |-> AL!Msg("cleanup", l, 0)]
  <2>1. S = {f[l] : l \in AL!FinishedAborted}
    OBVIOUS
  <2> HIDE DEF f, S
  <2> QED BY <1>2, <2>1, ImageSize
<1>4. S \subseteq CallType /\ \A e \in S : e.type = "cleanup" /\ e.req \in AL!FinishedAborted
  BY <1>1, LookupAssumption DEF AL!Msg, CallType
<1>5. c \in Seq(S)
  BY <1>3, ListIs
<1> HIDE DEF S
<1>6. c \in Seq(CallType) /\ \A i \in 1..Len(c) : c[i] \in S
  <2>1. c \in [1..Len(c) -> S] /\ Len(c) \in Nat
    BY <1>5, LenProperties
  <2> HIDE DEF c
  <2>2. c \in [1..Len(c) -> CallType]
    BY <1>4, <2>1
  <2> QED BY <2>1, <2>2, SeqDef
<1>7. \A w \in Workers : toWorker'[w] = (toWorker[w] \o c) \o m
  BY DEF AL!Send, S
<1>8. toWorker' = [w \in Workers |-> (toWorker[w] \o c) \o m]
  BY DEF AL!Send, S
<1> HIDE DEF c
<1>9. ASSUME NEW w \in Workers PROVE (toWorker[w] \o c) \o m \in Seq(CallType)
  <2>1. toWorker[w] \in Seq(CallType)
    BY DEF LookupTypes
  <2>2. toWorker[w] \o c \in Seq(CallType)
    BY ONLY <2>1, <1>6, ConcatProperties
  <2> QED BY ONLY <2>2, m \in Seq(CallType), ConcatProperties
<1>10. toWorker' \in [Workers -> Seq(CallType)]
  BY <1>8, <1>9
<1> QED BY <1>4, <1>6, <1>7, <1>10

-----------------------------------------------------------------------------
(* Asynchronous lookup: the steps of the scheduler. *)

\* The current lookup of a request that is looked up.
LEMMA CurrentIs ==
    ASSUME LookupTypes, NEW r \in Reqs, NEW w \in Workers, attempt[r] > 0
    PROVE  /\ Current(r) \in AL!LookupIds /\ attempt[r] \in 1..MaxAttempts
           /\ lookup[w][Current(r)] \in LookupType /\ Hits(w, r) \in Nat
<1>1. attempt[r] \in 1..MaxAttempts
  BY LookupAssumption DEF LookupTypes
<1>2. Current(r) \in AL!LookupIds
  BY <1>1 DEF Current, AL!LookupIds
<1>3. lookup[w][Current(r)] \in LookupType
  BY <1>2 DEF LookupTypes
<1> QED BY <1>1, <1>2, <1>3, PrefixIs DEF Hits

\* The counted answers of a request whose current lookups stay what they are.
LEMMA CountedSame ==
    ASSUME NEW r \in Reqs, attempt'[r] = attempt[r],
           \A w \in Workers : (w \in Counted(r))' <=> w \in Counted(r),
           \A w \in Counted(r) : lookup'[w][Current(r)] = lookup[w][Current(r)]
    PROVE  /\ Counted(r)' = Counted(r) /\ (Complete(r)' <=> Complete(r))
           /\ \A w \in Counted(r) : Hits(w, r)' = Hits(w, r)
<1>1. Counted(r)' \subseteq Workers /\ Counted(r) \subseteq Workers
  BY DEF Counted
<1>2. Counted(r)' = Counted(r)
  BY <1>1
<1>3. Current(r)' = Current(r)
  BY DEF Current
<1> QED BY <1>2, <1>3 DEF Complete, Hits

\* The answers collected for a request stay right while they stay, and so do
\* the workers they come from.
LEMMA CollectedSame ==
    ASSUME NEW r \in Reqs, AnswersRight(r),
           attempt'[r] = attempt[r], resForEachWorker'[r] = resForEachWorker[r],
           \A w \in Workers : (w \in Counted(r))' <=> w \in Counted(r),
           \A w \in Counted(r) : lookup'[w][Current(r)] = lookup[w][Current(r)]
    PROVE  AnswersRight(r)'
<1>1. /\ Counted(r)' = Counted(r) /\ (Complete(r)' <=> Complete(r))
      /\ \A w \in Counted(r) : Hits(w, r)' = Hits(w, r)
  BY CountedSame
<1> QED BY <1>1 DEF AnswersRight

\* So does what the client says of them.
LEMMA AnswersSame ==
    ASSUME NEW r \in Reqs, StatusRight(r), AnswersRight(r), use' = use,
           attempt'[r] = attempt[r], reqsStatus'[r] = reqsStatus[r], req'[r] = req[r],
           resForEachWorker'[r] = resForEachWorker[r],
           \A w \in Workers : (w \in Counted(r))' <=> w \in Counted(r),
           \A w \in Counted(r) : lookup'[w][Current(r)] = lookup[w][Current(r)]
    PROVE  StatusRight(r)' /\ AnswersRight(r)'
<1>1. /\ Counted(r)' = Counted(r) /\ (Complete(r)' <=> Complete(r))
      /\ \A w \in Counted(r) : Hits(w, r)' = Hits(w, r)
  BY CountedSame
<1>2. Complete(r) => \A w \in Workers : Hits(w, r)' = Hits(w, r)
  BY <1>1 DEF Complete
<1>3. StatusRight(r)'
  BY <1>1, <1>2 DEF StatusRight
<1>4. AnswersRight(r)'
  BY CollectedSame
<1> QED BY <1>3, <1>4

\* Where nothing happens to the lookups and the answers, what is counted stays.
LEMMA WorkersSame ==
    ASSUME attempt' = attempt, lookup' = lookup, toScheduler' = toScheduler
    PROVE  /\ \A r \in Reqs :
                 /\ Counted(r)' = Counted(r) /\ (Complete(r)' <=> Complete(r))
                 /\ Current(r)' = Current(r)
           /\ \A r \in Reqs, w \in Workers : Hits(w, r)' = Hits(w, r)
           /\ \A w \in Workers : SentRight(w) => SentRight(w)'
           /\ \A w \in Workers : buffers' = buffers /\ LookupsRight(w) => LookupsRight(w)'
<1>1. \A r \in Reqs : Counted(r)' = Counted(r) /\ Current(r)' = Current(r)
  BY DEF Counted, Over, Sent, Current
<1>2. \A r \in Reqs, w \in Workers : Hits(w, r)' = Hits(w, r)
  BY DEF Hits, Current
<1>3. \A w \in Workers : SentRight(w) => SentRight(w)'
  BY DEF SentRight, AnswerRight, Over, Hits, Current
<1>4. \A w \in Workers : buffers' = buffers /\ LookupsRight(w) => LookupsRight(w)'
  BY DEF LookupsRight
<1> QED BY <1>1, <1>2, <1>3, <1>4 DEF Complete

\* The calls in the sockets after Send, where no new lookup starts.
LEMMA CallsKept ==
    ASSUME LookupInv, AL!Send(<<>>), attempt' = attempt, lookup' = lookup,
           toScheduler' = toScheduler,
           \A r \in Reqs : req[r] = "aborted" => req'[r] = "aborted",
           NEW w \in Workers
    PROVE  CallsRight(w)'
<1>0. PICK m : m = <<>>
  OBVIOUS
<1>1. toWorker[w] \in Seq(CallType) /\ m \in Seq(CallType) /\ Len(m) = 0 /\ AL!Send(m)
  BY <1>0, EmptySeq DEF LookupInv, LookupTypes
<1>2. PICK c \in Seq(CallType) :
        /\ toWorker'[w] = (toWorker[w] \o c) \o m
        /\ \A i \in 1..Len(c) : c[i].type = "cleanup" /\ c[i].req \in AL!FinishedAborted
  <2>1. LookupTypes
    BY DEF LookupInv
  <2>2. AL!Send(m) /\ m \in Seq(CallType)
    BY <1>1
  <2>3. \A x \in Workers : \E c \in Seq(CallType) :
          /\ toWorker'[x] = (toWorker[x] \o c) \o m
          /\ \A i \in 1..Len(c) : c[i].type = "cleanup" /\ c[i].req \in AL!FinishedAborted
    BY ONLY <2>1, <2>2, SendIs
  <2> QED BY <2>3
<1>3. ASSUME NEW i \in 1..Len(toWorker'[w])
      PROVE  \/ i \in 1..Len(toWorker[w]) /\ toWorker'[w][i] = toWorker[w][i]
             \/ i - Len(toWorker[w]) \in 1..Len(c) /\ toWorker'[w][i] = c[i - Len(toWorker[w])]
  <2>1. Len(toWorker[w]) \in Nat /\ Len(c) \in Nat /\ 1..Len(m) = {}
    BY <1>1, LenProperties
  <2> QED BY ONLY <1>1, <1>2, <1>3, <2>1, CallsTogether
<1>4. CallsRight(w)
  BY DEF LookupInv
<1>5. ASSUME NEW i \in 1..Len(toWorker'[w]), NEW j \in 1..Len(toWorker'[w]),
             toWorker'[w][i].type = "lookup", toWorker'[w][j] = toWorker'[w][i]
      PROVE  i = j
  <2>1. \A k \in 1..Len(c) : c[k].type # "lookup"
    BY <1>2
  <2>2. i \in 1..Len(toWorker[w]) /\ j \in 1..Len(toWorker[w])
        /\ toWorker'[w][i] = toWorker[w][i] /\ toWorker'[w][j] = toWorker[w][j]
    BY <1>3, <1>5, <2>1
  <2> QED BY <1>4, <1>5, <2>2 DEF CallsRight
<1>6. \A r \in Reqs : Complete(r)' <=> Complete(r)
  BY WorkersSame
<1>7. \A r \in AL!FinishedAborted : r \in Reqs /\ req[r] = "aborted" /\ Complete(r)
  BY DEF AL!FinishedAborted, LookupInv, LookupTypes, RequestRight, StatusRight
<1>8. ASSUME NEW e \in CallType, CallRight(w, e) PROVE CallRight(w, e)'
  <2>1. e.req \in Reqs
    BY DEF CallType
  <2> QED BY <1>6, <1>8, <2>1 DEF CallRight
<1>9. ASSUME NEW i \in 1..Len(toWorker'[w]) PROVE CallRight(w, toWorker[w][i])'
  <2>1. CASE i \in 1..Len(toWorker[w]) /\ toWorker'[w][i] = toWorker[w][i]
    <3>1. PICK j \in 1..Len(toWorker[w]) : toWorker'[w][i] = toWorker[w][j]
      BY <2>1
    <3>2. PICK e \in CallType : e = toWorker[w][j]
      BY <1>1
    <3>3. CallRight(w, e)'
      BY <1>4, <1>8, <3>2 DEF CallsRight
    <3> QED BY <3>1, <3>2, <3>3
  <2>2. CASE i - Len(toWorker[w]) \in 1..Len(c) /\ toWorker'[w][i] = c[i - Len(toWorker[w])]
    <3>1. PICK e \in CallType : e = toWorker'[w][i] /\ e.type = "cleanup" /\ e.req \in AL!FinishedAborted
      BY <1>2, <2>2
    <3>2. CallRight(w, e)
      BY <1>7, <3>1 DEF CallRight
    <3> QED BY <1>8, <3>1, <3>2
  <2> QED BY <1>3, <2>1, <2>2
<1> QED BY <1>5, <1>9 DEF CallsRight

\* An answer to vLLM, of which it knows more than it promised.
LEMMA AnswerKeeps ==
    ASSUME LookupInv, NEW r \in Reqs, NEW n \in Nat, NEW computed \in Nat, NEW scheduled \in BOOLEAN,
           NEW left \in {"unset", "set", "due"}, AL!Answer(r, n, computed, scheduled, left),
           req[r] = "waiting", reqsStatus[r] # AL!NotFound,
           n > computed => reqsStatus[r] = n,
           scheduled /\ ~use.timeout => reqsStatus[r] >= 0,
           scheduled /\ AL!AllUsed => n > computed,
           ~use.timeout => left # "due"
    PROVE  LookupInv'
<1>1. /\ use' = use /\ attempt' = attempt /\ resForEachWorker' = resForEachWorker
      /\ toScheduler' = toScheduler /\ lookup' = lookup /\ buffers' = buffers /\ events' = events
      /\ shortLoads' = shortLoads /\ AL!Send(<<>>)
      /\ abortedLookups' = abortedLookups \ AL!FinishedAborted
  BY DEF AL!Answer, AL!workerVars, AL!Send
<1>2. /\ use \in Uses /\ req \in [Reqs -> {"waiting", "running", "finished", "aborted"}]
      /\ attempt \in [Reqs -> 0..MaxAttempts] /\ promise \in [Reqs -> Nat]
      /\ toLoad \in [Reqs -> SUBSET Workers]
      /\ reqsStatus \in [Reqs -> Nat \cup {AL!NotFound, AL!Ongoing}]
      /\ firstLookupTime \in [Reqs -> {"unset", "set", "due"}]
      /\ abortedLookups \subseteq Reqs
  BY DEF LookupInv, LookupTypes
<1>3. \A x \in Reqs : RequestRight(x) /\ StatusRight(x) /\ AnswersRight(x)
  BY DEF LookupInv
<1>4. \A x \in AL!FinishedAborted : x \in Reqs /\ reqsStatus[x] >= 0 /\ req[x] = "aborted" /\ x # r
  BY <1>2, <1>3 DEF AL!FinishedAborted, RequestRight
<1>5. /\ reqsStatus' \in [Reqs -> Nat \cup {AL!NotFound, AL!Ongoing}]
      /\ firstLookupTime' \in [Reqs -> {"unset", "set", "due"}]
      /\ req' \in [Reqs -> {"waiting", "running", "finished", "aborted"}]
      /\ promise' \in [Reqs -> Nat] /\ toLoad' \in [Reqs -> SUBSET Workers]
  <2>1. /\ AL!Cleared(reqsStatus, AL!NotFound) \in [Reqs -> Nat \cup {AL!NotFound, AL!Ongoing}]
        /\ AL!Cleared(firstLookupTime, "unset") \in [Reqs -> {"unset", "set", "due"}]
    BY <1>2 DEF AL!Cleared
  <2>2. CASE scheduled
    <3>1. /\ req' = [req EXCEPT ![r] = "running"]
          /\ promise' = [promise EXCEPT ![r] = n]
          /\ toLoad' = [toLoad EXCEPT ![r] = IF n > computed THEN Workers ELSE {}]
          /\ reqsStatus' = [AL!Cleared(reqsStatus, AL!NotFound) EXCEPT ![r] = AL!NotFound]
          /\ firstLookupTime' = [AL!Cleared(firstLookupTime, "unset") EXCEPT ![r] = "unset"]
      BY <2>2 DEF AL!Answer
    <3>2. (IF n > computed THEN Workers ELSE {}) \in SUBSET Workers
      OBVIOUS
    <3>3. promise' \in [Reqs -> Nat] /\ toLoad' \in [Reqs -> SUBSET Workers]
      BY <1>2, <3>1, <3>2
    <3> QED BY <1>2, <2>1, <3>1, <3>3
  <2>3. CASE ~scheduled
    <3>1. /\ UNCHANGED <<req, promise, toLoad>>
          /\ reqsStatus' = AL!Cleared(reqsStatus, AL!NotFound)
          /\ firstLookupTime' = [AL!Cleared(firstLookupTime, "unset") EXCEPT ![r] = left]
      BY <2>3 DEF AL!Answer
    <3> QED BY <1>2, <2>1, <3>1
  <2> QED BY <2>2, <2>3
<1>6. LookupTypes'
  BY <1>1, <1>2, <1>5, SendIs, EmptySeq DEF LookupInv, LookupTypes
<1>7. /\ \A x \in Reqs :
            /\ Counted(x)' = Counted(x) /\ (Complete(x)' <=> Complete(x))
            /\ Current(x)' = Current(x)
      /\ \A x \in Reqs, w \in Workers : Hits(w, x)' = Hits(w, x)
      /\ \A w \in Workers : SentRight(w)' /\ LookupsRight(w)'
  BY <1>1, WorkersSame DEF LookupInv
<1>8. ASSUME NEW x \in Reqs, x # r
      PROVE  /\ req'[x] = req[x] /\ promise'[x] = promise[x] /\ toLoad'[x] = toLoad[x]
             /\ reqsStatus'[x] = IF x \in AL!FinishedAborted THEN AL!NotFound ELSE reqsStatus[x]
             /\ firstLookupTime'[x] = IF x \in AL!FinishedAborted THEN "unset" ELSE firstLookupTime[x]
  BY <1>2, <1>8 DEF AL!Answer, AL!Cleared
<1>9. IF scheduled
      THEN /\ req'[r] = "running" /\ promise'[r] = n
           /\ toLoad'[r] = (IF n > computed THEN Workers ELSE {})
           /\ reqsStatus'[r] = AL!NotFound /\ firstLookupTime'[r] = "unset"
      ELSE /\ req' = req /\ promise' = promise /\ toLoad' = toLoad
           /\ reqsStatus'[r] = reqsStatus[r] /\ firstLookupTime'[r] = left
  BY <1>2, <1>4 DEF AL!Answer, AL!Cleared
<1>10. ASSUME NEW x \in Reqs PROVE RequestRight(x)'
  <2>1. CASE x = r
    <3>1. attempt[r] # 0
      BY <1>3 DEF RequestRight
    <3> QED BY <1>1, <1>2, <1>3, <1>4, <1>9, <2>1, <3>1 DEF RequestRight
  <2>2. CASE x # r
    BY <1>1, <1>2, <1>3, <1>4, <1>8, <2>2 DEF RequestRight
  <2> QED BY <2>1, <2>2
<1>11. ASSUME NEW x \in Reqs PROVE StatusRight(x)' /\ AnswersRight(x)'
  <2>0. StatusRight(x) /\ AnswersRight(x) /\ Counted(x)' = Counted(x)
        /\ \A w \in Workers : Hits(w, x)' = Hits(w, x)
    BY <1>3, <1>7
  <2>1. AnswersRight(x)'
    BY <1>1, <1>7, <2>0, CollectedSame
  <2>2. CASE x = r
    <3>1. reqsStatus'[x] >= 0 => Complete(x)' /\ \A w \in Workers : reqsStatus'[x] <= Hits(w, x)'
      BY <1>9, <2>0, <2>2 DEF StatusRight, Complete, AL!NotFound
    <3>2. reqsStatus'[x] = AL!Ongoing =>
             attempt'[x] > 0 /\ ~Complete(x)' /\ req'[x] \in {"waiting", "aborted"}
      BY <1>1, <1>9, <2>0, <2>2 DEF StatusRight, Complete, AL!NotFound, AL!Ongoing
    <3>3. attempt'[x] > 0 /\ reqsStatus'[x] = AL!NotFound /\ (~use'.timeout \/ req'[x] = "waiting")
          => Complete(x)'
      BY <1>1, <1>9, <2>0, <2>2 DEF StatusRight, Complete, AL!NotFound
    <3>4. ~use'.timeout /\ req'[x] \in {"running", "finished"} => reqsStatus'[x] = AL!NotFound
      BY <1>1, <1>9, <2>0, <2>2 DEF StatusRight
    <3> QED BY <2>1, <3>1, <3>2, <3>3, <3>4 DEF StatusRight
  <2>3. CASE x # r
    <3>1. reqsStatus'[x] >= 0 => Complete(x)' /\ \A w \in Workers : reqsStatus'[x] <= Hits(w, x)'
      BY <1>8, <2>0, <2>3 DEF StatusRight, Complete, AL!NotFound
    <3>2. reqsStatus'[x] = AL!Ongoing =>
             attempt'[x] > 0 /\ ~Complete(x)' /\ req'[x] \in {"waiting", "aborted"}
      BY <1>1, <1>8, <2>0, <2>3 DEF StatusRight, Complete, AL!NotFound, AL!Ongoing
    <3>3. attempt'[x] > 0 /\ reqsStatus'[x] = AL!NotFound /\ (~use'.timeout \/ req'[x] = "waiting")
          => Complete(x)'
      BY <1>1, <1>4, <1>8, <2>0, <2>3 DEF StatusRight, Complete, AL!NotFound
    <3>4. ~use'.timeout /\ req'[x] \in {"running", "finished"} => reqsStatus'[x] = AL!NotFound
      BY <1>1, <1>8, <2>0, <2>3 DEF StatusRight
    <3> QED BY <2>1, <3>1, <3>2, <3>3, <3>4 DEF StatusRight
  <2> QED BY <2>1, <2>2, <2>3
<1>12. ASSUME NEW w \in Workers PROVE CallsRight(w)'
  <2>1. \A x \in Reqs : req[x] = "aborted" => req'[x] = "aborted"
    BY <1>8
  <2> QED BY <1>1, <2>1, CallsKept
<1>13. ASSUME NEW w \in Workers, NEW x \in Reqs PROVE EventRight(w, x)'
  <2>1. EventRight(w, x)
    BY DEF LookupInv
  <2>2. CASE x # r
    BY <1>1, <1>2, <1>4, <1>7, <1>8, <2>1, <2>2 DEF EventRight
  <2>3. CASE x = r /\ ~scheduled
    BY <1>1, <1>7, <1>9, <2>1, <2>3 DEF EventRight
  <2>4. CASE x = r /\ scheduled
    <3>1. n > computed => /\ Complete(r) /\ n <= Hits(w, r) /\ lookup[w][Current(r)].phase = "over"
      BY <1>3, <2>4 DEF StatusRight, Complete, Counted, Over
    <3>2. n > computed => events[w][r] = [status |-> "DONE", attempt |-> attempt[r]]
      <4>1. n > computed => attempt[r] > 0
        BY <3>1 DEF Complete, Counted, Over
      <4>2. n > computed => Hits(w, r) > 0
        BY <3>1, <4>1, CurrentIs DEF LookupInv
      <4> QED BY <2>1, <2>4, <3>1, <4>2 DEF EventRight
    <3> QED BY <1>1, <1>7, <1>9, <2>1, <2>4, <3>1, <3>2 DEF EventRight
  <2> QED BY <2>2, <2>3, <2>4
<1>14. UsedRight'
  <2> SUFFICES ASSUME AL!AllUsed PROVE UsedRight'
    BY <1>1 DEF UsedRight, AL!AllUsed
  <2>1. ASSUME NEW x \in Reqs PROVE reqsStatus'[x] # 0
    BY <1>8, <1>9 DEF LookupInv, UsedRight, AL!NotFound
  <2>2. ASSUME NEW w \in Workers, NEW x \in Reqs, NEW a \in 1..MaxAttempts, buffers[w][<<x, a>>] > 0
        PROVE  /\ a = attempt[x]
               /\ \/ req'[x] = "waiting" /\ reqsStatus'[x] # AL!NotFound
                  \/ w \in toLoad'[x]
    <3>1. /\ a = attempt[x]
          /\ \/ req[x] = "waiting" /\ reqsStatus[x] # AL!NotFound
             \/ w \in toLoad[x]
      BY <2>2 DEF LookupInv, UsedRight
    <3> QED BY <1>4, <1>8, <1>9, <3>1
  <2> QED BY <1>1, <2>1, <2>2 DEF LookupInv, UsedRight
<1> QED BY <1>1, <1>6, <1>7, <1>10, <1>11, <1>12, <1>13, <1>14 DEF LookupInv, AL!LoadDelivers

\* What the invariant says of the variables of the scheduler and the client.
LEMMA SchedulerTypes ==
    ASSUME LookupInv
    PROVE  /\ use \in Uses /\ req \in [Reqs -> {"waiting", "running", "finished", "aborted"}]
           /\ attempt \in [Reqs -> 0..MaxAttempts] /\ promise \in [Reqs -> Nat]
           /\ toLoad \in [Reqs -> SUBSET Workers]
           /\ reqsStatus \in [Reqs -> Nat \cup {AL!NotFound, AL!Ongoing}]
           /\ firstLookupTime \in [Reqs -> {"unset", "set", "due"}]
           /\ resForEachWorker \in [Reqs -> Seq(Nat)]
           /\ abortedLookups \subseteq Reqs
           /\ \A r \in Reqs : RequestRight(r) /\ StatusRight(r) /\ AnswersRight(r)
           /\ \A w \in Workers, r \in Reqs : EventRight(w, r)
BY DEF LookupInv, LookupTypes

\* The scheduler asks for an answer: a hit, none yet, too late, or asked again.
LEMMA PollKeeps ==
    ASSUME LookupInv, NEW r \in Reqs, NEW s \in BOOLEAN,
           \/ \E c \in 0..reqsStatus[r] : AL!PollHit(r, c, s)
           \/ AL!PollOngoing(r) \/ AL!PollTimeout(r, s) \/ AL!PollRaises(r)
    PROVE  LookupInv'
<1>1. reqsStatus[r] \in Int /\ firstLookupTime[r] \in {"unset", "set", "due"} /\ RequestRight(r)
  <2>1. reqsStatus[r] \in Nat \cup {AL!NotFound, AL!Ongoing}
        /\ firstLookupTime[r] \in {"unset", "set", "due"} /\ RequestRight(r)
    BY SchedulerTypes
  <2> QED BY <2>1 DEF AL!NotFound, AL!Ongoing
<1>2. ASSUME NEW c \in 0..reqsStatus[r], AL!PollHit(r, c, s) PROVE LookupInv'
  <2>1. /\ req[r] = "waiting" /\ reqsStatus[r] >= 0 /\ (use.skip \/ c = 0)
        /\ AL!Answer(r, reqsStatus[r], c, s, firstLookupTime[r])
    BY <1>2 DEF AL!PollHit
  <2>2. reqsStatus[r] \in Nat /\ c \in Nat /\ reqsStatus[r] # AL!NotFound
    BY <1>1, <2>1 DEF AL!NotFound
  <2>3. AL!AllUsed => reqsStatus[r] > c
    <3>1. AL!AllUsed => c = 0 /\ reqsStatus[r] # 0
      BY <2>1 DEF AL!AllUsed, LookupInv, UsedRight
    <3> QED BY <1>1, <2>1, <3>1
  <2>4. ~use.timeout => firstLookupTime[r] # "due"
    BY <1>1 DEF RequestRight
  <2> QED BY <1>1, <2>1, <2>2, <2>3, <2>4, AnswerKeeps
<1>3. ASSUME AL!PollOngoing(r) \/ AL!PollRaises(r) PROVE LookupInv'
  <2>1. PICK left \in {"unset", "set"} : AL!Answer(r, 0, 0, FALSE, left)
    BY <1>3 DEF AL!PollOngoing, AL!PollRaises
  <2>2. req[r] = "waiting" /\ reqsStatus[r] # AL!NotFound
    <3>1. req[r] = "waiting" /\ reqsStatus[r] = AL!Ongoing
      BY <1>3, Zenon DEF AL!PollOngoing, AL!PollRaises
    <3> QED BY <3>1 DEF AL!NotFound, AL!Ongoing
  <2>3. 0 \in Nat /\ FALSE \in BOOLEAN /\ ~(0 > 0) /\ left \in {"unset", "set", "due"} /\ left # "due"
    OBVIOUS
  <2> QED BY <2>1, <2>2, <2>3, AnswerKeeps
<1>4. ASSUME AL!PollTimeout(r, s) PROVE LookupInv'
  <2>1. AL!Answer(r, 0, 0, s, "unset") /\ req[r] = "waiting" /\ reqsStatus[r] # AL!NotFound
        /\ use.timeout
    BY <1>1, <1>4 DEF AL!PollTimeout, AL!NotFound, AL!Ongoing, RequestRight
  <2>2. 0 \in Nat /\ ~(0 > 0) /\ ~AL!AllUsed
    BY <2>1 DEF AL!AllUsed
  <2> QED BY <2>1, <2>2, AnswerKeeps
<1> QED BY <1>2, <1>3, <1>4

\* The timeout alone decides nothing.
LEMMA TimeoutKeeps ==
    ASSUME LookupInv, NEW r \in Reqs, AL!TimeoutPasses(r)
    PROVE  LookupInv'
<1>1. /\ use.timeout /\ firstLookupTime' = [firstLookupTime EXCEPT ![r] = "due"]
      /\ use' = use /\ attempt' = attempt /\ resForEachWorker' = resForEachWorker
      /\ toScheduler' = toScheduler /\ lookup' = lookup /\ buffers' = buffers /\ events' = events
      /\ shortLoads' = shortLoads /\ req' = req /\ promise' = promise /\ toLoad' = toLoad
      /\ reqsStatus' = reqsStatus /\ abortedLookups' = abortedLookups /\ toWorker' = toWorker
  BY DEF AL!TimeoutPasses, AL!workerVars, AL!schedVars
<1>2. firstLookupTime' \in [Reqs -> {"unset", "set", "due"}]
  BY <1>1, SchedulerTypes
<1>3. LookupTypes'
  BY <1>1, <1>2 DEF LookupInv, LookupTypes
<1>4. \A x \in Reqs : RequestRight(x)'
  BY <1>1, SchedulerTypes DEF RequestRight
<1>5. ASSUME NEW x \in Reqs PROVE StatusRight(x)' /\ AnswersRight(x)'
  <2>1. StatusRight(x) /\ AnswersRight(x)
    BY SchedulerTypes
  <2>2. Counted(x)' = Counted(x)
    BY <1>1, WorkersSame
  <2> QED BY <1>1, <2>1, <2>2, AnswersSame
<1>6. ASSUME NEW w \in Workers PROVE CallsRight(w)' /\ SentRight(w)' /\ LookupsRight(w)'
  <2>1. SentRight(w)' /\ LookupsRight(w)' /\ \A x \in Reqs : Complete(x)' <=> Complete(x)
    BY <1>1, WorkersSame DEF LookupInv
  <2>2. CallsRight(w) /\ toWorker[w] \in Seq(CallType)
    BY DEF LookupInv, LookupTypes
  <2>3. ASSUME NEW c \in CallType, CallRight(w, c) PROVE CallRight(w, c)'
    <3>1. c.req \in Reqs
      BY DEF CallType
    <3> QED BY <1>1, <2>1, <2>3, <3>1 DEF CallRight
  <2>4. \A i \in 1..Len(toWorker[w]) : toWorker[w][i] \in CallType
    BY <2>2
  <2> QED BY <1>1, <2>1, <2>2, <2>3, <2>4 DEF CallsRight
<1>7. ASSUME NEW w \in Workers, NEW x \in Reqs PROVE EventRight(w, x)'
  BY <1>1, SchedulerTypes DEF EventRight, Complete, Counted, Over, Sent, Hits, Current
<1>8. UsedRight'
  BY <1>1 DEF LookupInv, UsedRight, AL!AllUsed
<1> QED BY <1>1, <1>3, <1>4, <1>5, <1>6, <1>7, <1>8 DEF LookupInv, AL!LoadDelivers

\* A request that has loaded what it was promised leaves, or waits again where
\* its lookup cannot time out.
LEMMA MoveKeeps ==
    ASSUME LookupInv, NEW r \in Reqs, NEW how \in {"finished", "aborted", "waiting"},
           toLoad[r] = {}, req' = [req EXCEPT ![r] = how],
           abortedLookups' = (IF how = "aborted" THEN abortedLookups \cup {r} ELSE abortedLookups),
           use' = use, attempt' = attempt, promise' = promise, toLoad' = toLoad,
           reqsStatus' = reqsStatus, firstLookupTime' = firstLookupTime,
           resForEachWorker' = resForEachWorker, toWorker' = toWorker,
           toScheduler' = toScheduler, lookup' = lookup, buffers' = buffers, events' = events,
           shortLoads' = shortLoads,
           \/ how = "finished" /\ req[r] = "running"
           \/ how = "aborted" /\ use.abort /\ req[r] \in {"waiting", "running"}
           \/ how = "waiting" /\ req[r] = "running" /\ reqsStatus[r] = AL!NotFound /\ ~use.timeout
    PROVE  LookupInv'
<1>1. /\ req' \in [Reqs -> {"waiting", "running", "finished", "aborted"}]
      /\ req'[r] = how /\ \A x \in Reqs : x # r => req'[x] = req[x]
  BY SchedulerTypes
<1>2. LookupTypes'
  <2>1. abortedLookups' \subseteq Reqs
    BY SchedulerTypes
  <2> QED BY <1>1, <2>1 DEF LookupInv, LookupTypes
<1>3. \A x \in Reqs : x \in abortedLookups' => x \in abortedLookups \/ (x = r /\ how = "aborted")
  OBVIOUS
<1>4. ASSUME NEW x \in Reqs PROVE RequestRight(x)'
  <2>1. RequestRight(x)
    BY SchedulerTypes
  <2> QED BY <1>1, <1>3, <2>1 DEF RequestRight
<1>5. ASSUME NEW x \in Reqs PROVE StatusRight(x)' /\ AnswersRight(x)'
  <2>1. StatusRight(x) /\ AnswersRight(x) /\ RequestRight(x)
    BY SchedulerTypes
  <2>2. Counted(x)' = Counted(x) /\ \A w \in Workers : Hits(w, x)' = Hits(w, x)
    BY WorkersSame
  <2>3. AnswersRight(x)'
    BY <2>1, <2>2, CollectedSame
  <2>4. CASE x # r
    BY <1>1, <2>1, <2>2, <2>4, AnswersSame
  <2>5. CASE x = r
    <3>1. reqsStatus[r] = AL!Ongoing => how = "aborted"
      BY <2>1, <2>5 DEF StatusRight, AL!NotFound, AL!Ongoing
    <3>2. ~use.timeout /\ how \in {"running", "finished"} => reqsStatus[r] = AL!NotFound
      BY <2>1, <2>5 DEF StatusRight
    <3> QED BY <1>1, <2>1, <2>2, <2>3, <2>5, <3>1, <3>2 DEF StatusRight, Complete
  <2> QED BY <2>4, <2>5
<1>6. ASSUME NEW w \in Workers PROVE CallsRight(w)' /\ SentRight(w)' /\ LookupsRight(w)'
  <2>1. SentRight(w)' /\ LookupsRight(w)' /\ \A x \in Reqs : Complete(x)' <=> Complete(x)
    BY WorkersSame DEF LookupInv
  <2>2. CallsRight(w) /\ toWorker[w] \in Seq(CallType)
    BY DEF LookupInv, LookupTypes
  <2>3. ASSUME NEW e \in CallType, CallRight(w, e) PROVE CallRight(w, e)'
    <3>1. e.req \in Reqs
      BY DEF CallType
    <3>2. req[e.req] = "aborted" => req'[e.req] = "aborted"
      BY <1>1, <3>1
    <3> QED BY <2>1, <2>3, <3>1, <3>2 DEF CallRight
  <2>4. \A i \in 1..Len(toWorker[w]) : toWorker[w][i] \in CallType
    BY <2>2
  <2> QED BY <2>1, <2>2, <2>3, <2>4 DEF CallsRight
<1>7. ASSUME NEW w \in Workers, NEW x \in Reqs PROVE EventRight(w, x)'
  <2>1. EventRight(w, x)
    BY SchedulerTypes
  <2>2. Complete(x)' <=> Complete(x)
    BY WorkersSame
  <2>3. Current(x)' = Current(x) /\ Hits(w, x)' = Hits(w, x)
    BY DEF Current, Hits
  <2>4. CASE x # r
    BY <1>1, <2>1, <2>2, <2>3, <2>4 DEF EventRight
  <2>5. CASE x = r
    <3>1. req[r] # "aborted"
      OBVIOUS
    <3> QED BY <1>1, <2>1, <2>2, <2>3, <2>5, <3>1 DEF EventRight
  <2> QED BY <2>4, <2>5
<1>8. UsedRight'
  <2> SUFFICES ASSUME AL!AllUsed PROVE UsedRight'
    BY DEF UsedRight, AL!AllUsed
  <2>1. how # "aborted"
    BY DEF AL!AllUsed
  <2>2. ASSUME NEW w \in Workers, NEW x \in Reqs, NEW a \in 1..MaxAttempts, buffers[w][<<x, a>>] > 0
        PROVE  /\ a = attempt[x]
               /\ \/ req'[x] = "waiting" /\ reqsStatus[x] # AL!NotFound
                  \/ w \in toLoad[x]
    <3>1. /\ a = attempt[x]
          /\ \/ req[x] = "waiting" /\ reqsStatus[x] # AL!NotFound
             \/ w \in toLoad[x]
      BY <2>2 DEF LookupInv, UsedRight
    <3> QED BY <1>1, <2>1, <3>1
  <2> QED BY <2>2 DEF LookupInv, UsedRight
<1> QED BY <1>2, <1>4, <1>5, <1>6, <1>7, <1>8 DEF LookupInv, AL!LoadDelivers

\* request_finished keeps the invariant.
LEMMA LeaveKeeps ==
    ASSUME LookupInv, NEW r \in Reqs, NEW how \in {"finished", "aborted"}, AL!Leave(r, how)
    PROVE  LookupInv'
<1>1. how \in {"finished", "aborted", "waiting"}
  OBVIOUS
<1> QED BY <1>1, MoveKeeps DEF AL!Leave, AL!workerVars

\* A preemption does, where a request whose lookup may time out has no other.
LEMMA PreemptKeeps ==
    ASSUME LookupInv, TimedOutOnce, NEW r \in Reqs, AL!Preempt(r)
    PROVE  LookupInv'
<1>1. "waiting" \in {"finished", "aborted", "waiting"} /\ "waiting" # "aborted"
  OBVIOUS
<1>2. ~use.timeout
  <2>1. RequestRight(r) /\ use \in Uses /\ attempt[r] \in Nat /\ use.attempts \in Nat
    BY SchedulerTypes, LookupAssumption DEF AL!ModeType
  <2>2. req[r] = "running" /\ attempt[r] < use.attempts
    BY DEF AL!Preempt
  <2>3. attempt[r] # 0
    BY <2>1, <2>2 DEF RequestRight
  <2> QED BY <2>1, <2>2, <2>3 DEF TimedOutOnce
<1>3. reqsStatus[r] = AL!NotFound
  BY <1>2, SchedulerTypes DEF AL!Preempt, StatusRight
<1> QED BY <1>1, <1>2, <1>3, MoveKeeps DEF AL!Preempt, AL!workerVars, AL!clientVars

\* A new lookup starts when nothing is left of the one before: every worker
\* has answered it and every answer has been counted.
LEMMA FreshLookup ==
    ASSUME LookupInv, NEW r \in Reqs, req[r] = "waiting",
           reqsStatus[r] = AL!NotFound, attempt[r] < use.attempts
    PROVE  /\ attempt[r] + 1 \in 1..MaxAttempts /\ attempt[r] + 1 <= use.attempts /\ attempt[r] \in Nat
           /\ attempt[r] > 0 => Complete(r)
           /\ resForEachWorker[r] = <<>> /\ toLoad[r] = {}
           /\ \A w \in Workers : /\ ~Sent(w, r) /\ events[w][r].status # "ONGOING"
                                 /\ lookup[w][<<r, attempt[r] + 1>>].phase = "none"
                                 /\ \A m \in CallType : CallRight(w, m) /\ m.type = "lookup" => m.req # r
<1>1. /\ use \in Uses /\ attempt[r] \in Nat /\ use.attempts \in 1..MaxAttempts /\ MaxAttempts \in Nat
      /\ RequestRight(r) /\ StatusRight(r) /\ AnswersRight(r) /\ resForEachWorker[r] \in Seq(Nat)
  BY SchedulerTypes, LookupAssumption DEF AL!ModeType
<1>2. attempt[r] + 1 \in 1..MaxAttempts /\ attempt[r] + 1 <= use.attempts
  BY <1>1
<1>3. attempt[r] > 0 => Complete(r)
  BY <1>1 DEF StatusRight
<1>4. attempt[r] > 0 => \A w \in Workers : Over(w, r) /\ ~Sent(w, r)
  BY <1>3 DEF Complete, Counted
<1>5. resForEachWorker[r] = <<>>
  <2>1. CASE attempt[r] > 0
    BY <1>1, <1>3, <2>1 DEF AnswersRight
  <2>2. CASE attempt[r] = 0
    <3>1. Counted(r) = {}
      BY <1>1, <2>2 DEF Counted, Over
    <3>2. ~Complete(r)
      BY <3>1, LookupAssumption DEF Complete
    <3>3. Len(resForEachWorker[r]) = 0
      BY <1>1, <3>1, <3>2, FS_EmptySet DEF AnswersRight
    <3> QED BY <1>1, <3>3, EmptySeq
  <2> QED BY <1>1, <2>1, <2>2
<1>6. ASSUME NEW w \in Workers
      PROVE  /\ ~Sent(w, r) /\ events[w][r].status # "ONGOING"
             /\ lookup[w][<<r, attempt[r] + 1>>].phase = "none"
             /\ \A m \in CallType : CallRight(w, m) /\ m.type = "lookup" => m.req # r
  <2>1. SentRight(w) /\ LookupsRight(w) /\ EventRight(w, r)
    BY DEF LookupInv
  <2>2. ~Sent(w, r)
    <3>1. Sent(w, r) => Over(w, r)
      BY <2>1 DEF Sent, SentRight, AnswerRight
    <3> QED BY <1>1, <1>4, <3>1 DEF Over
  <2>3. events[w][r].status # "ONGOING"
    <3>1. attempt[r] > 0 => lookup[w][Current(r)].phase = "over"
      BY <1>4 DEF Over
    <3> QED BY <2>1, <3>1 DEF EventRight
  <2>4. lookup[w][<<r, attempt[r] + 1>>].phase = "none"
    BY <1>1, <1>2, <2>1 DEF LookupsRight
  <2>5. ASSUME NEW m \in CallType, CallRight(w, m), m.type = "lookup", m.req = r PROVE FALSE
    <3>1. m.attempt > 0 /\ m.attempt = attempt[r] /\ lookup[w][<<r, attempt[r]>>].phase = "none"
      BY <2>5 DEF CallRight
    <3>2. lookup[w][<<r, attempt[r]>>].phase = "over"
      BY <1>4, <3>1 DEF Over, Current
    <3> QED BY <3>1, <3>2
  <2> QED BY <2>2, <2>3, <2>4, <2>5
<1>7. toLoad[r] = {}
  BY <1>1 DEF RequestRight
<1> QED BY <1>1, <1>2, <1>3, <1>5, <1>6, <1>7

\* The calls in the sockets after Send with the call of a new lookup.
LEMMA CallsAdded ==
    ASSUME LookupInv, NEW r \in Reqs, req[r] = "waiting",
           reqsStatus[r] = AL!NotFound, attempt[r] < use.attempts,
           NEW m, m = <<AL!Msg("lookup", r, attempt[r] + 1)>>, AL!Send(m),
           req' = req, attempt' = [attempt EXCEPT ![r] = @ + 1], lookup' = lookup,
           \A x \in Reqs : x # r => (Complete(x)' <=> Complete(x)),
           NEW w \in Workers
    PROVE  CallsRight(w)' /\ toWorker' \in [Workers -> Seq(CallType)]
<1>0. PICK e : e = AL!Msg("lookup", r, attempt[r] + 1)
  OBVIOUS
<1>1. /\ attempt[r] + 1 \in 1..MaxAttempts /\ attempt[r] \in Nat
      /\ lookup[w][<<r, attempt[r] + 1>>].phase = "none"
      /\ \A k \in CallType : CallRight(w, k) /\ k.type = "lookup" => k.req # r
  BY FreshLookup
<1>2. e \in CallType /\ e.type = "lookup" /\ e.req = r /\ e.attempt = attempt[r] + 1
  BY <1>0, <1>1, LookupAssumption DEF AL!Msg, CallType
<1>3. toWorker[w] \in Seq(CallType) /\ m \in Seq(CallType) /\ Len(m) = 1 /\ m[1] = e
  BY <1>0, <1>2 DEF LookupInv, LookupTypes
<1>4. /\ toWorker' \in [Workers -> Seq(CallType)]
      /\ \A x \in Workers : \E c \in Seq(CallType) :
            /\ toWorker'[x] = (toWorker[x] \o c) \o m
            /\ \A i \in 1..Len(c) : c[i].type = "cleanup" /\ c[i].req \in AL!FinishedAborted
  <2>1. LookupTypes /\ AL!Send(m) /\ m \in Seq(CallType)
    BY <1>3 DEF LookupInv
  <2> QED BY ONLY <2>1, SendIs
<1>5. PICK c \in Seq(CallType) :
        /\ toWorker'[w] = (toWorker[w] \o c) \o m
        /\ \A i \in 1..Len(c) : c[i].type = "cleanup" /\ c[i].req \in AL!FinishedAborted
  BY <1>4
<1>6. Len(toWorker[w]) \in Nat /\ Len(c) \in Nat
  BY <1>3, LenProperties
<1>7. ASSUME NEW i \in 1..Len(toWorker'[w])
      PROVE  \/ i \in 1..Len(toWorker[w]) /\ toWorker'[w][i] = toWorker[w][i]
             \/ i - Len(toWorker[w]) \in 1..Len(c) /\ toWorker'[w][i] = c[i - Len(toWorker[w])]
             \/ i - (Len(toWorker[w]) + Len(c)) = 1 /\ toWorker'[w][i] = e
  <2>1. \/ i \in 1..Len(toWorker[w]) /\ toWorker'[w][i] = toWorker[w][i]
        \/ i - Len(toWorker[w]) \in 1..Len(c) /\ toWorker'[w][i] = c[i - Len(toWorker[w])]
        \/ i - (Len(toWorker[w]) + Len(c)) \in 1..Len(m)
           /\ toWorker'[w][i] = m[i - (Len(toWorker[w]) + Len(c))]
    <3>1. /\ toWorker[w] \in Seq(CallType) /\ m \in Seq(CallType)
          /\ toWorker'[w] = (toWorker[w] \o c) \o m
      BY <1>3, <1>5
    <3>2. PICK t, s : t = toWorker'[w] /\ s = toWorker[w]
      OBVIOUS
    <3>3. s \in Seq(CallType) /\ c \in Seq(CallType) /\ m \in Seq(CallType) /\ t = (s \o c) \o m
      BY <3>1, <3>2
    <3>4. \A k \in 1..Len(t) :
             \/ k \in 1..Len(s) /\ t[k] = s[k]
             \/ k - Len(s) \in 1..Len(c) /\ t[k] = c[k - Len(s)]
             \/ k - (Len(s) + Len(c)) \in 1..Len(m) /\ t[k] = m[k - (Len(s) + Len(c))]
      BY ONLY <3>3, CallsTogether, SMTT(60)
    <3> QED BY <1>7, <3>2, <3>4
  <2>2. \A k \in 1..Len(m) : k = 1
    BY <1>3
  <2> QED BY <1>3, <2>1, <2>2
<1>8. CallsRight(w)
  BY DEF LookupInv
<1>9. \A i \in 1..Len(toWorker[w]) : toWorker[w][i] \in CallType /\ CallRight(w, toWorker[w][i])
  BY <1>3, <1>8 DEF CallsRight
<1>10. \A k \in 1..Len(c) : c[k].type # "lookup"
  BY <1>5
<1>11. ASSUME NEW i \in 1..Len(toWorker'[w]), NEW j \in 1..Len(toWorker'[w]),
              toWorker'[w][i].type = "lookup", toWorker'[w][j] = toWorker'[w][i]
       PROVE  i = j
  <2>1. \A k \in 1..Len(toWorker[w]) : toWorker[w][k] # e
    BY <1>1, <1>2, <1>9
  <2>2. CASE i \in 1..Len(toWorker[w]) /\ toWorker'[w][i] = toWorker[w][i]
    <3>1. j \in 1..Len(toWorker[w]) /\ toWorker'[w][j] = toWorker[w][j]
      BY <1>7, <1>10, <1>11, <2>1, <2>2
    <3> QED BY <1>8, <1>11, <2>2, <3>1 DEF CallsRight
  <2>3. CASE i - (Len(toWorker[w]) + Len(c)) = 1 /\ toWorker'[w][i] = e
    <3>1. j - (Len(toWorker[w]) + Len(c)) = 1
      BY <1>7, <1>10, <1>11, <2>1, <2>3
    <3>2. i \in Int /\ j \in Int
      OBVIOUS
    <3> QED BY <1>6, <2>3, <3>1, <3>2
  <2> QED BY <1>7, <1>10, <1>11, <2>2, <2>3
<1>12. attempt \in [Reqs -> 0..MaxAttempts] /\ attempt'[r] = attempt[r] + 1
       /\ \A x \in Reqs : x # r => attempt'[x] = attempt[x]
  BY SchedulerTypes
<1>13. ASSUME NEW k \in CallType, CallRight(w, k), k.req # r PROVE CallRight(w, k)'
  <2>1. k.req \in Reqs
    BY DEF CallType
  <2> QED BY <1>12, <1>13, <2>1 DEF CallRight
<1>14. \A x \in AL!FinishedAborted : x \in Reqs /\ req[x] = "aborted" /\ Complete(x) /\ x # r
  BY SchedulerTypes DEF AL!FinishedAborted, RequestRight, StatusRight
<1>15. ASSUME NEW i \in 1..Len(toWorker'[w]) PROVE CallRight(w, toWorker[w][i])'
  <2>1. CASE i \in 1..Len(toWorker[w]) /\ toWorker'[w][i] = toWorker[w][i]
    <3>1. PICK k \in CallType : k = toWorker[w][i] /\ CallRight(w, k)
      BY <1>9, <2>1
    <3>2. k.req # r
      <4>1. k.type \in {"lookup", "cleanup"}
        BY DEF CallType
      <4> QED BY <1>1, <3>1, <4>1 DEF CallRight
    <3> QED BY <1>13, <2>1, <3>1, <3>2
  <2>2. CASE i - Len(toWorker[w]) \in 1..Len(c) /\ toWorker'[w][i] = c[i - Len(toWorker[w])]
    <3>1. PICK k \in CallType : k = toWorker'[w][i] /\ k.type = "cleanup" /\ k.req \in AL!FinishedAborted
      BY <1>5, <2>2
    <3>2. CallRight(w, k) /\ k.req # r
      BY <1>14, <3>1 DEF CallRight
    <3> QED BY <1>13, <3>1, <3>2
  <2>3. CASE toWorker'[w][i] = e
    <3>1. CallRight(w, e)'
      BY <1>1, <1>2, <1>12 DEF CallRight
    <3> QED BY <2>3, <3>1
  <2> QED BY <1>7, <2>1, <2>2, <2>3
<1> QED BY <1>4, <1>11, <1>15 DEF CallsRight

\* lookup() sends a new lookup to every worker.
LEMMA FirstLookupKeeps ==
    ASSUME LookupInv, NEW r \in Reqs, AL!FirstLookup(r)
    PROVE  LookupInv'
<1>1. PICK m : m = <<AL!Msg("lookup", r, attempt[r] + 1)>>
  OBVIOUS
<1>2. /\ r \in use.reqs /\ req[r] = "waiting" /\ reqsStatus[r] = AL!NotFound
      /\ attempt[r] < use.attempts /\ attempt' = [attempt EXCEPT ![r] = @ + 1]
      /\ reqsStatus' = [AL!Cleared(reqsStatus, AL!NotFound) EXCEPT ![r] = AL!Ongoing]
      /\ firstLookupTime' = [AL!Cleared(firstLookupTime, "unset") EXCEPT ![r] = "set"]
      /\ use' = use /\ req' = req /\ promise' = promise /\ toLoad' = toLoad
      /\ resForEachWorker' = resForEachWorker /\ toScheduler' = toScheduler
      /\ lookup' = lookup /\ buffers' = buffers /\ events' = events /\ shortLoads' = shortLoads
  BY DEF AL!FirstLookup, AL!workerVars
<1>3. /\ attempt \in [Reqs -> 0..MaxAttempts] /\ attempt'[r] = attempt[r] + 1
      /\ \A x \in Reqs : x # r => attempt'[x] = attempt[x]
  BY <1>2, SchedulerTypes
<1>4. AL!Send(m) /\ abortedLookups' = abortedLookups \ AL!FinishedAborted
  BY <1>1, <1>3 DEF AL!FirstLookup, AL!Send
<1>5. /\ attempt[r] + 1 \in 1..MaxAttempts /\ attempt[r] + 1 <= use.attempts /\ attempt[r] \in Nat
      /\ attempt[r] > 0 => Complete(r)
      /\ resForEachWorker[r] = <<>> /\ toLoad[r] = {}
      /\ \A w \in Workers : /\ ~Sent(w, r) /\ events[w][r].status # "ONGOING"
                            /\ lookup[w][<<r, attempt[r] + 1>>].phase = "none"
  BY <1>2, FreshLookup
<1>6. attempt' \in [Reqs -> 0..MaxAttempts]
  BY <1>2, <1>3, <1>5, LookupAssumption
<1>7. /\ reqsStatus'[r] = AL!Ongoing /\ firstLookupTime'[r] = "set"
      /\ reqsStatus' \in [Reqs -> Nat \cup {AL!NotFound, AL!Ongoing}]
      /\ firstLookupTime' \in [Reqs -> {"unset", "set", "due"}]
      /\ \A x \in Reqs : x # r =>
            /\ reqsStatus'[x] = IF x \in AL!FinishedAborted THEN AL!NotFound ELSE reqsStatus[x]
            /\ firstLookupTime'[x] = IF x \in AL!FinishedAborted THEN "unset" ELSE firstLookupTime[x]
  <2>1. /\ AL!Cleared(reqsStatus, AL!NotFound) \in [Reqs -> Nat \cup {AL!NotFound, AL!Ongoing}]
        /\ AL!Cleared(firstLookupTime, "unset") \in [Reqs -> {"unset", "set", "due"}]
    BY SchedulerTypes DEF AL!Cleared
  <2> QED BY <1>2, <2>1 DEF AL!Cleared
<1>8. \A x \in AL!FinishedAborted : x \in Reqs /\ reqsStatus[x] >= 0 /\ req[x] = "aborted" /\ x # r
  BY <1>2, SchedulerTypes DEF AL!FinishedAborted, RequestRight
<1>9. ASSUME NEW x \in Reqs, x # r
      PROVE  /\ Current(x)' = Current(x) /\ Counted(x)' = Counted(x)
             /\ \A w \in Workers : Hits(w, x)' = Hits(w, x) /\ (Over(w, x)' <=> Over(w, x))
  <2>1. attempt'[x] = attempt[x] /\ Current(x)' = Current(x)
    BY <1>3, <1>9 DEF Current
  <2> QED BY <1>2, <2>1 DEF Counted, Hits, Over, Sent, Current
<1>10. Counted(r)' = {} /\ ~Complete(r)' /\ Current(r)' = <<r, attempt[r] + 1>>
  <2>1. Current(r)' = <<r, attempt[r] + 1>>
    BY <1>3 DEF Current
  <2>2. Counted(r)' = {}
    BY <1>2, <1>5, <2>1 DEF Counted, Over
  <2> QED BY <2>1, <2>2, LookupAssumption DEF Complete
<1>11. \A x \in Reqs : x # r => (Complete(x)' <=> Complete(x))
  BY <1>9 DEF Complete
<1>12. ASSUME NEW w \in Workers PROVE CallsRight(w)' /\ toWorker' \in [Workers -> Seq(CallType)]
  BY <1>1, <1>2, <1>4, <1>11, CallsAdded
<1>13. LookupTypes'
  BY <1>2, <1>4, <1>6, <1>7, <1>12, LookupAssumption DEF LookupInv, LookupTypes
<1>14. ASSUME NEW x \in Reqs PROVE RequestRight(x)'
  <2>1. RequestRight(x)
    BY SchedulerTypes
  <2>2. CASE x = r
    BY <1>2, <1>3, <1>4, <1>5, <1>7, <2>1, <2>2 DEF RequestRight
  <2>3. CASE x # r
    BY <1>2, <1>3, <1>4, <1>7, <1>8, <2>1, <2>3 DEF RequestRight
  <2> QED BY <2>2, <2>3
<1>15. ASSUME NEW x \in Reqs PROVE StatusRight(x)' /\ AnswersRight(x)'
  <2>1. StatusRight(x) /\ AnswersRight(x)
    BY SchedulerTypes
  <2>2. CASE x = r
    <3>1. StatusRight(x)'
      BY <1>2, <1>3, <1>5, <1>7, <1>10, <2>2 DEF StatusRight, AL!NotFound, AL!Ongoing
    <3>2. Len(resForEachWorker[r]) = 0 /\ Cardinality({}) = 0
      BY <1>5, FS_EmptySet
    <3>3. AnswersRight(x)'
      BY <1>2, <1>10, <2>2, <3>2 DEF AnswersRight
    <3> QED BY <3>1, <3>3
  <2>3. CASE x # r /\ x \notin AL!FinishedAborted
    BY <1>2, <1>3, <1>7, <1>9, <2>1, <2>3, AnswersSame
  <2>4. CASE x \in AL!FinishedAborted
    <3>1. Complete(x)' /\ Complete(x)
      BY <1>8, <1>11, <2>1, <2>4 DEF StatusRight
    <3>2. StatusRight(x)'
      BY <1>2, <1>7, <1>8, <2>4, <3>1 DEF StatusRight, AL!NotFound, AL!Ongoing
    <3>3. AnswersRight(x)'
      BY <1>2, <2>1, <3>1 DEF AnswersRight
    <3> QED BY <3>2, <3>3
  <2> QED BY <2>2, <2>3, <2>4
<1>16. ASSUME NEW w \in Workers PROVE SentRight(w)' /\ LookupsRight(w)'
  <2>1. SentRight(w) /\ LookupsRight(w) /\ toScheduler[w] \in Seq(AnswerType)
    BY DEF LookupInv, LookupTypes
  <2>2. ASSUME NEW i \in 1..Len(toScheduler[w]) PROVE AnswerRight(w, toScheduler[w][i])'
    <3>1. PICK e \in AnswerType : e = toScheduler[w][i]
      BY <2>1
    <3>2. e.req \in Reqs /\ e.req # r
      BY <1>5, <3>1 DEF AnswerType, Sent
    <3>3. AnswerRight(w, e)
      BY <2>1, <3>1 DEF SentRight
    <3>4. AnswerRight(w, e)'
      BY <1>9, <3>2, <3>3 DEF AnswerRight
    <3> QED BY <1>2, <3>1, <3>4
  <2>3. SentRight(w)'
    BY <1>2, <2>1, <2>2 DEF SentRight
  <2>4. ASSUME NEW a \in 1..MaxAttempts, a < attempt[r] + 1 PROVE lookup[w][<<r, a>>].phase = "over"
    <3>1. CASE a < attempt[r]
      BY <2>1, <3>1 DEF LookupsRight
    <3>2. CASE a = attempt[r]
      BY <1>5, <3>2 DEF Complete, Counted, Over, Current
    <3> QED BY <1>5, <2>4, <3>1, <3>2
  <2>5. \A a \in 1..MaxAttempts : a > attempt[r] + 1 => a > attempt[r]
    BY <1>5
  <2>6. LookupsRight(w)'
    BY <1>2, <1>3, <2>1, <2>4, <2>5 DEF LookupsRight
  <2> QED BY <2>3, <2>6
<1>17. ASSUME NEW w \in Workers, NEW x \in Reqs PROVE EventRight(w, x)'
  <2>1. EventRight(w, x)
    BY SchedulerTypes
  <2>2. CASE x # r
    <3>1. /\ Current(x)' = Current(x) /\ Hits(w, x)' = Hits(w, x) /\ (Complete(x)' <=> Complete(x))
          /\ attempt'[x] = attempt[x]
      BY <1>3, <1>9, <1>11, <2>2
    <3>2. req[x] = "waiting" => reqsStatus'[x] = reqsStatus[x]
      BY <1>7, <1>8, <2>2
    <3> QED BY <1>2, <2>1, <3>1, <3>2 DEF EventRight
  <2>3. CASE x = r
    <3>1. lookup'[w][Current(r)'].phase = "none" /\ events[w][r].status # "ONGOING" /\ toLoad[r] = {}
      BY <1>2, <1>5, <1>10
    <3>2. ~(buffers[w][<<r, attempt[r] + 1>>] > 0)
      BY <1>5 DEF LookupInv, LookupsRight
    <3>3. events[w][r].status = "DONE" => events[w][r].attempt \in 1..attempt[r] + 1
      BY <1>5, <2>1, <2>3 DEF EventRight
    <3> QED BY <1>2, <1>3, <1>10, <2>3, <3>1, <3>2, <3>3 DEF EventRight
  <2> QED BY <2>2, <2>3
<1>18. UsedRight'
  <2> SUFFICES ASSUME AL!AllUsed PROVE UsedRight'
    BY <1>2 DEF UsedRight, AL!AllUsed
  <2>1. ASSUME NEW x \in Reqs PROVE reqsStatus'[x] # 0
    BY <1>7 DEF LookupInv, UsedRight, AL!NotFound, AL!Ongoing
  <2>2. ASSUME NEW w \in Workers, NEW x \in Reqs, NEW a \in 1..MaxAttempts, buffers[w][<<x, a>>] > 0
        PROVE  /\ a = attempt'[x]
               /\ \/ req[x] = "waiting" /\ reqsStatus'[x] # AL!NotFound
                  \/ w \in toLoad[x]
    <3>1. /\ a = attempt[x]
          /\ \/ req[x] = "waiting" /\ reqsStatus[x] # AL!NotFound
             \/ w \in toLoad[x]
      BY <2>2 DEF LookupInv, UsedRight
    <3>2. x # r
      BY <1>2, <1>5, <3>1
    <3> QED BY <1>3, <1>7, <1>8, <3>1, <3>2
  <2> QED BY <1>2, <2>1, <2>2 DEF LookupInv, UsedRight
<1> QED BY <1>2, <1>13, <1>14, <1>15, <1>12, <1>16, <1>17, <1>18 DEF LookupInv, AL!LoadDelivers

-----------------------------------------------------------------------------
(* Asynchronous lookup: the steps of a worker. *)

\* A step of worker w on the current lookup of r, which becomes k with n
\* prefetched buffers and the event e; one that is over is answered, unless
\* there is a gap.
LookupStep(w, r, k, n, e) ==
    /\ attempt[r] > 0 /\ lookup[w][Current(r)].phase # "over"
    /\ lookup' = [lookup EXCEPT ![w][Current(r)] = k]
    /\ buffers' = [buffers EXCEPT ![w][Current(r)] = n]
    /\ events' = [events EXCEPT ![w][r] = e]
    /\ toScheduler' = IF k.phase = "over" /\ ~AL!GapRaises(k)
                      THEN [toScheduler EXCEPT ![w] = Append(@, [req |-> r, hits |-> AL!Prefix(k)])]
                      ELSE toScheduler
    /\ use' = use /\ req' = req /\ attempt' = attempt /\ promise' = promise /\ toLoad' = toLoad
    /\ reqsStatus' = reqsStatus /\ firstLookupTime' = firstLookupTime
    /\ resForEachWorker' = resForEachWorker /\ abortedLookups' = abortedLookups
    /\ shortLoads' = shortLoads

\* Such a step changes the state of that worker and request alone.
LEMMA StepIs ==
    ASSUME LookupInv, NEW w \in Workers, NEW r \in Reqs, NEW k \in LookupType, NEW n \in Nat,
           NEW e \in EventType, LookupStep(w, r, k, n, e)
    PROVE  /\ \A x \in Reqs : Current(x)' = Current(x)
           /\ Current(r) \in AL!LookupIds /\ attempt[r] \in 1..MaxAttempts
           /\ lookup' \in [Workers -> [AL!LookupIds -> LookupType]] /\ lookup'[w][Current(r)] = k
           /\ buffers' \in [Workers -> [AL!LookupIds -> Nat]] /\ buffers'[w][Current(r)] = n
           /\ events' \in [Workers -> [Reqs -> EventType]] /\ events'[w][r] = e
           /\ \A v \in Workers, l \in AL!LookupIds :
                 v # w \/ l # Current(r) => lookup'[v][l] = lookup[v][l] /\ buffers'[v][l] = buffers[v][l]
           /\ \A v \in Workers, x \in Reqs : v # w \/ x # r => events'[v][x] = events[v][x]
<1>1. Current(r) \in AL!LookupIds /\ attempt[r] \in 1..MaxAttempts
  BY CurrentIs DEF LookupStep, LookupInv
<1>2. /\ lookup \in [Workers -> [AL!LookupIds -> LookupType]]
      /\ buffers \in [Workers -> [AL!LookupIds -> Nat]]
      /\ events \in [Workers -> [Reqs -> EventType]]
  BY DEF LookupInv, LookupTypes
<1>3. /\ lookup' = [lookup EXCEPT ![w][Current(r)] = k]
      /\ buffers' = [buffers EXCEPT ![w][Current(r)] = n]
      /\ events' = [events EXCEPT ![w][r] = e] /\ attempt' = attempt
  BY DEF LookupStep
<1>4. \A x \in Reqs : Current(x)' = Current(x)
  BY <1>3 DEF Current
<1>5. /\ lookup' \in [Workers -> [AL!LookupIds -> LookupType]] /\ lookup'[w][Current(r)] = k
      /\ \A v \in Workers, l \in AL!LookupIds : v # w \/ l # Current(r) => lookup'[v][l] = lookup[v][l]
  BY <1>1, <1>2, <1>3
<1>6. /\ buffers' \in [Workers -> [AL!LookupIds -> Nat]] /\ buffers'[w][Current(r)] = n
      /\ \A v \in Workers, l \in AL!LookupIds : v # w \/ l # Current(r) => buffers'[v][l] = buffers[v][l]
  BY <1>1, <1>2, <1>3
<1>7. /\ events' \in [Workers -> [Reqs -> EventType]] /\ events'[w][r] = e
      /\ \A v \in Workers, x \in Reqs : v # w \/ x # r => events'[v][x] = events[v][x]
  BY <1>2, <1>3
<1> QED BY <1>1, <1>4, <1>5, <1>6, <1>7

\* The answer joins those that are on the way to the scheduler.
LEMMA StepSends ==
    ASSUME LookupInv, NEW w \in Workers, NEW r \in Reqs, NEW k \in LookupType, NEW n \in Nat,
           NEW e \in EventType, LookupStep(w, r, k, n, e)
    PROVE  /\ toScheduler' \in [Workers -> Seq(AnswerType)]
           /\ \A v \in Workers : v # w => toScheduler'[v] = toScheduler[v]
           /\ ~(k.phase = "over" /\ ~AL!GapRaises(k)) => toScheduler' = toScheduler
           /\ k.phase = "over" /\ ~AL!GapRaises(k) =>
                 /\ Len(toScheduler'[w]) = Len(toScheduler[w]) + 1 /\ Len(toScheduler[w]) \in Nat
                 /\ \A i \in 1..Len(toScheduler[w]) : toScheduler'[w][i] = toScheduler[w][i]
                 /\ toScheduler'[w][Len(toScheduler[w]) + 1] = [req |-> r, hits |-> AL!Prefix(k)]
           /\ \A v \in Workers, x \in Reqs : Sent(v, x)' <=>
                 Sent(v, x) \/ (v = w /\ x = r /\ k.phase = "over" /\ ~AL!GapRaises(k))
<1> DEFINE a == [req |-> r, hits |-> AL!Prefix(k)]
<1>1. toScheduler \in [Workers -> Seq(AnswerType)]
  BY DEF LookupInv, LookupTypes
<1>2. a \in AnswerType /\ a.req = r
  BY PrefixIs DEF AnswerType
<1>3. CASE ~(k.phase = "over" /\ ~AL!GapRaises(k))
  <2>1. toScheduler' = toScheduler
    BY <1>3 DEF LookupStep
  <2> QED BY <1>1, <1>3, <2>1 DEF Sent
<1>4. CASE k.phase = "over" /\ ~AL!GapRaises(k)
  <2> HIDE DEF a
  <2>1. toScheduler' = [toScheduler EXCEPT ![w] = Append(@, a)]
    BY <1>4 DEF LookupStep, a
  <2>2. toScheduler[w] \in Seq(AnswerType) /\ Len(toScheduler[w]) \in Nat
    BY <1>1, LenProperties
  <2>3. /\ Append(toScheduler[w], a) \in Seq(AnswerType)
        /\ Len(Append(toScheduler[w], a)) = Len(toScheduler[w]) + 1
        /\ \A i \in 1..Len(toScheduler[w]) : Append(toScheduler[w], a)[i] = toScheduler[w][i]
        /\ Append(toScheduler[w], a)[Len(toScheduler[w]) + 1] = a
    BY <1>2, <2>2, AppendProperties
  <2>4. /\ toScheduler' \in [Workers -> Seq(AnswerType)] /\ toScheduler'[w] = Append(toScheduler[w], a)
        /\ \A v \in Workers : v # w => toScheduler'[v] = toScheduler[v]
    BY <1>1, <2>1, <2>3
  <2>5. ASSUME NEW v \in Workers, NEW x \in Reqs
        PROVE  Sent(v, x)' <=> Sent(v, x) \/ (v = w /\ x = r)
    <3>1. CASE v # w
      BY <2>4, <3>1 DEF Sent
    <3>2. CASE v = w
      <4>1. Sent(w, x) => Sent(w, x)'
        BY <2>2, <2>3, <2>4 DEF Sent
      <4>2. Sent(w, r)'
        BY <1>2, <2>2, <2>3, <2>4 DEF Sent
      <4>3. ASSUME Sent(w, x)' PROVE Sent(w, x) \/ x = r
        <5>1. PICK i \in 1..Len(toScheduler[w]) + 1 : toScheduler'[w][i].req = x
          BY <2>3, <2>4, <4>3 DEF Sent
        <5>2. CASE i = Len(toScheduler[w]) + 1
          BY <1>2, <2>3, <2>4, <5>1, <5>2
        <5>3. CASE i \in 1..Len(toScheduler[w])
          BY <2>3, <2>4, <5>1, <5>3 DEF Sent
        <5> QED BY <2>2, <5>2, <5>3
      <4> QED BY <3>2, <4>1, <4>2, <4>3
    <3> QED BY <3>1, <3>2
  <2> QED BY <1>4, <2>2, <2>3, <2>4, <2>5 DEF a
<1> QED BY <1>3, <1>4

\* It counts no answer.
LEMMA StepCounts ==
    ASSUME LookupInv, NEW w \in Workers, NEW r \in Reqs, NEW k \in LookupType, NEW n \in Nat,
           NEW e \in EventType, LookupStep(w, r, k, n, e)
    PROVE  \A x \in Reqs :
              /\ \A v \in Workers : (v \in Counted(x))' <=> v \in Counted(x)
              /\ \A v \in Counted(x) : lookup'[v][Current(x)] = lookup[v][Current(x)]
              /\ Counted(x)' = Counted(x) /\ (Complete(x)' <=> Complete(x))
              /\ \A v \in Counted(x) : Hits(v, x)' = Hits(v, x)
              /\ \A v \in Workers : v # w \/ x # r =>
                    /\ Over(v, x)' <=> Over(v, x)
                    /\ attempt[x] > 0 => Hits(v, x)' = Hits(v, x)
<1> TAKE x \in Reqs
<1>1. attempt' = attempt /\ lookup[w][Current(r)].phase # "over"
  BY DEF LookupStep
<1>2. attempt[x] > 0 => Current(x) \in AL!LookupIds
  BY CurrentIs DEF LookupInv
<1>3. ASSUME NEW v \in Workers, v # w \/ x # r, attempt[x] > 0
      PROVE  lookup'[v][Current(x)] = lookup[v][Current(x)]
  <2>1. x # r => Current(x) # Current(r)
    BY DEF Current
  <2> QED BY <1>2, <1>3, <2>1, StepIs
<1>4. ASSUME NEW v \in Workers, v # w \/ x # r PROVE Over(v, x)' <=> Over(v, x)
  <2>1. Current(x)' = Current(x)
    BY StepIs
  <2> QED BY <1>1, <1>3, <1>4, <2>1 DEF Over
<1>5. ASSUME NEW v \in Workers PROVE (v \in Counted(x))' <=> v \in Counted(x)
  <2>1. CASE v # w \/ x # r
    <3>1. Sent(v, x)' <=> Sent(v, x)
      BY <2>1, StepSends
    <3> QED BY <1>4, <2>1, <3>1 DEF Counted
  <2>2. CASE v = w /\ x = r
    <3>1. Over(v, x)' <=> k.phase = "over" /\ ~AL!GapRaises(k)
      <4>1. lookup'[w][Current(r)] = k /\ Current(r)' = Current(r)
        BY StepIs
      <4>2. attempt[r] > 0
        BY DEF LookupStep
      <4> QED BY <1>1, <2>2, <4>1, <4>2 DEF Over
    <3>2. Over(v, x)' => Sent(v, x)'
      BY <2>2, <3>1, StepSends
    <3>3. ~Over(v, x)
      BY <1>1, <2>2 DEF Over
    <3> QED BY <3>2, <3>3 DEF Counted
  <2> QED BY <2>1, <2>2
<1>6. ASSUME NEW v \in Counted(x) PROVE lookup'[v][Current(x)] = lookup[v][Current(x)]
  <2>1. v \in Workers /\ attempt[x] > 0 /\ lookup[v][Current(x)].phase = "over"
    BY DEF Counted, Over
  <2>2. v # w \/ x # r
    BY <1>1, <2>1
  <2> QED BY <1>3, <2>1, <2>2
<1>7. /\ Counted(x)' = Counted(x) /\ (Complete(x)' <=> Complete(x))
      /\ \A v \in Counted(x) : Hits(v, x)' = Hits(v, x)
  BY <1>1, <1>5, <1>6, CountedSame
<1>8. ASSUME NEW v \in Workers, v # w \/ x # r, attempt[x] > 0 PROVE Hits(v, x)' = Hits(v, x)
  <2>1. Current(x)' = Current(x)
    BY StepIs
  <2> QED BY <1>3, <1>8, <2>1 DEF Hits
<1> QED BY <1>4, <1>5, <1>6, <1>7, <1>8

\* A step of a lookup whose result is right keeps the invariant.
LEMMA StepKeeps ==
    ASSUME LookupInv, NEW w \in Workers, NEW r \in Reqs, NEW k \in LookupType, NEW n \in Nat,
           NEW e \in EventType, LookupStep(w, r, k, n, e),
           toWorker' \in [Workers -> Seq(CallType)], \A v \in Workers : CallsRight(v)',
           k.phase # "none", k.phase = "queued" => k.expected = <<>> /\ k.actual = <<>>,
           n > 0 => k.phase \in {"loaded", "over"} /\ e.status # "NOT_FOUND",
           e.status = "ONGOING" => e.attempt = attempt[r],
           e.status = "ONGOING" <=> k.phase \in {"loading", "loaded", "failed"},
           e.status = "DONE" => e.attempt \in 1..attempt[r],
           k.phase = "over" /\ AL!Prefix(k) > 0 => e = [status |-> "DONE", attempt |-> attempt[r]],
           AL!AllUsed /\ k.phase = "loading" =>
              k.expected # <<>> /\ \A i \in 1..Len(k.expected) : k.expected[i] > 0,
           AL!AllUsed /\ k.phase \in {"loaded", "over"} => AL!Prefix(k) > 0
    PROVE  LookupInv'
<1>1. /\ attempt[r] > 0 /\ lookup[w][Current(r)].phase # "over"
      /\ use' = use /\ req' = req /\ attempt' = attempt /\ promise' = promise /\ toLoad' = toLoad
      /\ reqsStatus' = reqsStatus /\ firstLookupTime' = firstLookupTime
      /\ resForEachWorker' = resForEachWorker /\ abortedLookups' = abortedLookups
      /\ shortLoads' = shortLoads
  BY DEF LookupStep
<1>2. /\ \A x \in Reqs : Current(x)' = Current(x)
      /\ Current(r) \in AL!LookupIds /\ attempt[r] \in 1..MaxAttempts
      /\ lookup' \in [Workers -> [AL!LookupIds -> LookupType]] /\ lookup'[w][Current(r)] = k
      /\ buffers' \in [Workers -> [AL!LookupIds -> Nat]] /\ buffers'[w][Current(r)] = n
      /\ events' \in [Workers -> [Reqs -> EventType]] /\ events'[w][r] = e
      /\ \A v \in Workers, l \in AL!LookupIds :
            v # w \/ l # Current(r) => lookup'[v][l] = lookup[v][l] /\ buffers'[v][l] = buffers[v][l]
      /\ \A v \in Workers, x \in Reqs : v # w \/ x # r => events'[v][x] = events[v][x]
  BY StepIs
<1>3. /\ toScheduler' \in [Workers -> Seq(AnswerType)]
      /\ \A v \in Workers : v # w => toScheduler'[v] = toScheduler[v]
      /\ ~(k.phase = "over" /\ ~AL!GapRaises(k)) => toScheduler' = toScheduler
      /\ k.phase = "over" /\ ~AL!GapRaises(k) =>
            /\ Len(toScheduler'[w]) = Len(toScheduler[w]) + 1 /\ Len(toScheduler[w]) \in Nat
            /\ \A i \in 1..Len(toScheduler[w]) : toScheduler'[w][i] = toScheduler[w][i]
            /\ toScheduler'[w][Len(toScheduler[w]) + 1] = [req |-> r, hits |-> AL!Prefix(k)]
  BY StepSends
<1>4. \A x \in Reqs :
         /\ \A v \in Workers : (v \in Counted(x))' <=> v \in Counted(x)
         /\ \A v \in Counted(x) : lookup'[v][Current(x)] = lookup[v][Current(x)]
         /\ Counted(x)' = Counted(x) /\ (Complete(x)' <=> Complete(x))
         /\ \A v \in Counted(x) : Hits(v, x)' = Hits(v, x)
         /\ \A v \in Workers : v # w \/ x # r =>
               /\ Over(v, x)' <=> Over(v, x)
               /\ attempt[x] > 0 => Hits(v, x)' = Hits(v, x)
  BY StepCounts
<1>5. LookupTypes'
  BY <1>1, <1>2, <1>3 DEF LookupInv, LookupTypes
<1>6. ASSUME NEW x \in Reqs PROVE RequestRight(x)' /\ StatusRight(x)' /\ AnswersRight(x)'
  <2>1. RequestRight(x) /\ StatusRight(x) /\ AnswersRight(x)
    BY SchedulerTypes
  <2>2. RequestRight(x)'
    BY <1>1, <2>1 DEF RequestRight
  <2>3. StatusRight(x)' /\ AnswersRight(x)'
    BY <1>1, <1>4, <2>1, AnswersSame
  <2> QED BY <2>2, <2>3
<1>7. ~Over(w, r)
  BY <1>1 DEF Over
<1>8. ASSUME NEW v \in Workers PROVE SentRight(v)'
  <2>1. SentRight(v) /\ toScheduler[v] \in Seq(AnswerType)
    BY DEF LookupInv, LookupTypes
  <2>2. ASSUME NEW i \in 1..Len(toScheduler[v])
        PROVE  /\ \A m : m = toScheduler[v][i] => AnswerRight(v, m)'
               /\ v = w => toScheduler[v][i].req # r
    <3>1. PICK m \in AnswerType : m = toScheduler[v][i]
      BY <2>1
    <3>2. m.req \in Reqs /\ AnswerRight(v, m)
      BY <2>1, <3>1 DEF AnswerType, SentRight
    <3>3. Over(v, m.req) /\ attempt[m.req] > 0
      BY <3>2 DEF AnswerRight, Over
    <3>4. v # w \/ m.req # r
      BY <1>7, <3>3
    <3>5. AnswerRight(v, m)'
      BY <1>4, <3>2, <3>3, <3>4 DEF AnswerRight
    <3> QED BY <3>1, <3>4, <3>5
  <2>3. CASE toScheduler'[v] = toScheduler[v]
    BY <2>1, <2>2, <2>3 DEF SentRight
  <2>4. CASE toScheduler'[v] # toScheduler[v]
    <3>1. v = w /\ k.phase = "over" /\ ~AL!GapRaises(k)
      BY <1>3, <2>4
    <3>2. PICK m \in AnswerType : m = [req |-> r, hits |-> AL!Prefix(k)]
      BY PrefixIs DEF AnswerType
    <3>3. AnswerRight(w, m)'
      BY <1>1, <1>2, <3>1, <3>2 DEF AnswerRight, Over, Hits
    <3>4. ASSUME NEW i \in 1..Len(toScheduler'[w])
          PROVE  \/ i \in 1..Len(toScheduler[w]) /\ toScheduler'[w][i] = toScheduler[w][i]
                 \/ i = Len(toScheduler[w]) + 1 /\ toScheduler'[w][i] = m
      BY <1>3, <3>1, <3>2
    <3>5. \A i \in 1..Len(toScheduler'[w]) : AnswerRight(w, toScheduler[w][i])'
      BY <2>2, <3>1, <3>3, <3>4
    <3>6. m.req = r
      BY <3>2
    <3>7. ASSUME NEW i \in 1..Len(toScheduler'[w]), NEW j \in 1..Len(toScheduler'[w]),
                 toScheduler'[w][i].req = toScheduler'[w][j].req
          PROVE  i = j
      BY <2>1, <2>2, <3>1, <3>4, <3>6, <3>7 DEF SentRight
    <3> QED BY <3>1, <3>5, <3>7 DEF SentRight
  <2> QED BY <2>3, <2>4
<1>9. ASSUME NEW v \in Workers PROVE LookupsRight(v)'
  <2>1. LookupsRight(v) /\ attempt[r] \in Nat
    BY <1>2 DEF LookupInv
  <2>2. ASSUME NEW x \in Reqs, NEW a \in 1..MaxAttempts
        PROVE  /\ a < attempt[x] => lookup'[v][<<x, a>>].phase = "over"
               /\ a > attempt[x] => lookup'[v][<<x, a>>].phase = "none"
               /\ lookup'[v][<<x, a>>].phase \in {"none", "queued"} =>
                     lookup'[v][<<x, a>>].expected = <<>> /\ lookup'[v][<<x, a>>].actual = <<>>
               /\ buffers'[v][<<x, a>>] > 0 => lookup'[v][<<x, a>>].phase \in {"loaded", "over"}
    <3>1. <<x, a>> \in AL!LookupIds
      BY DEF AL!LookupIds
    <3>2. CASE v = w /\ x = r /\ a = attempt[r]
      <4>1. <<x, a>> = Current(r) /\ ~(a < attempt[x]) /\ ~(a > attempt[x])
        BY <2>1, <3>2 DEF Current
      <4> QED BY <1>2, <3>2, <4>1
    <3>3. CASE ~(v = w /\ x = r /\ a = attempt[r])
      <4>1. v # w \/ <<x, a>> # Current(r)
        BY <3>3 DEF Current
      <4>2. lookup'[v][<<x, a>>] = lookup[v][<<x, a>>] /\ buffers'[v][<<x, a>>] = buffers[v][<<x, a>>]
        BY <1>2, <3>1, <4>1
      <4> QED BY <2>1, <4>2 DEF LookupsRight
    <3> QED BY <3>2, <3>3
  <2> QED BY <1>1, <2>2 DEF LookupsRight
<1>10. ~Complete(r) /\ w \notin toLoad[r]
  <2>1. ~Complete(r)
    BY <1>7 DEF Complete, Counted
  <2>2. EventRight(w, r)
    BY SchedulerTypes
  <2> QED BY <2>1, <2>2 DEF EventRight
<1>11. ASSUME NEW v \in Workers, NEW x \in Reqs PROVE EventRight(v, x)'
  <2>1. EventRight(v, x)
    BY SchedulerTypes
  <2>2. CASE v = w /\ x = r
    <3>1. Hits(w, r)' = AL!Prefix(k) /\ Current(r)' = Current(r)
      BY <1>2 DEF Hits
    <3> QED BY <1>1, <1>2, <1>10, <2>2, <3>1 DEF EventRight
  <2>3. CASE (v # w \/ x # r) /\ attempt[x] > 0
    <3>1. /\ Current(x)' = Current(x) /\ (Complete(x)' <=> Complete(x)) /\ Hits(v, x)' = Hits(v, x)
          /\ events'[v][x] = events[v][x]
      BY <1>2, <1>4, <2>3
    <3>2. lookup'[v][Current(x)] = lookup[v][Current(x)] /\ buffers'[v][Current(x)] = buffers[v][Current(x)]
      <4>1. x # r => Current(x) # Current(r)
        BY DEF Current
      <4>2. Current(x) \in AL!LookupIds
        BY <2>3, CurrentIs DEF LookupInv
      <4> QED BY <1>2, <2>3, <4>1, <4>2
    <3> QED BY <1>1, <2>1, <3>1, <3>2 DEF EventRight
  <2>4. CASE (v # w \/ x # r) /\ ~(attempt[x] > 0)
    <3>1. events'[v][x] = events[v][x] /\ attempt[x] = 0 /\ RequestRight(x)
      BY <1>2, <2>4, SchedulerTypes, LookupAssumption
    <3>2. reqsStatus[x] = AL!NotFound
      BY <3>1 DEF RequestRight
    <3>3. v \notin toLoad[x]
      BY <3>1 DEF RequestRight
    <3> QED BY <1>1, <2>1, <2>4, <3>1, <3>2, <3>3 DEF EventRight
  <2> QED BY <2>2, <2>3, <2>4
<1>12. UsedRight'
  <2> SUFFICES ASSUME AL!AllUsed PROVE UsedRight'
    BY <1>1 DEF UsedRight, AL!AllUsed
  <2>1. UsedRight
    BY DEF LookupInv
  <2>2. ASSUME NEW v \in Workers, NEW i \in 1..Len(toScheduler'[v]) PROVE toScheduler'[v][i].hits > 0
    <3>1. CASE toScheduler'[v] = toScheduler[v]
      BY <2>1, <2>2, <3>1 DEF UsedRight
    <3>2. CASE toScheduler'[v] # toScheduler[v]
      <4>1. v = w /\ k.phase = "over" /\ ~AL!GapRaises(k)
        BY <1>3, <3>2
      <4>2. CASE i \in 1..Len(toScheduler[w])
        BY <1>3, <2>1, <4>1, <4>2 DEF UsedRight
      <4>3. CASE i = Len(toScheduler[w]) + 1
        BY <1>3, <4>1, <4>3
      <4> QED BY <1>3, <4>1, <4>2, <4>3
    <3> QED BY <3>1, <3>2
  <2>3. ASSUME NEW v \in Workers, NEW l \in AL!LookupIds
        PROVE  /\ lookup'[v][l].phase = "loading" =>
                     /\ lookup'[v][l].expected # <<>>
                     /\ \A i \in 1..Len(lookup'[v][l].expected) : lookup'[v][l].expected[i] > 0
               /\ lookup'[v][l].phase \in {"loaded", "over"} => AL!Prefix(lookup'[v][l]) > 0
    <3>1. CASE v = w /\ l = Current(r)
      BY <1>2, <3>1
    <3>2. CASE v # w \/ l # Current(r)
      <4>1. lookup'[v][l] = lookup[v][l]
        BY <1>2, <3>2
      <4> QED BY <2>1, <4>1 DEF UsedRight
    <3> QED BY <3>1, <3>2
  <2>4. req[r] = "waiting" /\ reqsStatus[r] # AL!NotFound
    <3>1. ~use.timeout /\ ~use.abort
      BY DEF AL!AllUsed
    <3>2. StatusRight(r) /\ RequestRight(r) /\ req[r] \in {"waiting", "running", "finished", "aborted"}
      BY SchedulerTypes
    <3>3. reqsStatus[r] # AL!NotFound
      BY <1>1, <1>10, <3>1, <3>2 DEF StatusRight
    <3> QED BY <3>1, <3>2, <3>3 DEF StatusRight, RequestRight
  <2>5. ASSUME NEW v \in Workers, NEW x \in Reqs, NEW a \in 1..MaxAttempts, buffers'[v][<<x, a>>] > 0
        PROVE  /\ a = attempt[x]
               /\ \/ req[x] = "waiting" /\ reqsStatus[x] # AL!NotFound
                  \/ v \in toLoad[x]
    <3>1. CASE v = w /\ <<x, a>> = Current(r)
      BY <2>4, <3>1 DEF Current
    <3>2. CASE v # w \/ <<x, a>> # Current(r)
      <4>1. <<x, a>> \in AL!LookupIds
        BY DEF AL!LookupIds
      <4>2. buffers[v][<<x, a>>] > 0
        BY <1>2, <2>5, <3>2, <4>1
      <4> QED BY <2>1, <4>2 DEF UsedRight
    <3> QED BY <3>1, <3>2
  <2> QED BY <1>1, <2>1, <2>2, <2>3, <2>5 DEF UsedRight
<1> QED BY <1>1, <1>5, <1>6, <1>8, <1>9, <1>11, <1>12 DEF LookupInv, AL!LoadDelivers

\* A lookup that has started and is not over is the current one.
LEMMA ActiveIs ==
    ASSUME LookupInv, NEW w \in Workers, NEW l \in AL!LookupIds,
           lookup[w][l].phase \notin {"none", "over"}
    PROVE  \E r \in Reqs : /\ l = Current(r) /\ l[1] = r /\ l[2] = attempt[r]
                           /\ attempt[r] > 0 /\ attempt[r] \in 1..MaxAttempts
<1>1. PICK r \in Reqs, a \in 1..MaxAttempts : l = <<r, a>>
  BY DEF AL!LookupIds
<1>2. LookupsRight(w) /\ attempt[r] \in Nat /\ a \in Nat
  BY SchedulerTypes, LookupAssumption DEF LookupInv
<1>3. a = attempt[r]
  BY <1>1, <1>2 DEF LookupsRight
<1> QED BY <1>1, <1>2, <1>3 DEF Current

\* The calls on the way say nothing of a lookup that has started.
LEMMA CallsStay ==
    ASSUME LookupInv, NEW w \in Workers, NEW r \in Reqs, NEW k \in LookupType, NEW n \in Nat,
           NEW e \in EventType, LookupStep(w, r, k, n, e), toWorker' = toWorker,
           lookup[w][Current(r)].phase # "none"
    PROVE  toWorker' \in [Workers -> Seq(CallType)] /\ \A v \in Workers : CallsRight(v)'
<1>1. toWorker \in [Workers -> Seq(CallType)]
  BY DEF LookupInv, LookupTypes
<1>2. req' = req /\ attempt' = attempt
  BY DEF LookupStep
<1>3. \A x \in Reqs : Complete(x)' <=> Complete(x)
  BY StepCounts
<1>4. ASSUME NEW v \in Workers, NEW m \in CallType, CallRight(v, m) PROVE CallRight(v, m)'
  <2>1. m.req \in Reqs /\ m.attempt \in 0..MaxAttempts
    BY DEF CallType
  <2>2. m.type = "cleanup" => req'[m.req] = "aborted" /\ Complete(m.req)'
    BY <1>2, <1>3, <1>4, <2>1 DEF CallRight
  <2>3. ASSUME m.type = "lookup"
        PROVE  /\ m.attempt > 0 /\ m.attempt = attempt'[m.req]
               /\ lookup'[v][<<m.req, m.attempt>>].phase = "none"
    <3>1. m.attempt > 0 /\ m.attempt = attempt[m.req] /\ lookup[v][<<m.req, m.attempt>>].phase = "none"
      BY <1>4, <2>3 DEF CallRight
    <3>2. <<m.req, m.attempt>> \in AL!LookupIds
      BY <2>1, <3>1, LookupAssumption DEF AL!LookupIds
    <3>3. v # w \/ <<m.req, m.attempt>> # Current(r)
      BY <3>1
    <3> QED BY <1>2, <3>1, <3>2, <3>3, StepIs
  <2> QED BY <2>2, <2>3 DEF CallRight
<1>5. ASSUME NEW v \in Workers PROVE CallsRight(v)'
  <2>1. CallsRight(v) /\ \A i \in 1..Len(toWorker[v]) : toWorker[v][i] \in CallType
    BY <1>1 DEF LookupInv
  <2> QED BY <1>4, <2>1 DEF CallsRight
<1> QED BY <1>1, <1>5

\* The tiers are asked: nothing is found and 0 is the answer, or tasks load it.
LEMMA TiersKeeps ==
    ASSUME LookupInv, NEW w \in Workers, NEW l \in AL!LookupIds, NEW p \in use.plans,
           AL!LookupTiers(w, l, p)
    PROVE  LookupInv'
<1>1. PICK r \in Reqs : /\ l = Current(r) /\ l[1] = r /\ l[2] = attempt[r]
                        /\ attempt[r] > 0 /\ attempt[r] \in 1..MaxAttempts
  <2>1. lookup[w][l].phase = "queued"
    BY DEF AL!LookupTiers
  <2> QED BY <2>1, ActiveIs
<1>2. /\ lookup[w][l].phase = "queued" /\ toWorker' = toWorker /\ buffers' = buffers
      /\ use' = use /\ req' = req /\ attempt' = attempt /\ promise' = promise /\ toLoad' = toLoad
      /\ reqsStatus' = reqsStatus /\ firstLookupTime' = firstLookupTime
      /\ resForEachWorker' = resForEachWorker /\ abortedLookups' = abortedLookups
      /\ shortLoads' = shortLoads
  BY DEF AL!LookupTiers, AL!schedVars, AL!clientVars
<1>3. /\ lookup \in [Workers -> [AL!LookupIds -> LookupType]] /\ lookup[w][l] \in LookupType
      /\ buffers \in [Workers -> [AL!LookupIds -> Nat]]
      /\ events \in [Workers -> [Reqs -> EventType]] /\ LookupsRight(w) /\ EventRight(w, r)
      /\ use \in Uses
  BY DEF LookupInv, LookupTypes
<1>4. /\ lookup[w][l].expected = <<>> /\ lookup[w][l].actual = <<>>
      /\ ~(buffers[w][l] > 0) /\ events[w][r].status # "ONGOING"
  BY <1>1, <1>2, <1>3 DEF LookupsRight, EventRight, Current
<1>5. p \in Seq(Nat) /\ \A i \in 1..Len(p) : p[i] > 0
  <2>1. p \in Seq(Nat \ {0})
    BY <1>3, LookupAssumption DEF AL!ModeType
  <2> QED BY <2>1
<1>6. buffers[w][l] \in Nat /\ events[w][r] \in EventType
      /\ buffers' = [buffers EXCEPT ![w][l] = buffers[w][l]]
  BY <1>2, <1>3
<1>7. CASE p = <<>>
  <2>1. PICK k : k = [lookup[w][l] EXCEPT !.phase = "over"]
    OBVIOUS
  <2>2. k \in LookupType /\ k.phase = "over" /\ k.actual = <<>>
    BY <1>3, <1>4, <2>1 DEF LookupType, Phases
  <2>3. AL!Prefix(k) = 0 /\ ~AL!GapRaises(k)
    BY <2>2, PrefixIs
  <2>4. lookup' = [lookup EXCEPT ![w][l] = k] /\ events' = events
        /\ toScheduler' = [toScheduler EXCEPT ![w] = Append(@, [req |-> r, hits |-> 0])]
    BY <1>1, <1>7, <2>1 DEF AL!LookupTiers
  <2>5. LookupStep(w, r, k, buffers[w][l], events[w][r])
    <3>1. events' = [events EXCEPT ![w][r] = events[w][r]]
      BY <1>3, <2>4
    <3> QED BY <1>1, <1>2, <1>6, <2>2, <2>3, <2>4, <3>1 DEF LookupStep
  <2>6. ~AL!AllUsed
    BY <1>7 DEF AL!AllUsed
  <2>7. toWorker' \in [Workers -> Seq(CallType)] /\ \A v \in Workers : CallsRight(v)'
    BY <1>1, <1>2, <1>6, <2>2, <2>5, CallsStay
  <2>8. events[w][r].status = "DONE" => events[w][r].attempt \in 1..attempt[r]
    BY <1>3 DEF EventRight
  <2>9. /\ k.phase # "none" /\ k.phase # "queued" /\ k.phase # "loading"
        /\ ~(buffers[w][l] > 0) /\ ~(k.phase = "over" /\ AL!Prefix(k) > 0)
        /\ events[w][r].status = "ONGOING" <=> k.phase \in {"loading", "loaded", "failed"}
        /\ events[w][r].status # "ONGOING"
    BY <1>4, <2>2, <2>3
  <2>10. k \in LookupType
    BY <2>2
  <2> QED BY ONLY LookupInv, w \in Workers, r \in Reqs, <1>6, <2>5, <2>6, <2>7, <2>8, <2>9, <2>10, StepKeeps
<1>8. CASE p # <<>>
  <2>1. PICK k : k = [phase |-> "loading", expected |-> p, actual |-> <<>>]
    OBVIOUS
  <2>2. PICK e : e = [status |-> "ONGOING", attempt |-> attempt[r]]
    OBVIOUS
  <2>3. /\ k \in LookupType /\ k.phase = "loading" /\ k.expected = p
        /\ e \in EventType /\ e.status = "ONGOING" /\ e.attempt = attempt[r]
    BY <1>1, <1>5, <2>1, <2>2, EmptySeq, LookupAssumption DEF LookupType, Phases, EventType
  <2>4. lookup' = [lookup EXCEPT ![w][l] = k] /\ events' = [events EXCEPT ![w][r] = e]
        /\ toScheduler' = toScheduler
    BY <1>1, <1>8, <2>1, <2>2 DEF AL!LookupTiers
  <2>5. LookupStep(w, r, k, buffers[w][l], e)
    BY <1>1, <1>2, <1>6, <2>3, <2>4 DEF LookupStep
  <2>6. toWorker' \in [Workers -> Seq(CallType)] /\ \A v \in Workers : CallsRight(v)'
    BY <1>1, <1>2, <1>6, <2>3, <2>5, CallsStay
  <2> QED BY <1>4, <1>5, <1>6, <1>8, <2>3, <2>5, <2>6, StepKeeps
<1> QED BY <1>7, <1>8

\* The tasks have loaded what they found, or a part of it, or failed.
LEMMA LoadKeeps ==
    ASSUME LookupInv, NEW w \in Workers, NEW l \in AL!LookupIds,
           \/ \E a \in AL!Actuals : AL!LoadDone(w, l, a)
           \/ AL!LoadFail(w, l)
    PROVE  LookupInv'
<1>0. /\ lookup[w][l].phase = "loading" /\ toWorker' = toWorker /\ toScheduler' = toScheduler
      /\ use' = use /\ req' = req /\ attempt' = attempt /\ promise' = promise /\ toLoad' = toLoad
      /\ reqsStatus' = reqsStatus /\ firstLookupTime' = firstLookupTime
      /\ resForEachWorker' = resForEachWorker /\ abortedLookups' = abortedLookups
      /\ events' = events /\ shortLoads' = shortLoads
  BY DEF AL!LoadDone, AL!LoadFail, AL!schedVars, AL!clientVars
<1>1. PICK r \in Reqs : /\ l = Current(r) /\ l[1] = r /\ l[2] = attempt[r]
                        /\ attempt[r] > 0 /\ attempt[r] \in 1..MaxAttempts
  BY <1>0, ActiveIs
<1>2. /\ lookup \in [Workers -> [AL!LookupIds -> LookupType]] /\ lookup[w][l] \in LookupType
      /\ buffers \in [Workers -> [AL!LookupIds -> Nat]]
      /\ events \in [Workers -> [Reqs -> EventType]] /\ LookupsRight(w) /\ EventRight(w, r)
      /\ use \in Uses
  BY DEF LookupInv, LookupTypes
<1>3. PICK e \in EventType : e = events[w][r] /\ e.status = "ONGOING" /\ e.attempt = attempt[r]
  BY <1>0, <1>1, <1>2 DEF EventRight
<1>4. events' = [events EXCEPT ![w][r] = e]
  BY <1>0, <1>2, <1>3
<1>5. ASSUME NEW a \in AL!Actuals, AL!LoadDone(w, l, a) PROVE LookupInv'
  <2>1. PICK k : k = [lookup[w][l] EXCEPT !.phase = "loaded", !.actual = a]
    OBVIOUS
  <2>2. a \in Seq(Nat)
    <3>1. PICK p \in use.plans : a \in [1..Len(p) -> UNION {0..p[i] : i \in 1..Len(p)}]
      BY DEF AL!Actuals
    <3>2. p \in Seq(Nat \ {0}) /\ Len(p) \in Nat
      BY <1>2, LookupAssumption, LenProperties DEF AL!ModeType
    <3>3. UNION {0..p[i] : i \in 1..Len(p)} \subseteq Nat
      BY <3>2
    <3>4. a \in [1..Len(p) -> Nat]
      BY <3>1, <3>3
    <3> QED BY <3>2, <3>4
  <2>3. k \in LookupType /\ k.phase = "loaded" /\ k.actual = a /\ k.expected = lookup[w][l].expected
    BY <1>2, <2>1, <2>2 DEF LookupType, Phases
  <2>4. lookup' = [lookup EXCEPT ![w][l] = k] /\ buffers' = [buffers EXCEPT ![w][l] = AL!SumSeq(a)]
    BY <1>2, <1>5, <2>1 DEF AL!LoadDone
  <2>5. AL!SumSeq(a) \in Nat
    BY <2>2, ChunkSum
  <2>6. LookupStep(w, r, k, AL!SumSeq(a), e)
    BY <1>0, <1>1, <1>4, <2>3, <2>4 DEF LookupStep
  <2>7. toWorker' \in [Workers -> Seq(CallType)] /\ \A v \in Workers : CallsRight(v)'
    BY <1>0, <1>1, <2>3, <2>5, <2>6, CallsStay
  <2>8. ASSUME AL!AllUsed PROVE AL!Prefix(k) > 0
    <3>1. lookup[w][l].expected # <<>>
          /\ \A i \in 1..Len(lookup[w][l].expected) : lookup[w][l].expected[i] > 0
      BY <1>0, <2>8 DEF LookupInv, UsedRight
    <3>2. Len(a) = Len(lookup[w][l].expected) /\ \A i \in 1..Len(a) : a[i] = lookup[w][l].expected[i]
      BY <1>5, <2>8 DEF AL!LoadDone, AL!AllUsed
    <3>3. lookup[w][l].expected \in Seq(Nat)
      BY <1>2 DEF LookupType
    <3>4. a # <<>>
      <4>1. Len(lookup[w][l].expected) # 0
        BY <3>1, <3>3, EmptySeq
      <4>2. Len(a) # 0
        BY <3>2, <4>1
      <4> QED BY <4>2, EmptySeq
    <3>5. k.actual # <<>>
          /\ \A i \in 1..Len(k.actual) : k.actual[i] = k.expected[i] /\ k.actual[i] > 0
      BY <2>3, <3>1, <3>2, <3>4
    <3> QED BY <2>3, <3>5, PrefixIs
  <2>9. /\ k \in LookupType /\ k.phase # "none" /\ k.phase # "queued" /\ k.phase # "loading"
        /\ k.phase # "over" /\ k.phase \in {"loaded", "over"} /\ k.phase \in {"loading", "loaded", "failed"}
    BY <2>3
  <2>10. e.status # "NOT_FOUND" /\ e.status # "DONE"
    BY <1>3
  <2> QED BY ONLY LookupInv, w \in Workers, r \in Reqs, e \in EventType, <1>3, <2>5, <2>6, <2>7, <2>8,
                  <2>9, <2>10, StepKeeps
<1>6. ASSUME AL!LoadFail(w, l) PROVE LookupInv'
  <2>1. PICK k : k = [lookup[w][l] EXCEPT !.phase = "failed"]
    OBVIOUS
  <2>2. /\ k \in LookupType /\ k.phase = "failed"
    BY <1>2, <2>1 DEF LookupType, Phases
  <2>3. ~(buffers[w][l] > 0) /\ buffers[w][l] \in Nat
    BY <1>0, <1>1, <1>2 DEF LookupsRight, Current
  <2>4. lookup' = [lookup EXCEPT ![w][l] = k] /\ buffers' = [buffers EXCEPT ![w][l] = buffers[w][l]]
    BY <1>2, <1>6, <2>1 DEF AL!LoadFail
  <2>5. LookupStep(w, r, k, buffers[w][l], e)
    BY <1>0, <1>1, <1>4, <2>2, <2>4 DEF LookupStep
  <2>6. toWorker' \in [Workers -> Seq(CallType)] /\ \A v \in Workers : CallsRight(v)'
    BY <1>0, <1>1, <2>2, <2>3, <2>5, CallsStay
  <2>7. /\ k \in LookupType /\ k.phase # "none" /\ k.phase # "queued" /\ k.phase # "loading"
        /\ k.phase # "over" /\ k.phase \notin {"loaded", "over"} /\ k.phase \in {"loading", "loaded", "failed"}
    BY <2>2
  <2>8. e.status # "NOT_FOUND" /\ e.status # "DONE"
    BY <1>3
  <2> QED BY ONLY LookupInv, w \in Workers, r \in Reqs, e \in EventType, <1>3, <2>3, <2>5, <2>6,
                  <2>7, <2>8, StepKeeps
<1> QED BY <1>5, <1>6

\* prefetch_all_done_callback marks the event and answers.
LEMMA DoneKeeps ==
    ASSUME LookupInv, NEW w \in Workers, NEW l \in AL!LookupIds, AL!PrefetchAllDone(w, l)
    PROVE  LookupInv'
<1>0. /\ lookup[w][l].phase \in {"loaded", "failed"} /\ toWorker' = toWorker /\ buffers' = buffers
      /\ use' = use /\ req' = req /\ attempt' = attempt /\ promise' = promise /\ toLoad' = toLoad
      /\ reqsStatus' = reqsStatus /\ firstLookupTime' = firstLookupTime
      /\ resForEachWorker' = resForEachWorker /\ abortedLookups' = abortedLookups
      /\ shortLoads' = shortLoads
  BY DEF AL!PrefetchAllDone, AL!schedVars, AL!clientVars
<1>1. PICK r \in Reqs : /\ l = Current(r) /\ l[1] = r /\ l[2] = attempt[r]
                        /\ attempt[r] > 0 /\ attempt[r] \in 1..MaxAttempts
  BY <1>0, ActiveIs
<1>2. /\ lookup \in [Workers -> [AL!LookupIds -> LookupType]] /\ lookup[w][l] \in LookupType
      /\ buffers \in [Workers -> [AL!LookupIds -> Nat]]
      /\ events \in [Workers -> [Reqs -> EventType]] /\ LookupsRight(w) /\ EventRight(w, r)
  BY DEF LookupInv, LookupTypes
<1>3. events[w][r] \in EventType /\ events[w][r].status = "ONGOING" /\ events[w][r].attempt = attempt[r]
  BY <1>0, <1>1, <1>2 DEF EventRight
<1>4. PICK e : e = [events[w][r] EXCEPT !.status = "DONE"]
  OBVIOUS
<1>5. /\ e \in EventType /\ e.status = "DONE" /\ e.attempt = attempt[r]
      /\ e = [status |-> "DONE", attempt |-> attempt[r]]
  BY <1>3, <1>4 DEF EventType
<1>6. events' = [events EXCEPT ![w][r] = e]
  BY <1>1, <1>2, <1>3, <1>4 DEF AL!PrefetchAllDone
<1>7. PICK k : k = [lookup[w][l] EXCEPT !.phase = IF @ = "failed" THEN "failedOver" ELSE "over"]
  OBVIOUS
<1>8. /\ k \in LookupType /\ k.actual = lookup[w][l].actual /\ k.expected = lookup[w][l].expected
      /\ k.phase = IF lookup[w][l].phase = "failed" THEN "failedOver" ELSE "over"
  BY <1>2, <1>7 DEF LookupType, Phases
<1>9. AL!Prefix(k) = AL!Prefix(lookup[w][l]) /\ AL!GapRaises(k) = AL!GapRaises(lookup[w][l])
  BY <1>8, SameHits
<1>10. lookup' = [lookup EXCEPT ![w][l] = k] /\ buffers' = [buffers EXCEPT ![w][l] = buffers[w][l]]
  BY <1>0, <1>2, <1>7 DEF AL!PrefetchAllDone
<1>11. toScheduler' = IF k.phase = "over" /\ ~AL!GapRaises(k)
                      THEN [toScheduler EXCEPT ![w] = Append(@, [req |-> r, hits |-> AL!Prefix(k)])]
                      ELSE toScheduler
  BY <1>0, <1>1, <1>3, <1>8, <1>9 DEF AL!PrefetchAllDone
<1>12. LookupStep(w, r, k, buffers[w][l], e)
  BY <1>0, <1>1, <1>6, <1>10, <1>11 DEF LookupStep
<1>13. buffers[w][l] \in Nat /\ (buffers[w][l] > 0 => k.phase = "over")
  BY <1>0, <1>1, <1>2, <1>8 DEF LookupsRight, Current
<1>14. toWorker' \in [Workers -> Seq(CallType)] /\ \A v \in Workers : CallsRight(v)'
  BY <1>0, <1>1, <1>5, <1>8, <1>12, <1>13, CallsStay
<1>15. AL!AllUsed /\ k.phase \in {"loaded", "over"} => AL!Prefix(k) > 0
  BY <1>0, <1>8, <1>9 DEF LookupInv, UsedRight
<1>16. /\ k.phase # "none" /\ k.phase # "queued" /\ k.phase # "loading"
       /\ k.phase \notin {"loading", "loaded", "failed"} /\ k \in LookupType
       /\ (buffers[w][l] > 0 => k.phase \in {"loaded", "over"})
  BY <1>8, <1>13
<1>17. e.status # "NOT_FOUND" /\ e.status # "ONGOING" /\ e \in EventType /\ e.attempt \in 1..attempt[r]
       /\ e = [status |-> "DONE", attempt |-> attempt[r]]
  BY <1>1, <1>5
<1> QED BY ONLY LookupInv, w \in Workers, r \in Reqs, <1>12, <1>13, <1>14, <1>15, <1>16, <1>17, StepKeeps

\* What is left of a queue when its first element is taken.
LEMMA TailIs ==
    ASSUME NEW T, NEW s \in Seq(T), s # <<>>
    PROVE  /\ Head(s) \in T /\ Head(s) = s[1] /\ 1 \in 1..Len(s) /\ Len(s) \in Nat
           /\ Tail(s) \in Seq(T) /\ Len(Tail(s)) = Len(s) - 1
           /\ \A i \in 1..Len(Tail(s)) : i + 1 \in 1..Len(s) /\ i + 1 # 1 /\ Tail(s)[i] = s[i + 1]
<1>1. /\ Head(s) \in T /\ Tail(s) \in Seq(T) /\ Len(Tail(s)) = Len(s) - 1
      /\ \A i \in 1..Len(Tail(s)) : Tail(s)[i] = s[i + 1]
  BY HeadTailProperties
<1>2. Len(s) \in Nat /\ Len(s) # 0 /\ Head(s) = s[1]
  BY EmptySeq, LenProperties
<1> QED BY <1>1, <1>2

\* The rest of the calls of worker w, when the first is taken.
LEMMA CallsLeft ==
    ASSUME LookupInv, NEW w \in Workers, toWorker[w] # <<>>,
           toWorker' = [toWorker EXCEPT ![w] = Tail(@)]
    PROVE  /\ Head(toWorker[w]) \in CallType /\ CallRight(w, Head(toWorker[w]))
           /\ toWorker' \in [Workers -> Seq(CallType)]
           /\ \A v \in Workers :
                 /\ \A i \in 1..Len(toWorker'[v]) :
                       /\ toWorker'[v][i] \in CallType /\ CallRight(v, toWorker'[v][i])
                       /\ v = w /\ toWorker'[v][i].type = "lookup" => toWorker'[v][i] # Head(toWorker[w])
                 /\ \A i, j \in 1..Len(toWorker'[v]) :
                       toWorker'[v][i].type = "lookup" /\ toWorker'[v][j] = toWorker'[v][i] => i = j
<1>1. toWorker \in [Workers -> Seq(CallType)] /\ \A v \in Workers : CallsRight(v)
  BY DEF LookupInv, LookupTypes
<1>2. toWorker[w] \in Seq(CallType) /\ CallsRight(w)
  BY <1>1
<1>3. PICK t : t = Tail(toWorker[w])
  OBVIOUS
<1>4. PICK h : h = Head(toWorker[w])
  OBVIOUS
<1>5. /\ h \in CallType /\ h = toWorker[w][1] /\ 1 \in 1..Len(toWorker[w]) /\ t \in Seq(CallType)
      /\ \A i \in 1..Len(t) : i + 1 \in 1..Len(toWorker[w]) /\ i + 1 # 1 /\ t[i] = toWorker[w][i + 1]
  BY <1>2, <1>3, <1>4, TailIs
<1>6. /\ toWorker' \in [Workers -> Seq(CallType)] /\ toWorker'[w] = t
      /\ \A v \in Workers : v # w => toWorker'[v] = toWorker[v]
  BY <1>1, <1>3, <1>5
<1>7. \A i, j \in 1..Len(t) : t[i].type = "lookup" /\ t[j] = t[i] => i = j
  <2> SUFFICES ASSUME NEW i \in 1..Len(t), NEW j \in 1..Len(t), t[i].type = "lookup", t[j] = t[i]
               PROVE  i = j
    OBVIOUS
  <2>1. i + 1 = j + 1
    BY <1>2, <1>5 DEF CallsRight
  <2> QED BY <2>1
<1>8. \A i \in 1..Len(t) :
         t[i] \in CallType /\ CallRight(w, t[i]) /\ (t[i].type = "lookup" => t[i] # h)
  <2> SUFFICES ASSUME NEW i \in 1..Len(t)
               PROVE  t[i] \in CallType /\ CallRight(w, t[i]) /\ (t[i].type = "lookup" => t[i] # h)
    OBVIOUS
  <2>1. /\ i + 1 \in 1..Len(toWorker[w]) /\ i + 1 # 1 /\ t[i] = toWorker[w][i + 1]
        /\ t[i] \in CallType
    BY <1>5
  <2> QED BY <1>2, <1>5, <2>1 DEF CallsRight
<1>9. ASSUME NEW v \in Workers, v # w
      PROVE  /\ \A i \in 1..Len(toWorker[v]) : toWorker[v][i] \in CallType /\ CallRight(v, toWorker[v][i])
             /\ \A i, j \in 1..Len(toWorker[v]) :
                   toWorker[v][i].type = "lookup" /\ toWorker[v][j] = toWorker[v][i] => i = j
  <2>1. CallsRight(v) /\ toWorker[v] \in Seq(CallType)
    BY <1>1
  <2> QED BY <2>1 DEF CallsRight
<1>10. CallRight(w, h)
  BY <1>2, <1>5 DEF CallsRight
<1>11. ASSUME NEW v \in Workers
       PROVE  /\ \A i \in 1..Len(toWorker'[v]) :
                    /\ toWorker'[v][i] \in CallType /\ CallRight(v, toWorker'[v][i])
                    /\ v = w /\ toWorker'[v][i].type = "lookup" => toWorker'[v][i] # h
              /\ \A i, j \in 1..Len(toWorker'[v]) :
                    toWorker'[v][i].type = "lookup" /\ toWorker'[v][j] = toWorker'[v][i] => i = j
  <2>1. CASE v = w
    BY <1>6, <1>7, <1>8, <2>1
  <2>2. CASE v # w
    <3>1. toWorker'[v] = toWorker[v]
      BY <1>6, <2>2
    <3> QED BY <1>9, <2>2, <3>1
  <2> QED BY <2>1, <2>2
<1> QED BY <1>4, <1>5, <1>6, <1>10, <1>11

\* A worker takes a lookup from its socket.
LEMMA RecvLookupKeeps ==
    ASSUME LookupInv, NEW w \in Workers, AL!RecvLookup(w)
    PROVE  LookupInv'
<1>1. PICK m : m = Head(toWorker[w])
  OBVIOUS
<1>2. /\ toWorker[w] # <<>> /\ m.type = "lookup"
      /\ toWorker' = [toWorker EXCEPT ![w] = Tail(@)]
      /\ lookup' = [lookup EXCEPT ![w][<<m.req, m.attempt>>].phase = "queued"]
      /\ toScheduler' = toScheduler /\ buffers' = buffers /\ events' = events
      /\ use' = use /\ req' = req /\ attempt' = attempt /\ promise' = promise /\ toLoad' = toLoad
      /\ reqsStatus' = reqsStatus /\ firstLookupTime' = firstLookupTime
      /\ resForEachWorker' = resForEachWorker /\ abortedLookups' = abortedLookups
      /\ shortLoads' = shortLoads
  BY <1>1 DEF AL!RecvLookup, AL!schedVars, AL!clientVars
<1>3. /\ m \in CallType /\ CallRight(w, m) /\ toWorker' \in [Workers -> Seq(CallType)]
      /\ \A v \in Workers :
            /\ \A i \in 1..Len(toWorker'[v]) :
                  /\ toWorker'[v][i] \in CallType /\ CallRight(v, toWorker'[v][i])
                  /\ v = w /\ toWorker'[v][i].type = "lookup" => toWorker'[v][i] # m
            /\ \A i, j \in 1..Len(toWorker'[v]) :
                  toWorker'[v][i].type = "lookup" /\ toWorker'[v][j] = toWorker'[v][i] => i = j
  BY <1>1, <1>2, CallsLeft
<1>4. PICK r \in Reqs : r = m.req
  BY <1>3 DEF CallType
<1>5. /\ attempt[r] > 0 /\ m.attempt = attempt[r] /\ <<m.req, m.attempt>> = Current(r)
      /\ lookup[w][Current(r)].phase = "none"
  BY <1>2, <1>3, <1>4 DEF CallRight, Current
<1>6. Current(r) \in AL!LookupIds /\ attempt[r] \in 1..MaxAttempts /\ Current(r) = <<r, attempt[r]>>
  BY <1>5, CurrentIs DEF LookupInv, Current
<1>7. /\ lookup \in [Workers -> [AL!LookupIds -> LookupType]] /\ lookup[w][Current(r)] \in LookupType
      /\ buffers \in [Workers -> [AL!LookupIds -> Nat]] /\ buffers[w][Current(r)] \in Nat
      /\ events \in [Workers -> [Reqs -> EventType]] /\ events[w][r] \in EventType
      /\ LookupsRight(w) /\ EventRight(w, r)
  BY <1>6 DEF LookupInv, LookupTypes
<1>8. PICK k : k = [lookup[w][Current(r)] EXCEPT !.phase = "queued"]
  OBVIOUS
<1>9. /\ lookup[w][Current(r)].expected = <<>> /\ lookup[w][Current(r)].actual = <<>>
      /\ ~(buffers[w][Current(r)] > 0) /\ events[w][r].status # "ONGOING"
      /\ events[w][r].status = "DONE" => events[w][r].attempt \in 1..attempt[r]
  BY <1>5, <1>6, <1>7 DEF LookupsRight, EventRight
<1>10. /\ k \in LookupType /\ k.phase = "queued" /\ k.expected = <<>> /\ k.actual = <<>>
  BY <1>7, <1>8, <1>9 DEF LookupType, Phases
<1>11. /\ lookup' = [lookup EXCEPT ![w][Current(r)] = k]
       /\ buffers' = [buffers EXCEPT ![w][Current(r)] = buffers[w][Current(r)]]
       /\ events' = [events EXCEPT ![w][r] = events[w][r]]
  BY <1>2, <1>5, <1>7, <1>8
<1>12. LookupStep(w, r, k, buffers[w][Current(r)], events[w][r])
  BY <1>2, <1>5, <1>10, <1>11 DEF LookupStep
<1>13. /\ \A x \in Reqs : Complete(x)' <=> Complete(x)
       /\ \A v \in Workers, l \in AL!LookupIds : v # w \/ l # Current(r) => lookup'[v][l] = lookup[v][l]
  BY <1>7, <1>10, <1>12, StepIs, StepCounts
<1>14. ASSUME NEW v \in Workers, NEW c \in CallType, CallRight(v, c),
              v = w /\ c.type = "lookup" => c # m
       PROVE  CallRight(v, c)'
  <2>1. c.req \in Reqs /\ c.attempt \in 0..MaxAttempts /\ c = [type |-> c.type, req |-> c.req, attempt |-> c.attempt]
    BY DEF CallType
  <2>2. m = [type |-> "lookup", req |-> r, attempt |-> attempt[r]]
    BY <1>2, <1>3, <1>4, <1>5 DEF CallType
  <2>3. c.type = "cleanup" => req'[c.req] = "aborted" /\ Complete(c.req)'
    BY <1>2, <1>13, <1>14, <2>1 DEF CallRight
  <2>4. ASSUME c.type = "lookup"
        PROVE  /\ c.attempt > 0 /\ c.attempt = attempt'[c.req]
               /\ lookup'[v][<<c.req, c.attempt>>].phase = "none"
    <3>1. c.attempt > 0 /\ c.attempt = attempt[c.req] /\ lookup[v][<<c.req, c.attempt>>].phase = "none"
      BY <1>14, <2>4 DEF CallRight
    <3>2. <<c.req, c.attempt>> \in AL!LookupIds
      BY <2>1, <3>1, LookupAssumption DEF AL!LookupIds
    <3>3. v # w \/ <<c.req, c.attempt>> # Current(r)
      BY <1>6, <1>14, <2>1, <2>2, <2>4
    <3> QED BY <1>2, <1>13, <3>1, <3>2, <3>3
  <2> QED BY <2>3, <2>4 DEF CallRight
<1>15. \A v \in Workers : CallsRight(v)'
  BY <1>3, <1>14 DEF CallsRight
<1>16. /\ k.phase # "none" /\ k.phase # "loading" /\ k.phase # "over"
       /\ k.phase \notin {"loaded", "over"} /\ k.phase \notin {"loading", "loaded", "failed"}
       /\ k.expected = <<>> /\ k.actual = <<>> /\ k \in LookupType
  BY <1>10
<1>17. toWorker' \in [Workers -> Seq(CallType)] /\ buffers[w][Current(r)] \in Nat /\ events[w][r] \in EventType
  BY <1>3, <1>7
<1> QED BY ONLY LookupInv, w \in Workers, r \in Reqs, <1>9, <1>12, <1>15, <1>16, <1>17, StepKeeps

\* The cleanup of an aborted request, whose answers are all counted.
LEMMA RecvCleanupKeeps ==
    ASSUME LookupInv, NEW w \in Workers, AL!RecvCleanup(w)
    PROVE  LookupInv'
<1>1. PICK m : m = Head(toWorker[w])
  OBVIOUS
<1>2. /\ toWorker[w] # <<>> /\ m.type = "cleanup"
      /\ toWorker' = [toWorker EXCEPT ![w] = Tail(@)]
      /\ toScheduler' = toScheduler /\ buffers' = buffers /\ lookup' = lookup
      /\ use' = use /\ req' = req /\ attempt' = attempt /\ promise' = promise /\ toLoad' = toLoad
      /\ reqsStatus' = reqsStatus /\ firstLookupTime' = firstLookupTime
      /\ resForEachWorker' = resForEachWorker /\ abortedLookups' = abortedLookups
      /\ shortLoads' = shortLoads
  BY <1>1 DEF AL!RecvCleanup, AL!schedVars, AL!clientVars
<1>3. /\ m \in CallType /\ CallRight(w, m) /\ toWorker' \in [Workers -> Seq(CallType)]
      /\ \A v \in Workers :
            /\ \A i \in 1..Len(toWorker'[v]) :
                  toWorker'[v][i] \in CallType /\ CallRight(v, toWorker'[v][i])
            /\ \A i, j \in 1..Len(toWorker'[v]) :
                  toWorker'[v][i].type = "lookup" /\ toWorker'[v][j] = toWorker'[v][i] => i = j
  BY <1>1, <1>2, CallsLeft
<1>4. PICK r \in Reqs : r = m.req
  BY <1>3 DEF CallType
<1>5. req[r] = "aborted" /\ Complete(r)
  BY <1>2, <1>3, <1>4 DEF CallRight
<1>6. events \in [Workers -> [Reqs -> EventType]]
  BY DEF LookupInv, LookupTypes
<1>7. AL!NoEvent \in EventType /\ AL!NoEvent.status = "NOT_FOUND"
  BY LookupAssumption DEF AL!NoEvent, EventType
<1>8. /\ events' \in [Workers -> [Reqs -> EventType]]
      /\ \A v \in Workers, x \in Reqs : v # w \/ x # r => events'[v][x] = events[v][x]
      /\ \/ events'[w][r] = events[w][r]
         \/ events[w][r].status = "DONE" /\ events'[w][r] = AL!NoEvent
  BY <1>1, <1>4, <1>6, <1>7 DEF AL!RecvCleanup
<1>9. /\ \A x \in Reqs :
            /\ Counted(x)' = Counted(x) /\ (Complete(x)' <=> Complete(x))
            /\ Current(x)' = Current(x)
      /\ \A x \in Reqs, v \in Workers : Hits(v, x)' = Hits(v, x)
      /\ \A v \in Workers : SentRight(v) => SentRight(v)'
      /\ \A v \in Workers : LookupsRight(v) => LookupsRight(v)'
  BY <1>2, WorkersSame
<1>10. LookupTypes'
  BY <1>2, <1>3, <1>8 DEF LookupInv, LookupTypes
<1>11. ASSUME NEW x \in Reqs PROVE RequestRight(x)' /\ StatusRight(x)' /\ AnswersRight(x)'
  <2>1. RequestRight(x) /\ StatusRight(x) /\ AnswersRight(x)
    BY SchedulerTypes
  <2>2. RequestRight(x)'
    BY <1>2, <2>1 DEF RequestRight
  <2>3. StatusRight(x)' /\ AnswersRight(x)'
    BY <1>2, <1>9, <2>1, AnswersSame
  <2> QED BY <2>2, <2>3
<1>12. ASSUME NEW v \in Workers, NEW c \in CallType, CallRight(v, c) PROVE CallRight(v, c)'
  <2>1. c.req \in Reqs
    BY DEF CallType
  <2> QED BY <1>2, <1>9, <1>12, <2>1 DEF CallRight
<1>13. \A v \in Workers : CallsRight(v)'
  BY <1>3, <1>12 DEF CallsRight
<1>14. \A v \in Workers : SentRight(v)' /\ LookupsRight(v)'
  BY <1>9 DEF LookupInv
<1>15. ASSUME NEW v \in Workers, NEW x \in Reqs PROVE EventRight(v, x)'
  <2>1. EventRight(v, x)
    BY SchedulerTypes
  <2>2. CASE events'[v][x] = events[v][x]
    BY <1>2, <1>9, <2>1, <2>2 DEF EventRight
  <2>3. CASE events'[v][x] # events[v][x]
    <3>1. v = w /\ x = r /\ events[w][r].status = "DONE" /\ events'[w][r] = AL!NoEvent
      BY <1>8, <2>3
    <3>2. toLoad[r] = {}
      BY <1>5, SchedulerTypes DEF RequestRight
    <3> QED BY <1>2, <1>5, <1>7, <1>9, <2>1, <3>1, <3>2 DEF EventRight
  <2> QED BY <2>2, <2>3
<1>16. UsedRight'
  BY <1>2 DEF LookupInv, UsedRight, AL!AllUsed
<1> QED BY <1>2, <1>10, <1>11, <1>13, <1>14, <1>15, <1>16 DEF LookupInv, AL!LoadDelivers

\* The first answer of worker w is taken: it was the only one for its request.
LEMMA AnswerTaken ==
    ASSUME LookupInv, NEW w \in Workers, toScheduler[w] # <<>>,
           toScheduler' = [toScheduler EXCEPT ![w] = Tail(@)],
           attempt' = attempt, lookup' = lookup, NEW m, m = Head(toScheduler[w])
    PROVE  /\ m \in AnswerType /\ AnswerRight(w, m) /\ Sent(w, m.req)
           /\ toScheduler' \in [Workers -> Seq(AnswerType)]
           /\ \A v \in Workers : SentRight(v)'
           /\ \A v \in Workers, x \in Reqs : Sent(v, x)' <=> Sent(v, x) /\ ~(v = w /\ x = m.req)
           /\ \A v \in Workers : \A i \in 1..Len(toScheduler'[v]) :
                 \E j \in 1..Len(toScheduler[v]) : toScheduler'[v][i] = toScheduler[v][j]
<1>1. toScheduler \in [Workers -> Seq(AnswerType)] /\ \A v \in Workers : SentRight(v)
  BY DEF LookupInv, LookupTypes
<1>2. toScheduler[w] \in Seq(AnswerType) /\ SentRight(w)
  BY <1>1
<1>3. PICK t : t = Tail(toScheduler[w])
  OBVIOUS
<1>4. /\ m \in AnswerType /\ m = toScheduler[w][1] /\ 1 \in 1..Len(toScheduler[w])
      /\ t \in Seq(AnswerType) /\ Len(t) = Len(toScheduler[w]) - 1 /\ Len(toScheduler[w]) \in Nat
      /\ \A i \in 1..Len(t) : i + 1 \in 1..Len(toScheduler[w]) /\ i + 1 # 1 /\ t[i] = toScheduler[w][i + 1]
  BY <1>2, <1>3, TailIs
<1>5. /\ toScheduler' \in [Workers -> Seq(AnswerType)] /\ toScheduler'[w] = t
      /\ \A v \in Workers : v # w => toScheduler'[v] = toScheduler[v]
  BY <1>1, <1>3, <1>4
<1>6. AnswerRight(w, m) /\ Sent(w, m.req)
  BY <1>2, <1>4 DEF SentRight, Sent
<1>7. ASSUME NEW v \in Workers, NEW e PROVE AnswerRight(v, e) => AnswerRight(v, e)'
  BY DEF AnswerRight, Over, Hits, Current
<1>8. ASSUME NEW v \in Workers PROVE SentRight(v)'
  <2>1. CASE v = w
    <3>1. \A i \in 1..Len(t) : AnswerRight(w, t[i])'
      BY <1>2, <1>4, <1>7 DEF SentRight
    <3>2. ASSUME NEW i \in 1..Len(t), NEW j \in 1..Len(t), t[i].req = t[j].req PROVE i = j
      <4>1. i + 1 = j + 1
        BY <1>2, <1>4, <3>2 DEF SentRight
      <4> QED BY <4>1
    <3> QED BY <1>5, <2>1, <3>1, <3>2 DEF SentRight
  <2>2. CASE v # w
    BY <1>1, <1>5, <1>7, <2>2 DEF SentRight
  <2> QED BY <2>1, <2>2
<1>9. ASSUME NEW v \in Workers, NEW x \in Reqs
      PROVE  Sent(v, x)' <=> Sent(v, x) /\ ~(v = w /\ x = m.req)
  <2>1. CASE v # w
    BY <1>5, <2>1 DEF Sent
  <2>2. CASE v = w
    <3>1. ASSUME NEW i \in 1..Len(t), t[i].req = x PROVE Sent(w, x) /\ x # m.req
      BY <1>2, <1>4, <3>1 DEF Sent, SentRight
    <3>2. ASSUME Sent(w, x), x # m.req PROVE \E i \in 1..Len(t) : t[i].req = x
      <4>1. PICK j \in 1..Len(toScheduler[w]) : toScheduler[w][j].req = x
        BY <3>2 DEF Sent
      <4>2. j # 1
        BY <1>4, <3>2, <4>1
      <4>3. j - 1 \in 1..Len(t) /\ (j - 1) + 1 = j
        BY <1>4, <4>2
      <4> QED BY <1>4, <4>1, <4>3
    <3> QED BY <1>5, <2>2, <3>1, <3>2 DEF Sent
  <2> QED BY <2>1, <2>2
<1>10. ASSUME NEW v \in Workers, NEW i \in 1..Len(toScheduler'[v])
       PROVE  \E j \in 1..Len(toScheduler[v]) : toScheduler'[v][i] = toScheduler[v][j]
  BY <1>4, <1>5, <1>10
<1> QED BY <1>4, <1>5, <1>6, <1>8, <1>9, <1>10

\* Both modules count alike, and take the same range.
LEMMA SameCount ==
    /\ \A S : AL!Cardinality(S) = Cardinality(S)
    /\ \A s : AL!Range(s) = {s[i] : i \in DOMAIN s}
<1>1. ASSUME NEW S PROVE AL!Cardinality(S) = Cardinality(S)
  BY DEF AL!Cardinality, Cardinality
<1>2. ASSUME NEW s PROVE AL!Range(s) = {s[i] : i \in DOMAIN s}
  BY DEF AL!Range
<1> QED BY <1>1, <1>2

\* The answer of a worker joins those of its request, the last gives the least.
LEMMA ResponseKeeps ==
    ASSUME LookupInv, NEW w \in Workers, AL!ProcessResponse(w)
    PROVE  LookupInv'
<1>1. PICK m : m = Head(toScheduler[w])
  OBVIOUS
<1>2. /\ toScheduler[w] # <<>> /\ toScheduler' = [toScheduler EXCEPT ![w] = Tail(@)]
      /\ toWorker' = toWorker /\ lookup' = lookup /\ buffers' = buffers /\ events' = events
      /\ use' = use /\ req' = req /\ attempt' = attempt /\ promise' = promise /\ toLoad' = toLoad
      /\ firstLookupTime' = firstLookupTime /\ abortedLookups' = abortedLookups
      /\ shortLoads' = shortLoads
  BY DEF AL!ProcessResponse, AL!schedVars, AL!workerVars
<1>3. /\ m \in AnswerType /\ AnswerRight(w, m) /\ Sent(w, m.req)
      /\ toScheduler' \in [Workers -> Seq(AnswerType)]
      /\ \A v \in Workers : SentRight(v)'
      /\ \A v \in Workers, x \in Reqs : Sent(v, x)' <=> Sent(v, x) /\ ~(v = w /\ x = m.req)
      /\ \A v \in Workers : \A i \in 1..Len(toScheduler'[v]) :
            \E j \in 1..Len(toScheduler[v]) : toScheduler'[v][i] = toScheduler[v][j]
  BY <1>1, <1>2, AnswerTaken
<1>4. PICK r \in Reqs : r = m.req
  BY <1>3 DEF AnswerType
<1>5. PICK all \in Seq(Nat) : all = Append(resForEachWorker[r], m.hits)
  <2>1. resForEachWorker[r] \in Seq(Nat) /\ m.hits \in Nat
    BY <1>3, <1>4, SchedulerTypes DEF AnswerType
  <2> QED BY <1>4, <2>1, AppendProperties
<1>6. /\ ~Complete(r) /\ w \notin Counted(r) /\ Counted(r)' = Counted(r) \cup {w}
      /\ Len(all) = Cardinality(Counted(r)')
      /\ \A v \in Counted(r)' : \E i \in 1..Len(all) : all[i] = Hits(v, r)
      /\ Complete(r)' <=> Len(all) = AL!Cardinality(Workers)
      /\ \A i \in 1..Len(all) : \/ all[i] = m.hits
                                \/ \E j \in 1..Len(resForEachWorker[r]) : all[i] = resForEachWorker[r][j]
  <2>1. /\ m \in AnswerType /\ AnswerRight(w, m) /\ Sent(w, r)
        /\ \A v \in Workers : Sent(v, r)' <=> Sent(v, r) /\ v # w
    BY <1>3, <1>4
  <2>2. Over(w, r) /\ m.hits = Hits(w, r) /\ m.hits \in Nat
    BY <1>4, <2>1 DEF AnswerRight, AnswerType
  <2>3. w \notin Counted(r)
    BY <2>1 DEF Counted
  <2>4. ~Complete(r)
    BY <2>3 DEF Complete
  <2>5. \A v \in Workers : Over(v, r)' <=> Over(v, r)
    BY <1>2 DEF Over, Current
  <2>6. Counted(r)' = Counted(r) \cup {w}
    BY <2>1, <2>2, <2>5 DEF Counted
  <2>7. /\ resForEachWorker[r] \in Seq(Nat)
        /\ Len(resForEachWorker[r]) = Cardinality(Counted(r))
        /\ \A v \in Counted(r) :
              \E i \in 1..Len(resForEachWorker[r]) : resForEachWorker[r][i] = Hits(v, r)
    BY <2>4, SchedulerTypes DEF AnswersRight
  <2>8. /\ all \in Seq(Nat) /\ Len(all) = Len(resForEachWorker[r]) + 1 /\ Len(resForEachWorker[r]) \in Nat
        /\ \A i \in 1..Len(resForEachWorker[r]) : all[i] = resForEachWorker[r][i]
        /\ all[Len(resForEachWorker[r]) + 1] = m.hits
    BY <1>5, <2>2, <2>7, AppendProperties, LenProperties
  <2>9. IsFiniteSet(Workers) /\ Counted(r) \subseteq Workers /\ IsFiniteSet(Counted(r))
    BY LookupAssumption, FS_Subset DEF Counted
  <2>10. Cardinality(Counted(r) \cup {w}) = Cardinality(Counted(r)) + 1 /\ IsFiniteSet(Counted(r) \cup {w})
    BY <2>3, <2>9, FS_AddElement
  <2>11. Len(all) = Cardinality(Counted(r) \cup {w})
    BY <2>7, <2>8, <2>10
  <2>12. \A v \in Counted(r) \cup {w} : \E i \in 1..Len(all) : all[i] = Hits(v, r)
    <3> SUFFICES ASSUME NEW v \in Counted(r) \cup {w} PROVE \E i \in 1..Len(all) : all[i] = Hits(v, r)
      OBVIOUS
    <3>1. CASE v \in Counted(r)
      BY <2>7, <2>8, <3>1
    <3>2. CASE v = w
      <4>1. Len(resForEachWorker[r]) + 1 \in 1..Len(all)
        BY <2>8
      <4> QED BY <2>2, <2>8, <3>2, <4>1
    <3> QED BY <3>1, <3>2
  <2>13. Counted(r) \cup {w} = Workers <=> Len(all) = AL!Cardinality(Workers)
    <3>1. Counted(r) \cup {w} \subseteq Workers
      BY <2>9
    <3>2. Counted(r) \cup {w} = Workers <=> Cardinality(Counted(r) \cup {w}) = Cardinality(Workers)
      <4>1. ASSUME Counted(r) \cup {w} # Workers PROVE Cardinality(Counted(r) \cup {w}) # Cardinality(Workers)
        <5>1. Cardinality(Counted(r) \cup {w}) < Cardinality(Workers)
          BY <2>9, <3>1, <4>1, FS_Subset, FS_CardinalityType
        <5>2. Cardinality(Counted(r) \cup {w}) \in Nat /\ Cardinality(Workers) \in Nat
          BY <2>9, <2>10, FS_CardinalityType
        <5> QED BY <5>1, <5>2
      <4> QED BY <4>1
    <3> QED BY <2>11, <3>2, SameCount
  <2>14. ASSUME NEW i \in 1..Len(all)
         PROVE  \/ all[i] = m.hits
                \/ \E j \in 1..Len(resForEachWorker[r]) : all[i] = resForEachWorker[r][j]
    BY <2>8, <2>14
  <2>15. Complete(r)' <=> Counted(r)' = Workers
    BY DEF Complete
  <2> QED BY <2>3, <2>4, <2>6, <2>11, <2>12, <2>13, <2>14, <2>15
<1>7. IF Complete(r)'
      THEN /\ resForEachWorker' = [resForEachWorker EXCEPT ![r] = <<>>]
           /\ reqsStatus' = [reqsStatus EXCEPT ![r] = AL!Min(AL!Range(all))]
      ELSE /\ resForEachWorker' = [resForEachWorker EXCEPT ![r] = all]
           /\ reqsStatus' = reqsStatus
  BY <1>1, <1>4, <1>5, <1>6 DEF AL!ProcessResponse
<1>8. /\ AL!Min(AL!Range(all)) \in Nat /\ \E i \in 1..Len(all) : AL!Min(AL!Range(all)) = all[i]
      /\ \A i \in 1..Len(all) : AL!Min(AL!Range(all)) <= all[i]
  <2>1. PICK R : R = AL!Range(all)
    OBVIOUS
  <2>2. R = {all[i] : i \in 1..Len(all)} /\ R \in SUBSET Nat
    <3>1. DOMAIN all = 1..Len(all)
      BY <1>6
    <3> QED BY <1>6, <2>1, <3>1, SameCount
  <2>3. R # {}
    <3>1. w \in Counted(r)'
      BY <1>6
    <3> QED BY <1>6, <2>2, <3>1
  <2>4. AL!Min(R) \in R /\ \A x \in R : AL!Min(R) <= x
    BY <2>2, <2>3, MinIs
  <2> QED BY <2>1, <2>2, <2>4
<1>9. /\ resForEachWorker' \in [Reqs -> Seq(Nat)]
      /\ reqsStatus' \in [Reqs -> Nat \cup {AL!NotFound, AL!Ongoing}]
      /\ \A x \in Reqs : x # r => resForEachWorker'[x] = resForEachWorker[x] /\ reqsStatus'[x] = reqsStatus[x]
      /\ resForEachWorker'[r] = IF Complete(r)' THEN <<>> ELSE all
      /\ reqsStatus'[r] = IF Complete(r)' THEN AL!Min(AL!Range(all)) ELSE reqsStatus[r]
  <2>1. <<>> \in Seq(Nat)
    OBVIOUS
  <2> QED BY <1>6, <1>7, <1>8, <2>1, SchedulerTypes
<1>10. LookupTypes'
  BY <1>2, <1>3, <1>9 DEF LookupInv, LookupTypes
<1>11. /\ \A x \in Reqs : Current(x)' = Current(x)
       /\ \A x \in Reqs, v \in Workers : Hits(v, x)' = Hits(v, x) /\ (Over(v, x)' <=> Over(v, x))
  BY <1>2 DEF Current, Hits, Over
<1>12. ASSUME NEW x \in Reqs, x # r PROVE Counted(x)' = Counted(x) /\ (Complete(x)' <=> Complete(x))
  BY <1>3, <1>4, <1>11, <1>12 DEF Counted, Complete
<1>13. \A x \in Reqs : Complete(x) => Complete(x)'
  BY <1>6, <1>12
<1>14. ASSUME NEW x \in Reqs PROVE RequestRight(x)'
  <2>1. RequestRight(x) /\ StatusRight(x)
    BY SchedulerTypes
  <2>2. CASE x # r
    BY <1>2, <1>9, <2>1, <2>2 DEF RequestRight
  <2>3. CASE x = r
    <3>1. attempt[r] # 0
      BY <1>3, <1>4 DEF AnswerRight, Over
    <3> QED BY <1>2, <2>1, <2>3, <3>1 DEF RequestRight
  <2> QED BY <2>2, <2>3
<1>15. /\ attempt[r] > 0 /\ ~(reqsStatus[r] >= 0)
       /\ ~(reqsStatus[r] = AL!NotFound /\ (~use.timeout \/ req[r] = "waiting"))
       /\ ~(~use.timeout /\ req[r] \in {"running", "finished"})
  <2>1. attempt[r] > 0
    BY <1>3, <1>4 DEF AnswerRight, Over
  <2> QED BY <1>6, <2>1, SchedulerTypes DEF StatusRight
<1>16. ASSUME NEW x \in Reqs PROVE StatusRight(x)' /\ AnswersRight(x)'
  <2>1. StatusRight(x) /\ AnswersRight(x)
    BY SchedulerTypes
  <2>2. CASE x # r
    <3>1. Counted(x)' = Counted(x)
      BY <1>12, <2>2
    <3> QED BY <1>2, <1>9, <2>1, <2>2, <3>1, AnswersSame
  <2>3. CASE x = r /\ Complete(r)'
    <3>1. AnswersRight(r)'
      BY <1>9, <2>3 DEF AnswersRight
    <3>2. ASSUME NEW v \in Workers PROVE reqsStatus'[r] <= Hits(v, r)'
      <4>1. v \in Counted(r)'
        BY <2>3 DEF Complete
      <4>2. PICK i \in 1..Len(all) : all[i] = Hits(v, r)
        BY <1>6, <4>1
      <4> QED BY <1>8, <1>9, <1>11, <2>3, <4>2
    <3>3. reqsStatus'[r] \in Nat
      BY <1>8, <1>9, <2>3
    <3> QED BY <1>2, <1>15, <2>3, <3>1, <3>2, <3>3 DEF StatusRight, AL!NotFound, AL!Ongoing
  <2>4. CASE x = r /\ ~Complete(r)'
    <3>1. AnswersRight(r)'
      <4>1. resForEachWorker'[r] = all /\ Counted(r)' \subseteq Workers
        BY <1>9, <2>4 DEF Counted
      <4>2. \A v \in Counted(r)' : \E i \in 1..Len(all) : all[i] = Hits(v, r)'
        BY <1>6, <1>11, <4>1
      <4>3. Len(resForEachWorker'[r]) = Cardinality(Counted(r)')
        BY <1>6, <4>1
      <4> QED BY <2>4, <4>1, <4>2, <4>3 DEF AnswersRight
    <3> QED BY <1>2, <1>9, <1>15, <2>1, <2>4, <3>1 DEF StatusRight
  <2> QED BY <2>2, <2>3, <2>4
<1>17. ASSUME NEW v \in Workers PROVE CallsRight(v)' /\ LookupsRight(v)'
  <2>1. CallsRight(v) /\ LookupsRight(v) /\ toWorker[v] \in Seq(CallType)
    BY DEF LookupInv, LookupTypes
  <2>2. ASSUME NEW c \in CallType, CallRight(v, c) PROVE CallRight(v, c)'
    <3>1. c.req \in Reqs
      BY DEF CallType
    <3> QED BY <1>2, <1>13, <2>2, <3>1 DEF CallRight
  <2>3. \A i \in 1..Len(toWorker[v]) : toWorker[v][i] \in CallType
    BY <2>1
  <2> QED BY <1>2, <2>1, <2>2, <2>3 DEF CallsRight, LookupsRight
<1>18. ASSUME NEW v \in Workers, NEW x \in Reqs PROVE EventRight(v, x)'
  <2>1. EventRight(v, x)
    BY SchedulerTypes
  <2>2. req[x] = "waiting" /\ reqsStatus'[x] # AL!NotFound /\ lookup[v][Current(x)].phase = "over"
           => reqsStatus[x] # AL!NotFound
    BY <1>9, <1>15
  <2> QED BY <1>2, <1>11, <1>13, <2>1, <2>2 DEF EventRight
<1>19. UsedRight'
  <2> SUFFICES ASSUME AL!AllUsed PROVE UsedRight'
    BY <1>2 DEF UsedRight, AL!AllUsed
  <2>1. ASSUME NEW v \in Workers, NEW i \in 1..Len(toScheduler'[v]) PROVE toScheduler'[v][i].hits > 0
    <3>1. PICK j \in 1..Len(toScheduler[v]) : toScheduler'[v][i] = toScheduler[v][j]
      BY <1>3
    <3> QED BY <3>1 DEF LookupInv, UsedRight
  <2>2. m.hits > 0
    <3>1. PICK i \in 1..Len(toScheduler[w]) : m = toScheduler[w][i]
      <4>1. toScheduler[w] \in Seq(AnswerType)
        BY DEF LookupInv, LookupTypes
      <4> QED BY <1>1, <1>2, <4>1, TailIs
    <3> QED BY <3>1 DEF LookupInv, UsedRight
  <2>3. \A i \in 1..Len(all) : all[i] > 0
    <3>1. \A j \in 1..Len(resForEachWorker[r]) : resForEachWorker[r][j] > 0
      BY DEF LookupInv, UsedRight
    <3> QED BY <1>6, <2>2, <3>1
  <2>4. ASSUME NEW x \in Reqs
        PROVE  /\ reqsStatus'[x] # 0
               /\ \A i \in 1..Len(resForEachWorker'[x]) : resForEachWorker'[x][i] > 0
    <3>1. reqsStatus[x] # 0 /\ \A i \in 1..Len(resForEachWorker[x]) : resForEachWorker[x][i] > 0
      BY DEF LookupInv, UsedRight
    <3>2. CASE x # r
      BY <1>9, <3>1, <3>2
    <3>3. CASE x = r /\ Complete(r)'
      <4>1. reqsStatus'[r] > 0 /\ reqsStatus'[r] \in Nat
        BY <1>8, <1>9, <2>3, <3>3
      <4>2. resForEachWorker'[r] = <<>>
        BY <1>9, <3>3
      <4> QED BY <3>3, <4>1, <4>2
    <3>4. CASE x = r /\ ~Complete(r)'
      BY <1>9, <2>3, <3>1, <3>4
    <3> QED BY <3>2, <3>3, <3>4
  <2>5. ASSUME NEW v \in Workers, NEW x \in Reqs, NEW a \in 1..MaxAttempts, buffers[v][<<x, a>>] > 0
        PROVE  /\ a = attempt[x]
               /\ \/ req[x] = "waiting" /\ reqsStatus'[x] # AL!NotFound
                  \/ v \in toLoad[x]
    <3>1. /\ a = attempt[x]
          /\ \/ req[x] = "waiting" /\ reqsStatus[x] # AL!NotFound
             \/ v \in toLoad[x]
      BY <2>5 DEF LookupInv, UsedRight
    <3>2. reqsStatus[x] # AL!NotFound => reqsStatus'[x] # AL!NotFound
      BY <1>8, <1>9 DEF AL!NotFound
    <3> QED BY <3>1, <3>2
  <2> QED BY <1>2, <2>1, <2>4, <2>5 DEF LookupInv, UsedRight
<1> QED BY <1>2, <1>3, <1>10, <1>14, <1>16, <1>17, <1>18, <1>19 DEF LookupInv, AL!LoadDelivers

\* A worker loads what it prefetched for a scheduled request.
LEMMA RetrieveKeeps ==
    ASSUME LookupInv, NEW w \in Workers, NEW r \in Reqs, AL!Retrieve(w, r)
    PROVE  LookupInv'
<1>1. /\ w \in toLoad[r] /\ toLoad' = [toLoad EXCEPT ![r] = @ \ {w}]
      /\ toWorker' = toWorker /\ toScheduler' = toScheduler /\ lookup' = lookup
      /\ use' = use /\ req' = req /\ attempt' = attempt /\ promise' = promise
      /\ reqsStatus' = reqsStatus /\ firstLookupTime' = firstLookupTime
      /\ resForEachWorker' = resForEachWorker /\ abortedLookups' = abortedLookups
  BY DEF AL!Retrieve, AL!clientVars
<1>2. /\ events[w][r] = [status |-> "DONE", attempt |-> attempt[r]]
      /\ Complete(r) /\ promise[r] <= Hits(w, r) /\ req[r] = "running"
  BY <1>1, SchedulerTypes DEF EventRight, RequestRight
<1>3. attempt[r] > 0 /\ lookup[w][Current(r)].phase = "over"
  BY <1>2 DEF Complete, Counted, Over
<1>4. /\ Current(r) \in AL!LookupIds /\ attempt[r] \in 1..MaxAttempts /\ Hits(w, r) \in Nat
      /\ Current(r) = <<r, attempt[r]>>
  BY <1>3, CurrentIs DEF LookupInv, Current
<1>5. /\ lookup \in [Workers -> [AL!LookupIds -> LookupType]]
      /\ buffers \in [Workers -> [AL!LookupIds -> Nat]]
      /\ events \in [Workers -> [Reqs -> EventType]]
      /\ toLoad \in [Reqs -> SUBSET Workers] /\ promise[r] \in Nat
  BY DEF LookupInv, LookupTypes
<1>6. /\ events[w][r].status = "DONE" /\ events[w][r].attempt = attempt[r]
      /\ <<r, events[w][r].attempt>> = Current(r)
  BY <1>2, <1>4
<1>7. /\ events' = [events EXCEPT ![w][r] = AL!NoEvent]
      /\ buffers' = [buffers EXCEPT ![w][Current(r)] = 0]
      /\ shortLoads' = shortLoads
  <2>1. AL!Prefix(lookup[w][Current(r)]) >= promise[r]
    BY <1>2, <1>4, <1>5 DEF Hits
  <2> QED BY <1>3, <1>6, <2>1 DEF AL!Retrieve
<1>8. AL!NoEvent \in EventType /\ AL!NoEvent.status = "NOT_FOUND"
  BY LookupAssumption DEF AL!NoEvent, EventType
<1>9. /\ events' \in [Workers -> [Reqs -> EventType]] /\ events'[w][r] = AL!NoEvent
      /\ \A v \in Workers, x \in Reqs : v # w \/ x # r => events'[v][x] = events[v][x]
  BY <1>5, <1>7, <1>8
<1>10. /\ buffers' \in [Workers -> [AL!LookupIds -> Nat]] /\ buffers'[w][Current(r)] = 0
       /\ \A v \in Workers, l \in AL!LookupIds :
             v # w \/ l # Current(r) => buffers'[v][l] = buffers[v][l]
  BY <1>4, <1>5, <1>7
<1>11. /\ toLoad' \in [Reqs -> SUBSET Workers] /\ toLoad'[r] = toLoad[r] \ {w}
       /\ \A x \in Reqs : x # r => toLoad'[x] = toLoad[x]
  BY <1>1, <1>5
<1>12. /\ \A x \in Reqs :
             /\ Counted(x)' = Counted(x) /\ (Complete(x)' <=> Complete(x))
             /\ Current(x)' = Current(x)
       /\ \A x \in Reqs, v \in Workers : Hits(v, x)' = Hits(v, x)
       /\ \A v \in Workers : SentRight(v) => SentRight(v)'
  BY <1>1, WorkersSame
<1>13. LookupTypes'
  BY <1>1, <1>9, <1>10, <1>11 DEF LookupInv, LookupTypes
<1>14. ASSUME NEW x \in Reqs PROVE RequestRight(x)' /\ StatusRight(x)' /\ AnswersRight(x)'
  <2>1. RequestRight(x) /\ StatusRight(x) /\ AnswersRight(x)
    BY SchedulerTypes
  <2>2. RequestRight(x)'
    BY <1>1, <1>2, <1>11, <2>1 DEF RequestRight
  <2>3. StatusRight(x)' /\ AnswersRight(x)'
    BY <1>1, <1>12, <2>1, AnswersSame
  <2> QED BY <2>2, <2>3
<1>15. ASSUME NEW v \in Workers PROVE CallsRight(v)' /\ SentRight(v)'
  <2>1. CallsRight(v) /\ SentRight(v) /\ toWorker[v] \in Seq(CallType)
    BY DEF LookupInv, LookupTypes
  <2>2. ASSUME NEW c \in CallType, CallRight(v, c) PROVE CallRight(v, c)'
    <3>1. c.req \in Reqs
      BY DEF CallType
    <3> QED BY <1>1, <1>12, <2>2, <3>1 DEF CallRight
  <2>3. \A i \in 1..Len(toWorker[v]) : toWorker[v][i] \in CallType
    BY <2>1
  <2> QED BY <1>1, <1>12, <2>1, <2>2, <2>3 DEF CallsRight
<1>16. ASSUME NEW v \in Workers, NEW x \in Reqs, NEW a \in 1..MaxAttempts
       PROVE  buffers'[v][<<x, a>>] > 0 => /\ buffers[v][<<x, a>>] > 0
                                           /\ v # w \/ <<x, a>> # Current(r)
  <2>1. <<x, a>> \in AL!LookupIds
    BY DEF AL!LookupIds
  <2> QED BY <1>10, <2>1
<1>17. ASSUME NEW v \in Workers PROVE LookupsRight(v)'
  <2>1. LookupsRight(v)
    BY DEF LookupInv
  <2> QED BY <1>1, <1>16, <2>1 DEF LookupsRight
<1>18. ASSUME NEW v \in Workers, NEW x \in Reqs PROVE EventRight(v, x)'
  <2>1. EventRight(v, x)
    BY SchedulerTypes
  <2>2. CASE v = w /\ x = r
    <3>1. w \notin toLoad'[r]
      BY <1>11
    <3> QED BY <1>1, <1>2, <1>3, <1>8, <1>9, <1>10, <1>12, <2>2, <3>1 DEF EventRight
  <2>3. CASE v # w \/ x # r
    <3>1. /\ events'[v][x] = events[v][x] /\ (v \in toLoad'[x] => v \in toLoad[x])
          /\ Current(x)' = Current(x) /\ Hits(v, x)' = Hits(v, x) /\ (Complete(x)' <=> Complete(x))
      BY <1>9, <1>11, <1>12, <2>3
    <3>2. attempt[x] = 1 => (buffers'[v][Current(x)] > 0 => buffers[v][Current(x)] > 0)
      <4>1. attempt[x] = 1 => 1 \in 1..MaxAttempts
        BY SchedulerTypes, LookupAssumption
      <4> QED BY <1>16, <4>1, <1>4 DEF Current
    <3> QED BY <1>1, <2>1, <3>1, <3>2 DEF EventRight
  <2> QED BY <2>2, <2>3
<1>19. UsedRight'
  <2> SUFFICES ASSUME AL!AllUsed PROVE UsedRight'
    BY <1>1 DEF UsedRight, AL!AllUsed
  <2>1. ASSUME NEW v \in Workers, NEW x \in Reqs, NEW a \in 1..MaxAttempts, buffers'[v][<<x, a>>] > 0
        PROVE  /\ a = attempt[x]
               /\ \/ req[x] = "waiting" /\ reqsStatus[x] # AL!NotFound
                  \/ v \in toLoad'[x]
    <3>1. buffers[v][<<x, a>>] > 0 /\ (v # w \/ <<x, a>> # Current(r))
      BY <1>16, <2>1
    <3>2. /\ a = attempt[x]
          /\ \/ req[x] = "waiting" /\ reqsStatus[x] # AL!NotFound
             \/ v \in toLoad[x]
      BY <3>1 DEF LookupInv, UsedRight
    <3>3. v # w \/ x # r
      BY <1>4, <3>1, <3>2
    <3> QED BY <1>11, <3>2, <3>3
  <2> QED BY <1>1, <2>1 DEF LookupInv, UsedRight
<1> QED BY <1>7, <1>13, <1>14, <1>15, <1>17, <1>18, <1>19 DEF LookupInv, AL!LoadDelivers

\* The invariant holds before the first lookup.
LEMMA LookupInit ==
    ASSUME AL!Init
    PROVE  LookupInv
<1>1. /\ use \in Uses /\ req = [r \in Reqs |-> "waiting"] /\ attempt = [r \in Reqs |-> 0]
      /\ promise = [r \in Reqs |-> 0] /\ toLoad = [r \in Reqs |-> {}]
      /\ reqsStatus = [r \in Reqs |-> AL!NotFound] /\ firstLookupTime = [r \in Reqs |-> "unset"]
      /\ resForEachWorker = [r \in Reqs |-> <<>>] /\ abortedLookups = {}
      /\ toWorker = [w \in Workers |-> <<>>] /\ toScheduler = [w \in Workers |-> <<>>]
      /\ lookup = [w \in Workers |-> [l \in AL!LookupIds |-> AL!NoLookup]]
      /\ buffers = [w \in Workers |-> [l \in AL!LookupIds |-> 0]]
      /\ events = [w \in Workers |-> [r \in Reqs |-> AL!NoEvent]] /\ shortLoads = {}
  BY DEF AL!Init
<1>2. /\ AL!NoLookup \in LookupType /\ AL!NoLookup.phase = "none"
      /\ AL!NoLookup.expected = <<>> /\ AL!NoLookup.actual = <<>>
      /\ AL!NoEvent \in EventType /\ AL!NoEvent.status = "NOT_FOUND"
  BY LookupAssumption, EmptySeq DEF AL!NoLookup, LookupType, Phases, AL!NoEvent, EventType
<1>3. \A T : <<>> \in Seq(T) /\ Len(<<>>) = 0
  BY EmptySeq
<1>4. LookupTypes
  <2>1. /\ resForEachWorker \in [Reqs -> Seq(Nat)] /\ toWorker \in [Workers -> Seq(CallType)]
        /\ toScheduler \in [Workers -> Seq(AnswerType)]
    BY <1>1, <1>3
  <2>2. /\ lookup \in [Workers -> [AL!LookupIds -> LookupType]]
        /\ buffers \in [Workers -> [AL!LookupIds -> Nat]]
        /\ events \in [Workers -> [Reqs -> EventType]]
    BY <1>1, <1>2
  <2> QED BY <1>1, <2>1, <2>2, LookupAssumption DEF LookupTypes, AL!NotFound
<1>5. ASSUME NEW r \in Reqs PROVE Counted(r) = {} /\ ~Complete(r)
  <2>1. Counted(r) = {}
    BY <1>1 DEF Counted, Over
  <2> QED BY <2>1, LookupAssumption DEF Complete
<1>6. ASSUME NEW r \in Reqs PROVE RequestRight(r) /\ StatusRight(r) /\ AnswersRight(r)
  <2>1. use.attempts \in Nat
    BY <1>1, LookupAssumption DEF AL!ModeType
  <2>2. RequestRight(r)
    BY <1>1, <2>1 DEF RequestRight, AL!NotFound
  <2>3. StatusRight(r)
    BY <1>1 DEF StatusRight, AL!NotFound, AL!Ongoing
  <2>4. AnswersRight(r)
    <3>1. resForEachWorker[r] = <<>> /\ Cardinality(Counted(r)) = 0
      BY <1>1, <1>5, FS_EmptySet
    <3> QED BY <1>3, <1>5, <3>1 DEF AnswersRight
  <2> QED BY <2>2, <2>3, <2>4
<1>7. ASSUME NEW w \in Workers PROVE CallsRight(w) /\ SentRight(w) /\ LookupsRight(w)
  <2>1. toWorker[w] = <<>> /\ toScheduler[w] = <<>>
    BY <1>1
  <2>2. CallsRight(w) /\ SentRight(w)
    BY <1>3, <2>1 DEF CallsRight, SentRight
  <2>3. ASSUME NEW r \in Reqs, NEW a \in 1..MaxAttempts
        PROVE  /\ ~(a < attempt[r]) /\ lookup[w][<<r, a>>] = AL!NoLookup
               /\ ~(buffers[w][<<r, a>>] > 0)
    <3>1. <<r, a>> \in AL!LookupIds
      BY DEF AL!LookupIds
    <3> QED BY <1>1, <3>1
  <2>4. LookupsRight(w)
    BY <1>2, <2>3 DEF LookupsRight
  <2> QED BY <2>2, <2>4
<1>8. ASSUME NEW w \in Workers, NEW r \in Reqs PROVE EventRight(w, r)
  BY <1>1, <1>2 DEF EventRight, AL!NotFound
<1>9. UsedRight
  <2>1. ASSUME NEW w \in Workers, NEW l \in AL!LookupIds
        PROVE  lookup[w][l].phase = "none" /\ ~(buffers[w][l] > 0)
    BY <1>1, <1>2
  <2>2. \A r \in Reqs, a \in 1..MaxAttempts : <<r, a>> \in AL!LookupIds
    BY DEF AL!LookupIds
  <2>3. /\ \A r \in Reqs : reqsStatus[r] # 0 /\ Len(resForEachWorker[r]) = 0
        /\ \A w \in Workers : Len(toScheduler[w]) = 0
    BY <1>1, <1>3 DEF AL!NotFound
  <2> QED BY <2>1, <2>2, <2>3 DEF UsedRight
<1> QED BY <1>1, <1>4, <1>6, <1>7, <1>8, <1>9 DEF LookupInv, AL!LoadDelivers

\* A step of another part leaves it as it is.
LEMMA LookupStutters ==
    ASSUME LookupInv, UNCHANGED AL!vars
    PROVE  LookupInv'
<1>1. /\ use' = use /\ req' = req /\ attempt' = attempt /\ promise' = promise /\ toLoad' = toLoad
      /\ reqsStatus' = reqsStatus /\ firstLookupTime' = firstLookupTime
      /\ resForEachWorker' = resForEachWorker /\ abortedLookups' = abortedLookups
      /\ toWorker' = toWorker /\ toScheduler' = toScheduler /\ lookup' = lookup
      /\ buffers' = buffers /\ events' = events /\ shortLoads' = shortLoads
  BY DEF AL!vars, AL!schedVars, AL!clientVars, AL!workerVars
<1>2. LookupTypes' /\ (UsedRight' <=> UsedRight) /\ (AL!LoadDelivers' <=> AL!LoadDelivers)
  BY <1>1 DEF LookupInv, LookupTypes, UsedRight, AL!AllUsed, AL!LoadDelivers
<1>3. /\ \A r \in Reqs :
            /\ Counted(r)' = Counted(r) /\ (Complete(r)' <=> Complete(r))
            /\ Current(r)' = Current(r)
      /\ \A r \in Reqs, w \in Workers : Hits(w, r)' = Hits(w, r)
      /\ \A w \in Workers : SentRight(w) => SentRight(w)'
      /\ \A w \in Workers : LookupsRight(w) => LookupsRight(w)'
  BY <1>1, WorkersSame
<1>4. ASSUME NEW r \in Reqs PROVE RequestRight(r)' /\ StatusRight(r)' /\ AnswersRight(r)'
  <2>1. RequestRight(r) /\ StatusRight(r) /\ AnswersRight(r)
    BY SchedulerTypes
  <2>2. StatusRight(r)' /\ AnswersRight(r)'
    BY <1>1, <1>3, <2>1, AnswersSame
  <2> QED BY <1>1, <2>1, <2>2 DEF RequestRight
<1>5. ASSUME NEW w \in Workers PROVE CallsRight(w)'
  <2>1. CallsRight(w) /\ toWorker[w] \in Seq(CallType)
    BY DEF LookupInv, LookupTypes
  <2>2. ASSUME NEW c \in CallType, CallRight(w, c) PROVE CallRight(w, c)'
    <3>1. c.req \in Reqs
      BY DEF CallType
    <3> QED BY <1>1, <1>3, <2>2, <3>1 DEF CallRight
  <2>3. \A i \in 1..Len(toWorker[w]) : toWorker[w][i] \in CallType
    BY <2>1
  <2> QED BY <1>1, <2>1, <2>2, <2>3 DEF CallsRight
<1>6. ASSUME NEW w \in Workers, NEW r \in Reqs PROVE EventRight(w, r)'
  <2>1. EventRight(w, r)
    BY SchedulerTypes
  <2> QED BY <1>1, <1>3, <2>1 DEF EventRight
<1> QED BY <1>2, <1>3, <1>4, <1>5, <1>6 DEF LookupInv

\* LookupInv is inductive: every step of a lookup keeps it.
LEMMA LookupKeeps ==
    ASSUME LookupInv, TimedOutOnce, [AL!Next]_(AL!vars)
    PROVE  LookupInv'
<1>1. CASE \E r \in Reqs : AL!FirstLookup(r)
  BY <1>1, FirstLookupKeeps
<1>2. CASE \E r \in Reqs, s \in BOOLEAN : \E c \in 0..reqsStatus[r] : AL!PollHit(r, c, s)
  BY <1>2, PollKeeps
<1>3. CASE \E r \in Reqs : AL!PollOngoing(r)
  BY <1>3, PollKeeps, Zenon
<1>4. CASE \E r \in Reqs, s \in BOOLEAN : AL!PollTimeout(r, s)
  BY <1>4, PollKeeps
<1>5. CASE \E r \in Reqs : AL!PollRaises(r)
  BY <1>5, PollKeeps, Zenon
<1>6. CASE \E r \in Reqs : AL!TimeoutPasses(r)
  BY <1>6, TimeoutKeeps
<1>7. CASE \E r \in Reqs, how \in {"finished", "aborted"} : AL!Leave(r, how)
  BY <1>7, LeaveKeeps
<1>8. CASE \E r \in Reqs : AL!Preempt(r)
  BY <1>8, PreemptKeeps
<1>9. CASE \E w \in Workers : AL!RecvLookup(w)
  BY <1>9, RecvLookupKeeps
<1>10. CASE \E w \in Workers : AL!RecvCleanup(w)
  BY <1>10, RecvCleanupKeeps
<1>11. CASE \E w \in Workers, l \in AL!LookupIds, p \in use.plans : AL!LookupTiers(w, l, p)
  BY <1>11, TiersKeeps
<1>12. CASE \E w \in Workers, l \in AL!LookupIds, a \in AL!Actuals : AL!LoadDone(w, l, a)
  BY <1>12, LoadKeeps
<1>13. CASE \E w \in Workers, l \in AL!LookupIds : AL!LoadFail(w, l)
  BY <1>13, LoadKeeps
<1>14. CASE \E w \in Workers, l \in AL!LookupIds : AL!PrefetchAllDone(w, l)
  BY <1>14, DoneKeeps
<1>15. CASE \E w \in Workers : AL!ProcessResponse(w)
  BY <1>15, ResponseKeeps
<1>16. CASE \E w \in Workers, r \in Reqs : AL!Retrieve(w, r)
  BY <1>16, RetrieveKeeps
<1>17. CASE UNCHANGED AL!vars
  BY <1>17, LookupStutters
<1> QED
  BY <1>1, <1>2, <1>3, <1>4, <1>5, <1>6, <1>7, <1>8, <1>9, <1>10, <1>11, <1>12, <1>13, <1>14,
     <1>15, <1>16, <1>17 DEF AL!Next

\* The invariant of the asynchronous lookup: one lookup of a request is current
\* at a time, its answers are counted once for each worker, and its buffers
\* belong to its event.
THEOREM LookupInvariant == TimedOutOnce => (AL!Spec => []LookupInv)
<1> SUFFICES ASSUME TimedOutOnce PROVE AL!Spec => []LookupInv
  OBVIOUS
<1>1. AL!Init => LookupInv
  BY LookupInit
<1>2. LookupInv /\ [AL!Next]_(AL!vars) => LookupInv'
  BY LookupKeeps
<1> QED BY <1>1, <1>2, PTL DEF AL!Spec

\* What the invariant says of the prefetched buffers.
LEMMA LookupIsSafe ==
    ASSUME LookupInv
    PROVE  AL!LookupSafe
<1>1. \A w \in Workers, r \in Reqs : Complete(r) =>
         attempt[r] > 0 /\ lookup[w][Current(r)].phase = "over" /\ events[w][r].status # "ONGOING"
  <2> SUFFICES ASSUME NEW w \in Workers, NEW r \in Reqs, Complete(r)
               PROVE  /\ attempt[r] > 0 /\ lookup[w][Current(r)].phase = "over"
                      /\ events[w][r].status # "ONGOING"
    OBVIOUS
  <2>1. attempt[r] > 0 /\ lookup[w][Current(r)].phase = "over"
    BY DEF Complete, Counted, Over
  <2> QED BY <2>1, SchedulerTypes DEF EventRight
<1>2. AL!TypeOK
  <2>1. ASSUME NEW r \in Reqs PROVE Len(resForEachWorker[r]) < AL!Cardinality(Workers)
    <3>1. AnswersRight(r) /\ resForEachWorker[r] \in Seq(Nat)
      BY SchedulerTypes
    <3>2. /\ IsFiniteSet(Workers) /\ Cardinality(Workers) \in Nat /\ Cardinality(Workers) # 0
      BY LookupAssumption, FS_CardinalityType, FS_EmptySet
    <3>3. CASE Complete(r)
      <4>1. Len(resForEachWorker[r]) = 0
        BY <3>1, <3>3, EmptySeq DEF AnswersRight
      <4> QED BY <3>2, <4>1, SameCount
    <3>4. CASE ~Complete(r)
      <4>1. Counted(r) \subseteq Workers /\ Counted(r) # Workers
        BY <3>4 DEF Counted, Complete
      <4>2. Cardinality(Counted(r)) < Cardinality(Workers)
        BY ONLY <3>2, <4>1, FS_Subset, FS_CardinalityType
      <4> QED BY <3>1, <3>4, <4>2, SameCount DEF AnswersRight
    <3> QED BY <3>3, <3>4
  <2> QED BY <2>1 DEF AL!TypeOK, LookupInv, LookupTypes, EventType
<1>3. AL!CleanupAfterDone
  <2> SUFFICES ASSUME NEW w \in Workers, NEW i \in 1..Len(toWorker[w]),
                      toWorker[w][i].type = "cleanup"
               PROVE  events[w][toWorker[w][i].req].status # "ONGOING"
    BY DEF AL!CleanupAfterDone
  <2>1. CallsRight(w) /\ toWorker[w] \in Seq(CallType)
    BY DEF LookupInv, LookupTypes
  <2>2. PICK m \in CallType : m = toWorker[w][i]
    BY <2>1
  <2>3. m.req \in Reqs /\ Complete(m.req)
    BY <2>1, <2>2 DEF CallsRight, CallRight, CallType
  <2> QED BY <1>1, <2>2, <2>3
<1>4. AL!BuffersOwned
  <2> SUFFICES ASSUME NEW w \in Workers, NEW r \in Reqs, buffers[w][<<r, 1>>] > 0,
                      attempt[r] = 1, req[r] # "aborted"
               PROVE  events[w][r].status # "NOT_FOUND"
    BY DEF AL!BuffersOwned
  <2>1. Current(r) = <<r, 1>>
    BY DEF Current
  <2> QED BY <2>1, SchedulerTypes DEF EventRight
<1>5. AL!NothingLeft
  <2> SUFFICES ASSUME AL!AllUsed, \A r \in use.reqs : req[r] = "finished",
                      NEW w \in Workers, NEW l \in AL!LookupIds
               PROVE  buffers[w][l] = 0
    BY DEF AL!NothingLeft
  <2>1. PICK r \in Reqs, a \in 1..MaxAttempts : l = <<r, a>>
    BY DEF AL!LookupIds
  <2>2. buffers[w][l] \in Nat
    BY DEF LookupInv, LookupTypes
  <2>3. ASSUME buffers[w][l] > 0 PROVE FALSE
    <3>1. /\ a = attempt[r]
          /\ req[r] = "waiting" \/ toLoad[r] # {}
      BY <2>1, <2>3 DEF LookupInv, UsedRight
    <3>2. req[r] # "finished" /\ (attempt[r] > 0 => r \in use.reqs)
      BY <3>1, SchedulerTypes DEF RequestRight
    <3> QED BY <3>1, <3>2
  <2> QED BY <2>2, <2>3
<1> QED BY <1>2, <1>3, <1>4, <1>5 DEF AL!LookupSafe, LookupInv

\* lmcache_async_lookup_client.py and storage_manager.py: a scheduled request
\* finds on every worker what its lookup promised, a cleanup never meets a
\* loading one, and prefetched buffers keep an owner and are given back, for any
\* requests, workers and plans.  A request is looked up once where its lookup
\* may time out: the run lookup_retry shows what happens otherwise.
THEOREM LookupsSafe == TimedOutOnce => (AL!Spec => []LookupSafe)
<1>1. LookupInv => LookupSafe
  BY LookupIsSafe DEF LookupSafe
<1> QED BY <1>1, LookupInvariant, PTL
=============================================================================
