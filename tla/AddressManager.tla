--------------------------- MODULE AddressManager ---------------------------
(***************************************************************************)
(* The explicit free list behind every CPU-side tensor buffer of LMCache:  *)
(* class AddressManager (memory_management.py), used by                    *)
(* TensorMemoryAllocator.allocate / batched_allocate / free / batched_free *)
(* and grown by the expansion thread of LazyMixedMemoryAllocator.          *)
(*                                                                         *)
(* One step is one critical section of AddressManager._lock.  free() of a  *)
(* single object runs on whichever thread drops the last reference; a      *)
(* batched_free first coalesces its objects (private work, one step per    *)
(* object) and then releases the coalesced blocks one by one, so that      *)
(* frees and expansions of other threads fall between two of its blocks.   *)
(* MixedMemoryAllocator serialises allocate, batched_allocate and          *)
(* batched_free with host_mem_lock; free() through a reference count and   *)
(* sbrk() do not take that lock.                                           *)
(*                                                                         *)
(* The caller's contract is that an object handed to batched_free is not   *)
(* released through its reference count by another thread meanwhile.       *)
(***************************************************************************)
EXTENDS Integers, FiniteSets, FiniteSetsExt

CONSTANTS
    Objs,        \* identities of TensorMemoryObj, reused once invalidated
    InitSize,    \* size of the initial address space
    Align,       \* align_bytes
    RawSizes,    \* byte sizes callers ask for
    MaxHeap,     \* bound on the address space sbrk may reach
    MaxBatch     \* bound on batch_size

ASSUME SizeAssumption == InitSize \in Nat \ {0} /\ MaxHeap \in Nat
ASSUME AlignAssumption == Align \in Nat \ {0}
ASSUME RawAssumption == RawSizes \subseteq Nat \ {0}
ASSUME BatchAssumption == MaxBatch \in Nat \ {0}

VARIABLES
    explicitList,      \* _explicit_list: sorted by start, hence a set
    size,              \* _size
    totalAllocated,    \* total_allocated_size
    region,            \* meta.address and meta.phy_size of each object
    valid,             \* the objects whose is_valid() is true
    batchTodo,         \* objects a running batched_free has yet to scan
    currBlock,         \* its curr_start and curr_size
    coalescedBlocks    \* its coalesced_blocks not yet released

vars == <<explicitList, size, totalAllocated, region, valid,
          batchTodo, currBlock, coalescedBlocks>>

Block == [start: Nat, size: Nat]
FreeBlock(s, n) == [start |-> s, size |-> n]
NoBlock == FreeBlock(0, 0)                 \* curr_start is None
End(b) == b.start + b.size

AlignedSize(raw) == ((raw + Align - 1) \div Align) * Align

CanBeCoalesced(a, b) == End(a) = b.start

Init ==
    /\ explicitList = {FreeBlock(0, InitSize)}
    /\ size = InitSize
    /\ totalAllocated = 0
    /\ region = [o \in Objs |-> NoBlock]
    /\ valid = {}
    /\ batchTodo = {}
    /\ currBlock = NoBlock
    /\ coalescedBlocks = {}

Batching == batchTodo # {} \/ currBlock # NoBlock \/ coalescedBlocks # {}

-----------------------------------------------------------------------------
(* allocate *)

\* The block the scan of allocate stops at: the first one large enough.
FirstFit(b, n) ==
    /\ b \in explicitList
    /\ b.size >= n
    /\ \A c \in explicitList : c.size >= n => b.start <= c.start

\* Mutants: the remainder is computed with its operands swapped; the remainder
\* starts where the block started.
CarveSwapped(b, n) ==
    (explicitList \ {b}) \cup
        (IF b.size > n THEN {FreeBlock(b.start + n, n - b.size)} ELSE {})
CarveNotAdvanced(b, n) ==
    (explicitList \ {b}) \cup
        (IF b.size > n THEN {FreeBlock(b.start, b.size - n)} ELSE {})

\* The list after n bytes are cut from the front of block b.
Carve(b, n) ==
    (explicitList \ {b}) \cup
        (IF b.size > n THEN {FreeBlock(b.start + n, b.size - n)} ELSE {})

Allocate(o, raw) ==
    LET n == AlignedSize(raw) IN
    /\ ~Batching
    /\ o \notin valid
    /\ \E b \in explicitList :
          /\ FirstFit(b, n)
          /\ explicitList' = Carve(b, n)
          /\ region' = [region EXCEPT ![o] = FreeBlock(b.start, n)]
    /\ valid' = valid \cup {o}
    /\ totalAllocated' = totalAllocated + n
    /\ UNCHANGED <<size, batchTodo, currBlock, coalescedBlocks>>

\* objs[i] receives the i-th unit of one contiguous block.
BatchedAllocate(k, objs, raw) ==
    LET unit == AlignedSize(raw) IN
    /\ ~Batching
    /\ \A i \in 0..(k-1) : objs[i] \notin valid
    /\ \A i, j \in 0..(k-1) : i # j => objs[i] # objs[j]
    /\ \E b \in explicitList :
          /\ FirstFit(b, unit * k)
          /\ explicitList' = Carve(b, unit * k)
          /\ region' = [o \in Objs |->
                          IF \E i \in 0..(k-1) : objs[i] = o
                          THEN FreeBlock(b.start +
                                  unit * (CHOOSE i \in 0..(k-1) : objs[i] = o), unit)
                          ELSE region[o]]
    /\ valid' = valid \cup {objs[i] : i \in 0..(k-1)}
    /\ totalAllocated' = totalAllocated + unit * k
    /\ UNCHANGED <<size, batchTodo, currBlock, coalescedBlocks>>

-----------------------------------------------------------------------------
(* free *)

\* bisect_left: the neighbours of an address in the sorted list.
IsPrev(b, addr) ==
    /\ b \in explicitList
    /\ b.start < addr
    /\ \A c \in explicitList : c.start < addr => c.start <= b.start
IsSucc(b, addr) ==
    /\ b \in explicitList
    /\ b.start >= addr
    /\ \A c \in explicitList : c.start >= addr => b.start <= c.start

\* Mutants: _coalesce forgets one side.
MergePrevForgotten(blk) == {}
MergeSuccForgotten(blk) == {}

\* The neighbours that _coalesce merges the block with: none, one or both.
MergePrev(blk) == {p \in explicitList : IsPrev(p, blk.start) /\ CanBeCoalesced(p, blk)}
MergeSucc(blk) == {s \in explicitList : IsSucc(s, blk.start) /\ CanBeCoalesced(blk, s)}

\* _explicit_list after blk is merged with mp and ms, or added on its own.
Coalesced(blk, mp, ms) ==
    LET low  == IF mp = {} THEN blk.start ELSE (CHOOSE p \in mp : TRUE).start
        high == IF ms = {} THEN End(blk) ELSE End(CHOOSE s \in ms : TRUE)
    IN  (explicitList \ (mp \cup ms)) \cup {FreeBlock(low, high - low)}

\* AddressManager.free(address, size).
AddressFree(blk) ==
    /\ explicitList' = Coalesced(blk, MergePrev(blk), MergeSucc(blk))
    /\ totalAllocated' = totalAllocated - blk.size

\* TensorMemoryAllocator.free: the last reference of o is dropped.
Free(o) ==
    /\ o \in valid
    /\ o \notin batchTodo
    /\ AddressFree(region[o])
    /\ valid' = valid \ {o}
    /\ UNCHANGED <<size, region, batchTodo, currBlock, coalescedBlocks>>

-----------------------------------------------------------------------------
(* batched_free *)

BatchedFreeBegin(os) ==
    /\ ~Batching
    /\ batchTodo' = os
    /\ UNCHANGED <<explicitList, size, totalAllocated, region, valid,
                   currBlock, coalescedBlocks>>

\* Mutant: a non-adjacent object replaces the current block, which is not
\* appended to coalesced_blocks first.
BatchedFreeScanDropsCurrent(o) ==
    /\ o \in batchTodo
    /\ \A p \in batchTodo : region[o].start <= region[p].start
    /\ batchTodo' = batchTodo \ {o}
    /\ valid' = valid \ {o}
    /\ currBlock' = IF o \notin valid THEN currBlock
                    ELSE IF CanBeCoalesced(currBlock, region[o])
                    THEN FreeBlock(currBlock.start, currBlock.size + region[o].size)
                    ELSE region[o]
    /\ UNCHANGED <<explicitList, size, totalAllocated, region, coalescedBlocks>>

\* One iteration of the loop over the objects sorted by address.
BatchedFreeScan(o) ==
    /\ o \in batchTodo
    /\ \A p \in batchTodo : region[o].start <= region[p].start
    /\ batchTodo' = batchTodo \ {o}
    /\ valid' = valid \ {o}
    /\ \/ /\ o \notin valid
          /\ UNCHANGED <<currBlock, coalescedBlocks>>
       \/ /\ o \in valid /\ currBlock = NoBlock
          /\ currBlock' = region[o]
          /\ UNCHANGED coalescedBlocks
       \/ /\ o \in valid /\ currBlock # NoBlock
          /\ CanBeCoalesced(currBlock, region[o])
          /\ currBlock' = FreeBlock(currBlock.start, currBlock.size + region[o].size)
          /\ UNCHANGED coalescedBlocks
       \/ /\ o \in valid /\ currBlock # NoBlock
          /\ ~CanBeCoalesced(currBlock, region[o])
          /\ currBlock' = region[o]
          /\ coalescedBlocks' = coalescedBlocks \cup {currBlock}
    /\ UNCHANGED <<explicitList, size, totalAllocated, region>>

BatchedFreeScanned ==
    /\ batchTodo = {}
    /\ currBlock # NoBlock
    /\ coalescedBlocks' = coalescedBlocks \cup {currBlock}
    /\ currBlock' = NoBlock
    /\ UNCHANGED <<explicitList, size, totalAllocated, region, valid, batchTodo>>

BatchedFreeRelease(b) ==
    /\ batchTodo = {} /\ currBlock = NoBlock
    /\ b \in coalescedBlocks
    /\ \A c \in coalescedBlocks : b.start <= c.start
    /\ AddressFree(b)
    /\ coalescedBlocks' = coalescedBlocks \ {b}
    /\ UNCHANGED <<size, region, valid, batchTodo, currBlock>>

-----------------------------------------------------------------------------
(* sbrk *)

IsLast(b) == b \in explicitList /\ \A c \in explicitList : c.start <= b.start

\* Mutant: the size of the address space is not updated.
SbrkSizeKept(raw) ==
    LET n   == AlignedSize(raw)
        blk == FreeBlock(size, n)
    IN  /\ size + n <= MaxHeap
        /\ explicitList' =
              Coalesced(blk, {p \in explicitList : IsLast(p) /\ CanBeCoalesced(p, blk)}, {})
        /\ UNCHANGED <<size, totalAllocated, region, valid, batchTodo, currBlock, coalescedBlocks>>

\* sbrk has no successor and merges only with the last free block.
Sbrk(raw) ==
    LET n   == AlignedSize(raw)
        blk == FreeBlock(size, n)
    IN  /\ size + n <= MaxHeap
        /\ explicitList' =
              Coalesced(blk, {p \in explicitList : IsLast(p) /\ CanBeCoalesced(p, blk)}, {})
        /\ size' = size + n
        /\ UNCHANGED <<totalAllocated, region, valid, batchTodo, currBlock, coalescedBlocks>>

-----------------------------------------------------------------------------
Next ==
    \/ \E o \in Objs, raw \in RawSizes : Allocate(o, raw)
    \/ \E k \in 1..MaxBatch : \E objs \in [0..(k-1) -> Objs], raw \in RawSizes :
          BatchedAllocate(k, objs, raw)
    \/ \E o \in Objs : Free(o)
    \/ \E os \in SUBSET Objs : BatchedFreeBegin(os)
    \/ \E o \in Objs : BatchedFreeScan(o)
    \/ BatchedFreeScanned
    \/ \E b \in coalescedBlocks : BatchedFreeRelease(b)
    \/ \E raw \in RawSizes : Sbrk(raw)

Spec == Init /\ [][Next]_vars

-----------------------------------------------------------------------------
(* Properties *)

\* What a batched_free has taken from its objects and not yet released.
Pending == coalescedBlocks \cup (IF currBlock = NoBlock THEN {} ELSE {currBlock})

Disjoint(a, b) == End(a) <= b.start \/ End(b) <= a.start
Covers(b, a) == b.start <= a /\ a < End(b)

\* Every variable of the allocator has its type.
TypeOK ==
    /\ explicitList \subseteq Block
    /\ size \in Nat
    /\ totalAllocated \in Int
    /\ region \in [Objs -> Block]
    /\ valid \subseteq Objs
    /\ batchTodo \subseteq Objs
    /\ currBlock \in Block
    /\ coalescedBlocks \subseteq Block

\* Every free, allocated or pending block is non-empty and inside the heap,
\* so every buffer slice an object is given lies inside the buffer.
InHeap ==
    /\ \A b \in explicitList : b.size > 0 /\ End(b) <= size
    /\ \A o \in valid : region[o].size > 0 /\ End(region[o]) <= size
    /\ \A b \in Pending : b.size > 0 /\ End(b) <= size

\* No byte belongs to two live tensors, or to a live tensor and to the free
\* list, or to a block that a batched_free is still holding: whatever frees,
\* batches and expansions interleave, two MemoryObjs never alias.
NoOverlap ==
    /\ \A o, p \in valid : o # p => Disjoint(region[o], region[p])
    /\ \A o \in valid : \A b \in explicitList \cup Pending : Disjoint(region[o], b)
    /\ \A b \in explicitList : \A c \in Pending : Disjoint(b, c)
    /\ \A b, c \in Pending : b # c => Disjoint(b, c)
    /\ currBlock \notin coalescedBlocks

\* check_consistency, first half: two free blocks never touch, let alone
\* overlap; a free that missed a neighbour would fragment the heap for good.
FullyCoalesced ==
    \A b, c \in explicitList : b # c => End(b) < c.start \/ End(c) < b.start

\* check_consistency, second half: the bytes of the free list and the
\* counter of allocated bytes add up to the address space.
BytesOf(blocks) == MapThenSumSet(LAMBDA b : b.size, blocks)
SizesAddUp == BytesOf(explicitList) + totalAllocated = size

\* No byte is ever lost: each address of the heap is free, in a live object
\* or pending in a batched_free, so everything can be allocated again.
NoLeak ==
    \A a \in 0..(size - 1) :
        \/ \E b \in explicitList \cup Pending : Covers(b, a)
        \/ \E o \in valid : Covers(region[o], a)

\* When allocate(n) raises "no memory is available" there really are no n
\* contiguous bytes outside live objects and pending batches.
FitsWhenRoom ==
    \A n \in 1..size :
        (\A b \in explicitList : b.size < n) =>
            \A lo \in 0..(size - n) :
                \E a \in lo..(lo + n - 1) :
                    \/ \E b \in Pending : Covers(b, a)
                    \/ \E o \in valid : Covers(region[o], a)

\* "The starting address and the actual allocated size will be aligned", even
\* when the initial size is not a multiple of align_bytes and the heap grows.
AlignedBlocks ==
    \A o \in valid : region[o].start % Align = 0 /\ region[o].size % Align = 0

\* The free list stays inside the heap, blocks are aligned and the counters of
\* AddressManager are the bytes that are allocated.
Accounted == InHeap /\ SizesAddUp /\ AlignedBlocks
=============================================================================
