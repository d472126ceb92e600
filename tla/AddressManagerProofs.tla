------------------------ MODULE AddressManagerProofs ------------------------
(***************************************************************************)
(* The geometry of the free list, for every heap size, alignment, set of   *)
(* objects and bound: blocks never overlap, never touch unmerged, and      *)
(* together cover the heap; hence an allocation fails only when there is   *)
(* no room.  The inductive invariant is the conjunction of the four        *)
(* geometric facts: none is inductive alone, because a freed block must    *)
(* be known to be disjoint from the list it is merged into.  On it rest    *)
(* the counters: the free bytes and the allocated ones add up to the size, *)
(* and every block in use starts and ends at a multiple of the alignment.  *)
(***************************************************************************)
EXTENDS AddressManager, DictionaryProofs

IInv == TypeOK /\ InHeap /\ NoOverlap /\ FullyCoalesced /\ NoLeak

USE SizeAssumption, AlignAssumption, RawAssumption, BatchAssumption

\* compute_aligned_size of a positive size is a positive size.
LEMMA AlignedSizePos ==
    ASSUME NEW raw \in RawSizes
    PROVE  AlignedSize(raw) \in Nat /\ AlignedSize(raw) > 0
<1>1. DEFINE q == (raw + Align - 1) \div Align
<1>2. q \in Int /\ q >= 1
  OBVIOUS
<1>3. q * Align >= 1 /\ q * Align \in Int
  BY <1>2
<1> QED BY <1>3 DEF AlignedSize

-----------------------------------------------------------------------------
(* Inserting a block into the free list *)

\* The list _coalesce works on: non-empty blocks with a gap between any two.
GoodList == /\ explicitList \subseteq Block
            /\ \A b \in explicitList : b.size > 0
            /\ FullyCoalesced

\* A block with its left and right merge candidates, none or one on a side.
MergeArgs(blk, mp, ms) ==
    /\ blk \in Block
    /\ blk.size > 0
    /\ \A b \in explicitList : Disjoint(b, blk)
    /\ mp = {p \in explicitList : End(p) = blk.start}
    /\ ms = {s \in explicitList : End(blk) = s.start}

\* With gaps between blocks, bisect_left finds every block that touches blk.
LEMMA MergeSetsExact ==
    ASSUME GoodList, NEW blk \in Block, blk.size > 0,
           \A b \in explicitList : Disjoint(b, blk)
    PROVE  MergeArgs(blk, MergePrev(blk), MergeSucc(blk))
<1>1. ASSUME NEW p \in explicitList, End(p) = blk.start
      PROVE  IsPrev(p, blk.start)
  BY <1>1 DEF GoodList, FullyCoalesced, Disjoint, End, Block, IsPrev
<1>2. ASSUME NEW s \in explicitList, End(blk) = s.start
      PROVE  IsSucc(s, blk.start)
  BY <1>2 DEF GoodList, FullyCoalesced, Disjoint, End, Block, IsSucc
<1>3. MergePrev(blk) = {p \in explicitList : End(p) = blk.start}
  BY <1>1 DEF MergePrev, CanBeCoalesced
<1>4. MergeSucc(blk) = {s \in explicitList : End(blk) = s.start}
  BY <1>2 DEF MergeSucc, CanBeCoalesced
<1> QED BY <1>3, <1>4 DEF MergeArgs

\* What _coalesce leaves: the merged block [low, high) in place of blk and
\* of the neighbours it was merged with.
LEMMA CoalescedShape ==
    ASSUME GoodList, NEW blk, NEW mp, NEW ms, MergeArgs(blk, mp, ms)
    PROVE  \E low, high \in Nat :
              /\ Coalesced(blk, mp, ms) =
                    (explicitList \ (mp \cup ms)) \cup {FreeBlock(low, high - low)}
              /\ \/ mp = {} /\ low = blk.start
                 \/ \E p \in explicitList : mp = {p} /\ low = p.start /\ End(p) = blk.start
              /\ \/ ms = {} /\ high = End(blk)
                 \/ \E s \in explicitList : ms = {s} /\ high = End(s) /\ End(blk) = s.start
<1> DEFINE lo == IF mp = {} THEN blk.start ELSE (CHOOSE p \in mp : TRUE).start
           hi == IF ms = {} THEN End(blk) ELSE End(CHOOSE s \in ms : TRUE)
<1>1. \/ mp = {} /\ lo = blk.start
      \/ \E p \in explicitList : mp = {p} /\ lo = p.start /\ End(p) = blk.start
  <2>1. CASE mp = {}
    BY <2>1
  <2>2. CASE mp # {}
    <3> DEFINE q == CHOOSE p \in mp : TRUE
    <3>1. q \in mp
      BY <2>2
    <3>. HIDE DEF q
    <3>2. q \in explicitList /\ End(q) = blk.start
      BY <3>1 DEF MergeArgs
    <3>3. \A p \in mp : p = q
      BY <3>2 DEF MergeArgs, GoodList, FullyCoalesced, End, Block
    <3>4. mp = {q}
      BY <3>1, <3>3
    <3> QED BY <2>2, <3>2, <3>4 DEF q
  <2> QED BY <2>1, <2>2
<1>2. \/ ms = {} /\ hi = End(blk)
      \/ \E s \in explicitList : ms = {s} /\ hi = End(s) /\ End(blk) = s.start
  <2>1. CASE ms = {}
    BY <2>1
  <2>2. CASE ms # {}
    <3> DEFINE q == CHOOSE s \in ms : TRUE
    <3>1. q \in ms
      BY <2>2
    <3>. HIDE DEF q
    <3>2. q \in explicitList /\ End(blk) = q.start
      BY <3>1 DEF MergeArgs
    <3>3. \A s \in ms : s = q
      BY <3>2 DEF MergeArgs, GoodList, FullyCoalesced, End, Block
    <3>4. ms = {q}
      BY <3>1, <3>3
    <3> QED BY <2>2, <3>2, <3>4 DEF q
  <2> QED BY <2>1, <2>2
<1>3. lo \in Nat
  BY <1>1 DEF MergeArgs, GoodList, Block
<1>4. hi \in Nat
  BY <1>2 DEF MergeArgs, GoodList, Block, End
<1>5. Coalesced(blk, mp, ms) = (explicitList \ (mp \cup ms)) \cup {FreeBlock(lo, hi - lo)}
  BY DEF Coalesced
<1> HIDE DEF lo, hi
<1> QED BY <1>1, <1>2, <1>3, <1>4, <1>5

\* Inserting a disjoint block keeps the list well formed, keeps it clear of
\* every block that was clear of both, and covers exactly their union.
LEMMA InsertBlock ==
    ASSUME GoodList, NEW blk, NEW mp, NEW ms, MergeArgs(blk, mp, ms),
           NEW L, L = Coalesced(blk, mp, ms)
    PROVE  /\ L \subseteq Block
           /\ \A b \in L : b.size > 0
           /\ \A b, c \in L : b # c => End(b) < c.start \/ End(c) < b.start
           /\ \A h \in Int : (End(blk) <= h /\ \A b \in explicitList : End(b) <= h)
                                => \A b \in L : End(b) <= h
           /\ \A c \in Block : (c.size > 0 /\ Disjoint(c, blk)
                                  /\ \A b \in explicitList : Disjoint(c, b))
                                => \A b \in L : Disjoint(c, b)
           /\ \A a \in Int : (Covers(blk, a) \/ \E b \in explicitList : Covers(b, a))
                                => \E b \in L : Covers(b, a)
<1>1. PICK low, high \in Nat :
              /\ L = (explicitList \ (mp \cup ms)) \cup {FreeBlock(low, high - low)}
              /\ \/ mp = {} /\ low = blk.start
                 \/ \E p \in explicitList : mp = {p} /\ low = p.start /\ End(p) = blk.start
              /\ \/ ms = {} /\ high = End(blk)
                 \/ \E s \in explicitList : ms = {s} /\ high = End(s) /\ End(blk) = s.start
  BY CoalescedShape
<1> DEFINE new == FreeBlock(low, high - low)
<1>2. /\ blk \in Block /\ blk.size > 0
      /\ low <= blk.start /\ End(blk) <= high
      /\ new \in Block /\ new.size > 0 /\ End(new) = high /\ new.start = low
  BY <1>1 DEF GoodList, MergeArgs, FreeBlock, Block, End
<1>3. \A b \in explicitList \ (mp \cup ms) : End(b) < low \/ high < b.start
  <2> TAKE b \in explicitList \ (mp \cup ms)
  <2>1. End(b) < blk.start \/ End(blk) < b.start
    BY DEF MergeArgs, Disjoint, GoodList, Block, End
  <2>2. CASE End(b) < blk.start
    <3>1. End(b) < low
      BY <1>1, <2>2 DEF GoodList, FullyCoalesced, End, Block, MergeArgs
    <3> QED BY <3>1
  <2>3. CASE End(blk) < b.start
    <3>1. high < b.start
      BY <1>1, <2>3 DEF GoodList, FullyCoalesced, End, Block, MergeArgs
    <3> QED BY <3>1
  <2> QED BY <2>1, <2>2, <2>3
<1>4. L \subseteq Block /\ \A b \in L : b.size > 0
  BY <1>1, <1>2 DEF GoodList
<1>5. \A b, c \in L : b # c => End(b) < c.start \/ End(c) < b.start
  BY <1>1, <1>2, <1>3 DEF GoodList, FullyCoalesced
<1>6. \A h \in Int : (End(blk) <= h /\ \A b \in explicitList : End(b) <= h)
                        => \A b \in L : End(b) <= h
  BY <1>1, <1>2
<1>7. \A c \in Block : (c.size > 0 /\ Disjoint(c, blk)
                          /\ \A b \in explicitList : Disjoint(c, b))
                        => \A b \in L : Disjoint(c, b)
  <2> SUFFICES ASSUME NEW c \in Block, c.size > 0, Disjoint(c, blk),
                      \A b \in explicitList : Disjoint(c, b)
               PROVE  Disjoint(c, new)
    BY <1>1
  <2>1. CASE End(c) <= blk.start
    <3>1. End(c) <= low
      BY <1>1, <1>2, <2>1 DEF Disjoint, End, Block, GoodList
    <3> QED BY <3>1, <1>2 DEF Disjoint
  <2>2. CASE End(blk) <= c.start
    <3>1. high <= c.start
      BY <1>1, <1>2, <2>2 DEF Disjoint, End, Block, GoodList
    <3> QED BY <3>1, <1>2 DEF Disjoint
  <2> QED BY <2>1, <2>2 DEF Disjoint
<1>8. \A a \in Int : (Covers(blk, a) \/ \E b \in explicitList : Covers(b, a))
                        => \E b \in L : Covers(b, a)
  <2> SUFFICES ASSUME NEW a \in Int, Covers(blk, a) \/ \E b \in explicitList : Covers(b, a)
               PROVE  \E b \in L : Covers(b, a)
    OBVIOUS
  <2>1. CASE Covers(blk, a)
    <3>1. Covers(new, a)
      BY <1>2, <2>1 DEF Covers, Block, End
    <3> QED BY <1>1, <3>1
  <2>2. CASE \E b \in explicitList : Covers(b, a)
    <3>1. PICK b \in explicitList : Covers(b, a)
      BY <2>2
    <3>2. CASE b \in mp \cup ms
      <4>1. Covers(new, a)
        BY <1>1, <1>2, <3>1, <3>2 DEF Covers, Block, End, GoodList
      <4> QED BY <1>1, <4>1
    <3>3. CASE b \notin mp \cup ms
      BY <1>1, <3>1, <3>3
    <3> QED BY <3>2, <3>3
  <2> QED BY <2>1, <2>2
<1> QED BY <1>4, <1>5, <1>6, <1>7, <1>8

-----------------------------------------------------------------------------
(* Cutting a block out of the free list *)

\* Carving n bytes keeps the list well formed; the carved block is clear of
\* what remains and of everything that was clear of the list.
LEMMA CarveBlock ==
    ASSUME GoodList, NEW n \in Nat, n > 0, NEW b \in explicitList, b.size >= n,
           NEW L, L = Carve(b, n), NEW blk, blk = FreeBlock(b.start, n)
    PROVE  /\ L \subseteq Block
           /\ blk \in Block /\ blk.size = n /\ blk.start = b.start /\ End(blk) <= End(b)
           /\ \A c \in L : c.size > 0
           /\ \A c, d \in L : c # d => End(c) < d.start \/ End(d) < c.start
           /\ \A h \in Int : (\A c \in explicitList : End(c) <= h) => \A c \in L : End(c) <= h
           /\ \A c \in L : Disjoint(blk, c)
           /\ \A c \in Block : (\A d \in explicitList : Disjoint(c, d))
                                => Disjoint(c, blk) /\ \A d \in L : Disjoint(c, d)
           /\ \A a \in Int : (\E c \in explicitList : Covers(c, a))
                                => Covers(blk, a) \/ \E c \in L : Covers(c, a)
<1> DEFINE rest == FreeBlock(b.start + n, b.size - n)
<1>1. b \in Block /\ b.size > 0
  BY DEF GoodList
<1>2. blk \in Block /\ blk.size = n /\ blk.start = b.start /\ End(blk) <= End(b)
  BY <1>1 DEF FreeBlock, Block, End
<1>3. rest \in Block /\ rest.start = b.start + n /\ rest.size = b.size - n /\ End(rest) = End(b)
  BY <1>1 DEF FreeBlock, Block, End
<1>4. \/ b.size > n /\ L = (explicitList \ {b}) \cup {rest}
      \/ b.size = n /\ L = explicitList \ {b}
  BY <1>1 DEF Carve, Block
<1> HIDE DEF rest
<1>5. L \subseteq Block /\ \A c \in L : c.size > 0
  BY <1>1, <1>3, <1>4 DEF GoodList, Block
<1>6. \A c, d \in L : c # d => End(c) < d.start \/ End(d) < c.start
  BY <1>1, <1>3, <1>4 DEF GoodList, FullyCoalesced, Block, End
<1>7. \A h \in Int : (\A c \in explicitList : End(c) <= h) => \A c \in L : End(c) <= h
  BY <1>3, <1>4
<1>8. \A c \in L : Disjoint(blk, c)
  <2> TAKE c \in L
  <2>1. CASE c = rest
    BY <2>1, <1>2, <1>3 DEF Disjoint, End, Block
  <2>2. CASE c \in explicitList \ {b}
    BY <2>2, <1>1, <1>2 DEF Disjoint, End, Block, GoodList, FullyCoalesced
  <2> QED BY <2>1, <2>2, <1>4
<1>9. \A c \in Block : (\A d \in explicitList : Disjoint(c, d))
                        => Disjoint(c, blk) /\ \A d \in L : Disjoint(c, d)
  <2> SUFFICES ASSUME NEW c \in Block, \A d \in explicitList : Disjoint(c, d)
               PROVE  Disjoint(c, blk) /\ Disjoint(c, rest)
    BY <1>4
  <2> QED BY <1>1, <1>2, <1>3 DEF Disjoint, End, Block
<1>10. \A a \in Int : (\E c \in explicitList : Covers(c, a))
                        => Covers(blk, a) \/ \E c \in L : Covers(c, a)
  <2> SUFFICES ASSUME NEW a \in Int, NEW c \in explicitList, Covers(c, a), ~Covers(blk, a)
               PROVE  \E d \in L : Covers(d, a)
    OBVIOUS
  <2>1. CASE c = b
    <3>1. Covers(rest, a) /\ b.size > n
      BY <2>1, <1>1, <1>2, <1>3 DEF Covers, End, Block
    <3> QED BY <3>1, <1>4
  <2>2. CASE c # b
    BY <2>2, <1>4
  <2> QED BY <2>1, <2>2
<1> QED BY <1>2, <1>5, <1>6, <1>7, <1>8, <1>9, <1>10

\* Units of one block: in order, apart from each other, and covering it.
LEMMA Units ==
    ASSUME NEW u \in Nat, u > 0, NEW k \in Nat
    PROVE  /\ \A i \in 0..(k-1) : u * i \in Nat /\ u * i + u <= u * k
           /\ \A i, j \in 0..(k-1) : i < j => u * i + u <= u * j
           /\ \A x \in Nat : x < u * k => \E i \in 0..(k-1) : u * i <= x /\ x < u * i + u
<1>1. \A i, j \in Nat : i < j => u * i + u <= u * j
  <2> TAKE i, j \in Nat
  <2> HAVE i < j
  <2>1. u * j = u * i + u * (j - i) /\ u * (j - i) >= u
    OBVIOUS
  <2> QED BY <2>1
<1>2. \A i \in Nat : u * i \in Nat
  OBVIOUS
<1>3. ASSUME NEW x \in Nat, x < u * k
      PROVE  \E i \in 0..(k-1) : u * i <= x /\ x < u * i + u
  <2> DEFINE i == x \div u
  <2>1. i \in Nat /\ u * i <= x /\ x < u * i + u
    OBVIOUS
  <2>2. i < k
    <3>1. SUFFICES ASSUME i >= k PROVE FALSE
      BY <2>1
    <3>2. u * k <= u * i
      BY <3>1, <2>1, <1>1
    <3> QED BY <3>2, <2>1, <1>2, <1>3
  <2>3. i \in 0..(k-1)
    BY <2>1, <2>2
  <2> HIDE DEF i
  <2> QED BY <2>1, <2>3
<1> QED BY <1>1, <1>2, <1>3

-----------------------------------------------------------------------------
(* The inductive step, one lemma per operation *)

\* The invariant makes every block in play a block.
LEMMA IInvFacts ==
    ASSUME IInv
    PROVE  /\ GoodList
           /\ \A o \in valid : region[o] \in Block
           /\ Pending \subseteq Block
BY DEF IInv, TypeOK, InHeap, GoodList, Pending

\* allocate carves one block and hands it to the new object.
LEMMA AllocateStep ==
    ASSUME IInv, NEW o \in Objs, NEW raw \in RawSizes, Allocate(o, raw)
    PROVE  IInv'
<1> DEFINE n == AlignedSize(raw)
<1>0. n \in Nat /\ n > 0
  BY AlignedSizePos
<1> HIDE DEF n
<1>1. PICK b \in explicitList :
         /\ b.size >= n
         /\ explicitList' = Carve(b, n)
         /\ region' = [region EXCEPT ![o] = FreeBlock(b.start, n)]
  BY DEF Allocate, FirstFit, n
<1>2. /\ o \notin valid /\ valid' = valid \cup {o}
      /\ totalAllocated' = totalAllocated + n
      /\ UNCHANGED <<size, batchTodo, currBlock, coalescedBlocks>>
  BY DEF Allocate, n
<1> DEFINE blk == FreeBlock(b.start, n)
<1>3. Pending' = Pending
  BY <1>2 DEF Pending
<1>4. region' \in [Objs -> Block] /\ region'[o] = blk /\ \A p \in valid : region'[p] = region[p]
  BY <1>0, <1>1, <1>2, IInvFacts DEF IInv, TypeOK, FreeBlock, Block, GoodList
<1>5. /\ explicitList' \subseteq Block
      /\ blk \in Block /\ blk.size = n /\ End(blk) <= End(b)
      /\ \A c \in explicitList' : c.size > 0
      /\ \A c, d \in explicitList' : c # d => End(c) < d.start \/ End(d) < c.start
      /\ \A h \in Int : (\A c \in explicitList : End(c) <= h)
                            => \A c \in explicitList' : End(c) <= h
      /\ \A c \in explicitList' : Disjoint(blk, c)
      /\ \A c \in Block : (\A d \in explicitList : Disjoint(c, d))
                            => Disjoint(c, blk) /\ \A d \in explicitList' : Disjoint(c, d)
      /\ \A a \in Int : (\E c \in explicitList : Covers(c, a))
                            => Covers(blk, a) \/ \E c \in explicitList' : Covers(c, a)
  BY <1>0, <1>1, IInvFacts, CarveBlock
<1> HIDE DEF blk
<1>6. TypeOK'
  BY <1>0, <1>2, <1>4, <1>5 DEF IInv, TypeOK
<1>7. InHeap'
  <2>1. \A c \in explicitList' : c.size > 0 /\ End(c) <= size'
    BY <1>2, <1>5 DEF IInv, InHeap, TypeOK
  <2>2. blk.size > 0 /\ End(blk) <= size
    BY <1>0, <1>5, IInvFacts DEF IInv, InHeap, GoodList, End, Block, TypeOK
  <2>3. \A p \in valid' : region'[p].size > 0 /\ End(region'[p]) <= size'
    BY <1>2, <1>4, <2>2 DEF IInv, InHeap
  <2> QED BY <1>2, <1>3, <2>1, <2>3 DEF IInv, InHeap
<1>8. NoOverlap'
  <2>1. \A p \in valid : Disjoint(region[p], blk) /\ \A d \in explicitList' : Disjoint(region[p], d)
    BY <1>5, IInvFacts DEF IInv, NoOverlap
  <2>2. \A c \in Pending : Disjoint(c, blk) /\ \A d \in explicitList' : Disjoint(c, d)
    BY <1>5, IInvFacts DEF IInv, NoOverlap, Disjoint
  <2>3. \A p, q \in valid' : p # q => Disjoint(region'[p], region'[q])
    BY <1>2, <1>4, <2>1 DEF IInv, NoOverlap, Disjoint
  <2>4. \A p \in valid' : \A c \in explicitList' \cup Pending' : Disjoint(region'[p], c)
    BY <1>2, <1>3, <1>4, <1>5, <2>1, <2>2 DEF IInv, NoOverlap, Disjoint
  <2>5. \A c \in explicitList' : \A d \in Pending' : Disjoint(c, d)
    BY <1>3, <2>2 DEF Disjoint
  <2> QED BY <1>2, <1>3, <2>3, <2>4, <2>5 DEF IInv, NoOverlap
<1>9. FullyCoalesced'
  BY <1>5 DEF FullyCoalesced
<1>10. NoLeak'
  BY <1>2, <1>3, <1>4, <1>5 DEF IInv, NoLeak
<1> QED BY <1>6, <1>7, <1>8, <1>9, <1>10 DEF IInv

\* batched_allocate carves one block and hands each object one unit of it.
LEMMA BatchedAllocateStep ==
    ASSUME IInv, NEW k \in 1..MaxBatch, NEW objs \in [0..(k-1) -> Objs],
           NEW raw \in RawSizes, BatchedAllocate(k, objs, raw)
    PROVE  IInv'
<1> DEFINE u == AlignedSize(raw)
<1>0. u \in Nat /\ u > 0 /\ k \in Nat
  BY AlignedSizePos
<1> DEFINE n == u * k
           Dom == 0..(k-1)
           Idx(o) == CHOOSE i \in Dom : objs[i] = o
           New == {objs[i] : i \in Dom}
<1> HIDE DEF u
<1>00. /\ \A i \in Dom : u * i \in Nat /\ u * i + u <= n
       /\ \A i, j \in Dom : i < j => u * i + u <= u * j
       /\ \A x \in Nat : x < n => \E i \in Dom : u * i <= x /\ x < u * i + u
       /\ n \in Nat /\ n > 0
  <2>1. n \in Nat /\ n > 0
    BY <1>0
  <2>2. /\ \A i \in 0..(k-1) : u * i \in Nat /\ u * i + u <= u * k
        /\ \A i, j \in 0..(k-1) : i < j => u * i + u <= u * j
        /\ \A x \in Nat : x < u * k => \E i \in 0..(k-1) : u * i <= x /\ x < u * i + u
    BY <1>0, Units, Zenon
  <2> QED BY <2>1, <2>2, Zenon
<1>1. PICK b \in explicitList :
         /\ b.size >= n
         /\ explicitList' = Carve(b, n)
         /\ region' = [o \in Objs |->
                          IF \E i \in Dom : objs[i] = o
                          THEN FreeBlock(b.start + u * Idx(o), u)
                          ELSE region[o]]
  BY DEF BatchedAllocate, FirstFit, u
<1>2. /\ New \cap valid = {} /\ valid' = valid \cup New
      /\ \A i, j \in Dom : i # j => objs[i] # objs[j]
      /\ totalAllocated' = totalAllocated + n
      /\ UNCHANGED <<size, batchTodo, currBlock, coalescedBlocks>>
  BY DEF BatchedAllocate, u
<1> DEFINE blk == FreeBlock(b.start, n)
           Unit(i) == FreeBlock(b.start + u * i, u)
<1>3. Pending' = Pending
  BY <1>2 DEF Pending
<1>b. b \in Block
  BY IInvFacts DEF GoodList
<1>5. /\ explicitList' \subseteq Block
      /\ blk \in Block /\ blk.size = n /\ blk.start = b.start /\ End(blk) <= End(b)
      /\ \A c \in explicitList' : c.size > 0
      /\ \A c, d \in explicitList' : c # d => End(c) < d.start \/ End(d) < c.start
      /\ \A h \in Int : (\A c \in explicitList : End(c) <= h)
                            => \A c \in explicitList' : End(c) <= h
      /\ \A c \in explicitList' : Disjoint(blk, c)
      /\ \A c \in Block : (\A d \in explicitList : Disjoint(c, d))
                            => Disjoint(c, blk) /\ \A d \in explicitList' : Disjoint(c, d)
      /\ \A a \in Int : (\E c \in explicitList : Covers(c, a))
                            => Covers(blk, a) \/ \E c \in explicitList' : Covers(c, a)
  <2> HIDE DEF n, Dom
  <2> QED BY <1>00, <1>1, IInvFacts, CarveBlock
<1>4. /\ \A i \in Dom : region'[objs[i]] = Unit(i)
      /\ \A o \in valid : region'[o] = region[o]
  <2>1. ASSUME NEW i \in Dom PROVE region'[objs[i]] = Unit(i)
    <3>1. objs[i] \in Objs /\ \E j \in Dom : objs[j] = objs[i]
      OBVIOUS
    <3>2. Idx(objs[i]) \in Dom /\ objs[Idx(objs[i])] = objs[i]
      BY <3>1
    <3>3. Idx(objs[i]) = i
      BY <3>2, <1>2
    <3> QED BY <1>1, <3>1, <3>3
  <2>2. ASSUME NEW o \in valid PROVE region'[o] = region[o]
    <3>1. o \in Objs /\ ~ \E i \in Dom : objs[i] = o
      BY <1>2 DEF IInv, TypeOK
    <3> QED BY <1>1, <3>1
  <2> QED BY <2>1, <2>2
<1>u. \A i \in Dom : /\ Unit(i) \in Block /\ Unit(i).size = u
                     /\ Unit(i).start = b.start + u * i
                     /\ b.start <= Unit(i).start /\ End(Unit(i)) <= End(blk)
  <2> TAKE i \in Dom
  <2>1. u * i \in Nat /\ u * i + u <= n
    BY <1>00
  <2> HIDE DEF Dom, n
  <2> QED BY <2>1, <1>0, <1>00, <1>b, <1>5 DEF FreeBlock, Block, End
<1>ub. \A c \in Block : Disjoint(c, blk) => \A i \in Dom : Disjoint(c, Unit(i))
  <2> HIDE DEF Dom, n, blk, Unit
  <2> QED BY <1>u, <1>5, <1>b DEF Disjoint, Block, End
<1>uu. \A i, j \in Dom : i # j => Disjoint(Unit(i), Unit(j))
  <2>1. ASSUME NEW i \in Dom, NEW j \in Dom, i < j PROVE End(Unit(i)) <= Unit(j).start
    <3>1. u * i + u <= u * j /\ u * i \in Nat /\ u * j \in Nat
      BY <2>1, <1>00
    <3> HIDE DEF Dom, n, blk, Unit
    <3> QED BY <3>1, <1>u, <1>b, <1>0 DEF End, Block
  <2> QED BY <2>1 DEF Disjoint
<1>uc. \A a \in Int : Covers(blk, a) => \E i \in Dom : Covers(Unit(i), a)
  <2> SUFFICES ASSUME NEW a \in Int, Covers(blk, a) PROVE \E i \in Dom : Covers(Unit(i), a)
    OBVIOUS
  <2> HIDE DEF Dom, n, blk, Unit
  <2>1. a - b.start \in Nat /\ a - b.start < n
    BY <1>b, <1>5, <1>00 DEF Covers, End, Block
  <2>2. PICK i \in Dom : u * i <= a - b.start /\ a - b.start < u * i + u
    BY <2>1, <1>00
  <2>3. u * i \in Nat
    BY <1>00
  <2>4. Covers(Unit(i), a)
    BY <1>0, <2>2, <2>3, <1>u, <1>b DEF Covers, End, Block
  <2> QED BY <2>4
<1>v. \A o \in valid' : (o \in valid /\ region'[o] = region[o])
                            \/ \E i \in Dom : o = objs[i] /\ region'[o] = Unit(i)
  BY <1>2, <1>4
<1>r. region' \in [Objs -> Block]
  <2> SUFFICES ASSUME NEW o \in Objs PROVE region'[o] \in Block
    BY <1>1
  <2>1. CASE \E i \in Dom : objs[i] = o
    BY <2>1, <1>4, <1>u
  <2>2. CASE ~ \E i \in Dom : objs[i] = o
    BY <2>2, <1>1 DEF IInv, TypeOK
  <2> QED BY <2>1, <2>2
<1> HIDE DEF Dom, n, blk, Unit
<1>6. TypeOK'
  <2>1. New \subseteq Objs
    BY DEF Dom
  <2> QED BY <2>1, <1>00, <1>2, <1>r, <1>5 DEF IInv, TypeOK
<1>7. InHeap'
  <2>1. \A c \in explicitList' : c.size > 0 /\ End(c) <= size'
    BY <1>2, <1>5 DEF IInv, InHeap, TypeOK
  <2>2. \A i \in Dom : Unit(i).size > 0 /\ End(Unit(i)) <= size
    BY <1>0, <1>5, <1>u, <1>b, IInvFacts DEF IInv, InHeap, GoodList, End, Block, TypeOK
  <2>3. \A p \in valid' : region'[p].size > 0 /\ End(region'[p]) <= size'
    BY <1>2, <1>v, <2>2 DEF IInv, InHeap
  <2> QED BY <1>2, <1>3, <2>1, <2>3 DEF IInv, InHeap
<1>8. NoOverlap'
  <2>1. \A p \in valid : /\ \A i \in Dom : Disjoint(region[p], Unit(i))
                         /\ \A d \in explicitList' : Disjoint(region[p], d)
    BY <1>5, <1>ub, IInvFacts DEF IInv, NoOverlap
  <2>2. \A c \in Pending : /\ \A i \in Dom : Disjoint(c, Unit(i))
                           /\ \A d \in explicitList' : Disjoint(c, d)
    BY <1>5, <1>ub, IInvFacts DEF IInv, NoOverlap, Disjoint
  <2>6. \A i \in Dom : \A d \in explicitList' : Disjoint(d, Unit(i))
    BY <1>5, <1>ub DEF Disjoint
  <2>3. ASSUME NEW p \in valid', NEW q \in valid', p # q
        PROVE  Disjoint(region'[p], region'[q])
    <3>1. CASE p \in valid /\ q \in valid
      BY <3>1, <2>3, <1>4 DEF IInv, NoOverlap
    <3>2. CASE \E i, j \in Dom : p = objs[i] /\ region'[p] = Unit(i) /\ q = objs[j] /\ region'[q] = Unit(j)
      BY <3>2, <2>3, <1>uu
    <3>3. CASE p \in valid /\ \E j \in Dom : region'[q] = Unit(j)
      BY <3>3, <1>4, <2>1
    <3>4. CASE q \in valid /\ \E j \in Dom : region'[p] = Unit(j)
      BY <3>4, <1>4, <2>1 DEF Disjoint
    <3> QED BY <1>v, <3>1, <3>2, <3>3, <3>4
  <2>4. ASSUME NEW p \in valid', NEW c \in explicitList' \cup Pending'
        PROVE  Disjoint(region'[p], c)
    <3>1. CASE p \in valid /\ region'[p] = region[p]
      BY <3>1, <1>3, <2>1 DEF IInv, NoOverlap
    <3>2. CASE \E i \in Dom : region'[p] = Unit(i)
      BY <3>2, <1>3, <2>2, <2>6 DEF Disjoint
    <3> QED BY <1>v, <3>1, <3>2
  <2>5. \A c \in explicitList' : \A d \in Pending' : Disjoint(c, d)
    BY <1>3, <2>2 DEF Disjoint
  <2> QED BY <1>2, <1>3, <2>3, <2>4, <2>5 DEF IInv, NoOverlap
<1>9. FullyCoalesced'
  BY <1>5 DEF FullyCoalesced
<1>10. NoLeak'
  <2> SUFFICES ASSUME NEW a \in 0..(size - 1)
               PROVE  \/ \E c \in explicitList' \cup Pending' : Covers(c, a)
                      \/ \E p \in valid' : Covers(region'[p], a)
    BY <1>2 DEF NoLeak
  <2>0. a \in Int
    BY DEF IInv, TypeOK
  <2>1. CASE \E c \in Pending : Covers(c, a)
    BY <2>1, <1>3
  <2>2. CASE \E p \in valid : Covers(region[p], a)
    BY <2>2, <1>2, <1>4
  <2>3. CASE \E c \in explicitList : Covers(c, a)
    <3>1. CASE Covers(blk, a)
      <4>1. PICK i \in Dom : Covers(Unit(i), a)
        BY <3>1, <2>0, <1>uc
      <4>2. objs[i] \in valid' /\ Covers(region'[objs[i]], a)
        BY <4>1, <1>2, <1>4
      <4> QED BY <4>2
    <3>2. CASE ~Covers(blk, a)
      BY <3>2, <2>0, <2>3, <1>5
    <3> QED BY <3>1, <3>2
  <2> QED BY <2>1, <2>2, <2>3 DEF IInv, NoLeak
<1> QED BY <1>6, <1>7, <1>8, <1>9, <1>10 DEF IInv

\* AddressManager.free of a block that is clear of the free list.
LEMMA AddressFreeStep ==
    ASSUME IInv, NEW blk \in Block, blk.size > 0, End(blk) <= size,
           \A b \in explicitList : Disjoint(b, blk), AddressFree(blk)
    PROVE  /\ explicitList' \subseteq Block
           /\ \A b \in explicitList' : b.size > 0 /\ End(b) <= size
           /\ FullyCoalesced'
           /\ \A c \in Block : (c.size > 0 /\ Disjoint(c, blk)
                                  /\ \A b \in explicitList : Disjoint(c, b))
                                => \A b \in explicitList' : Disjoint(c, b)
           /\ \A a \in Int : (Covers(blk, a) \/ \E b \in explicitList : Covers(b, a))
                                => \E b \in explicitList' : Covers(b, a)
           /\ totalAllocated' \in Int
<1>1. GoodList /\ size \in Int /\ \A b \in explicitList : End(b) <= size
  BY IInvFacts DEF IInv, TypeOK, InHeap
<1>2. MergeArgs(blk, MergePrev(blk), MergeSucc(blk))
  BY <1>1, MergeSetsExact
<1>3. explicitList' = Coalesced(blk, MergePrev(blk), MergeSucc(blk))
  BY DEF AddressFree
<1>4. totalAllocated' \in Int
  BY DEF AddressFree, IInv, TypeOK, Block
<1> QED BY <1>1, <1>2, <1>3, <1>4, InsertBlock DEF FullyCoalesced

\* free(o): the region of o moves to the free list.
LEMMA FreeStep ==
    ASSUME IInv, NEW o \in Objs, Free(o)
    PROVE  IInv'
<1> DEFINE blk == region[o]
<1>1. /\ o \in valid /\ valid' = valid \ {o} /\ AddressFree(blk)
      /\ UNCHANGED <<size, region, batchTodo, currBlock, coalescedBlocks>>
  BY DEF Free
<1>2. Pending' = Pending
  BY <1>1 DEF Pending
<1>3. /\ blk \in Block /\ blk.size > 0 /\ End(blk) <= size
      /\ \A b \in explicitList : Disjoint(b, blk)
  BY <1>1, IInvFacts DEF IInv, InHeap, NoOverlap, Disjoint
<1>4. /\ explicitList' \subseteq Block
      /\ \A b \in explicitList' : b.size > 0 /\ End(b) <= size
      /\ FullyCoalesced'
      /\ \A c \in Block : (c.size > 0 /\ Disjoint(c, blk)
                             /\ \A b \in explicitList : Disjoint(c, b))
                           => \A b \in explicitList' : Disjoint(c, b)
      /\ \A a \in Int : (Covers(blk, a) \/ \E b \in explicitList : Covers(b, a))
                           => \E b \in explicitList' : Covers(b, a)
      /\ totalAllocated' \in Int
  BY <1>1, <1>3, AddressFreeStep
<1>5. TypeOK'
  BY <1>1, <1>4 DEF IInv, TypeOK
<1>6. InHeap'
  BY <1>1, <1>2, <1>4 DEF IInv, InHeap
<1>7. NoOverlap'
  <2>1. \A p \in valid' : \A b \in explicitList' : Disjoint(region[p], b)
    BY <1>1, <1>4, IInvFacts DEF IInv, NoOverlap, InHeap
  <2>2. \A c \in Pending : \A b \in explicitList' : Disjoint(c, b)
    BY <1>1, <1>4, IInvFacts DEF IInv, NoOverlap, InHeap, Disjoint
  <2> QED BY <1>1, <1>2, <2>1, <2>2 DEF IInv, NoOverlap, Disjoint
<1>8. NoLeak'
  <2> SUFFICES ASSUME NEW a \in 0..(size - 1)
               PROVE  \/ \E c \in explicitList' \cup Pending' : Covers(c, a)
                      \/ \E p \in valid' : Covers(region'[p], a)
    BY <1>1 DEF NoLeak
  <2>1. a \in Int
    BY DEF IInv, TypeOK
  <2> QED BY <2>1, <1>1, <1>2, <1>4 DEF IInv, NoLeak
<1> QED BY <1>4, <1>5, <1>6, <1>7, <1>8 DEF IInv

\* One iteration of batched_free's scan moves the region of one object from
\* the live objects to the pending blocks, merging it when it is adjacent.
LEMMA BatchedFreeScanStep ==
    ASSUME IInv, NEW o \in Objs, BatchedFreeScan(o)
    PROVE  IInv'
<1>1. /\ valid' = valid \ {o} /\ batchTodo' = batchTodo \ {o}
      /\ UNCHANGED <<explicitList, size, totalAllocated, region>>
  BY DEF BatchedFreeScan
<1>2. FullyCoalesced'
  BY <1>1 DEF IInv, FullyCoalesced
<1>3. currBlock \in Block /\ coalescedBlocks \subseteq Block /\ region[o] \in Block
  BY DEF IInv, TypeOK
<1>4. CASE o \notin valid
  <2>1. valid' = valid /\ UNCHANGED <<currBlock, coalescedBlocks>>
    BY <1>1, <1>4 DEF BatchedFreeScan
  <2>2. Pending' = Pending
    BY <2>1 DEF Pending
  <2> QED BY <1>1, <1>2, <2>1, <2>2 DEF IInv, TypeOK, InHeap, NoOverlap, NoLeak
<1>5. CASE o \in valid /\ (currBlock = NoBlock \/ ~CanBeCoalesced(currBlock, region[o]))
  <2>1. /\ currBlock' = region[o]
        /\ \/ currBlock = NoBlock /\ coalescedBlocks' = coalescedBlocks
           \/ currBlock # NoBlock /\ coalescedBlocks' = coalescedBlocks \cup {currBlock}
    BY <1>5 DEF BatchedFreeScan
  <2>2. region[o].size > 0 /\ region[o] # NoBlock
    BY <1>5 DEF IInv, InHeap, NoBlock, FreeBlock
  <2>3. Pending' = Pending \cup {region[o]}
    BY <2>1, <2>2 DEF Pending
  <2>4. TypeOK'
    BY <1>1, <1>3, <2>1 DEF IInv, TypeOK
  <2>5. InHeap'
    BY <1>1, <1>5, <2>3 DEF IInv, InHeap
  <2>6. NoOverlap'
    <3>1. region[o] \notin Pending
      BY <1>3, <1>5, <2>2 DEF IInv, NoOverlap, Disjoint, End, Block
    <3>2. currBlock' \notin coalescedBlocks'
      BY <2>1, <3>1 DEF Pending
    <3> QED BY <1>1, <1>5, <2>3, <3>2 DEF IInv, NoOverlap, Disjoint
  <2>7. NoLeak'
    <3> SUFFICES ASSUME NEW a \in 0..(size - 1)
                 PROVE  \/ \E c \in explicitList \cup Pending' : Covers(c, a)
                        \/ \E p \in valid' : Covers(region[p], a)
      BY <1>1 DEF NoLeak
    <3> QED BY <1>1, <2>3 DEF IInv, NoLeak
  <2> QED BY <1>2, <2>4, <2>5, <2>6, <2>7 DEF IInv
<1>6. CASE o \in valid /\ currBlock # NoBlock /\ CanBeCoalesced(currBlock, region[o])
  <2> DEFINE new == FreeBlock(currBlock.start, currBlock.size + region[o].size)
  <2>1. currBlock' = new /\ coalescedBlocks' = coalescedBlocks
    BY <1>6 DEF BatchedFreeScan
  <2>2. /\ currBlock \in Pending /\ currBlock.size > 0 /\ region[o].size > 0
        /\ End(region[o]) <= size
    BY <1>6 DEF IInv, InHeap, Pending
  <2>3. /\ new \in Block /\ new.start = currBlock.start
        /\ End(new) = End(region[o]) /\ End(currBlock) = region[o].start
        /\ new.size > 0 /\ new # NoBlock
    BY <1>3, <1>6, <2>2 DEF FreeBlock, Block, End, CanBeCoalesced, NoBlock
  <2> HIDE DEF new
  <2>4. Pending = coalescedBlocks \cup {currBlock} /\ Pending' = coalescedBlocks \cup {new}
    BY <1>6, <2>1, <2>3 DEF Pending
  <2>5. TypeOK'
    BY <1>1, <2>1, <2>3 DEF IInv, TypeOK
  <2>6. InHeap'
    BY <1>1, <2>2, <2>3, <2>4 DEF IInv, InHeap
  <2>7. \A c \in Block : (c.size > 0 /\ Disjoint(c, currBlock) /\ Disjoint(c, region[o]))
                            => Disjoint(c, new)
    BY <1>3, <2>2, <2>3 DEF Disjoint, Block, End
  <2>8. NoOverlap'
    <3>1. \A p \in valid' : Disjoint(region[p], new)
      BY <1>1, <1>6, <2>2, <2>7, IInvFacts DEF IInv, NoOverlap, InHeap
    <3>2. \A b \in explicitList : Disjoint(b, new)
      BY <1>6, <2>2, <2>7, IInvFacts DEF IInv, NoOverlap, InHeap, Disjoint, GoodList
    <3>3. \A c \in coalescedBlocks : c # currBlock => Disjoint(c, new)
      BY <1>6, <2>2, <2>4, <2>7, IInvFacts DEF IInv, NoOverlap, InHeap, Disjoint
    <3>4. new \notin coalescedBlocks /\ currBlock \notin coalescedBlocks
      BY <1>3, <2>3, <3>3 DEF IInv, NoOverlap, Disjoint, End, Block
    <3> QED BY <1>1, <2>1, <2>4, <3>1, <3>2, <3>3, <3>4 DEF IInv, NoOverlap, Disjoint
  <2>9. NoLeak'
    <3> SUFFICES ASSUME NEW a \in 0..(size - 1)
                 PROVE  \/ \E c \in explicitList \cup Pending' : Covers(c, a)
                        \/ \E p \in valid' : Covers(region[p], a)
      BY <1>1 DEF NoLeak
    <3>0. a \in Int
      BY DEF IInv, TypeOK
    <3>1. Covers(currBlock, a) \/ Covers(region[o], a) => Covers(new, a)
      BY <3>0, <1>3, <2>2, <2>3 DEF Covers, End, Block
    <3> QED BY <1>1, <2>4, <3>1 DEF IInv, NoLeak
  <2> QED BY <1>2, <2>5, <2>6, <2>8, <2>9 DEF IInv
<1> QED BY <1>4, <1>5, <1>6

\* The end of the scan appends the current block to coalesced_blocks.
LEMMA BatchedFreeScannedStep ==
    ASSUME IInv, BatchedFreeScanned
    PROVE  IInv'
<1>1. /\ currBlock # NoBlock /\ currBlock' = NoBlock
      /\ coalescedBlocks' = coalescedBlocks \cup {currBlock}
      /\ UNCHANGED <<explicitList, size, totalAllocated, region, valid, batchTodo>>
  BY DEF BatchedFreeScanned
<1>2. Pending' = Pending
  BY <1>1 DEF Pending
<1>3. TypeOK'
  BY <1>1 DEF IInv, TypeOK, NoBlock, FreeBlock, Block
<1>4. NoBlock \notin Pending
  BY DEF IInv, InHeap, NoBlock, FreeBlock
<1>5. NoOverlap'
  BY <1>1, <1>2, <1>4 DEF IInv, NoOverlap, Pending
<1> QED BY <1>1, <1>2, <1>3, <1>5 DEF IInv, InHeap, FullyCoalesced, NoLeak

\* A coalesced block of a batched_free moves to the free list.
LEMMA BatchedFreeReleaseStep ==
    ASSUME IInv, NEW blk \in coalescedBlocks, BatchedFreeRelease(blk)
    PROVE  IInv'
<1>1. /\ currBlock = NoBlock /\ AddressFree(blk)
      /\ coalescedBlocks' = coalescedBlocks \ {blk}
      /\ UNCHANGED <<size, region, valid, batchTodo, currBlock>>
  BY DEF BatchedFreeRelease
<1>2. Pending = coalescedBlocks /\ Pending' = Pending \ {blk}
  BY <1>1 DEF Pending
<1>3. /\ blk \in Block /\ blk.size > 0 /\ End(blk) <= size
      /\ \A b \in explicitList : Disjoint(b, blk)
  BY <1>2, IInvFacts DEF IInv, InHeap, NoOverlap, Disjoint
<1>4. /\ explicitList' \subseteq Block
      /\ \A b \in explicitList' : b.size > 0 /\ End(b) <= size
      /\ FullyCoalesced'
      /\ \A c \in Block : (c.size > 0 /\ Disjoint(c, blk)
                             /\ \A b \in explicitList : Disjoint(c, b))
                           => \A b \in explicitList' : Disjoint(c, b)
      /\ \A a \in Int : (Covers(blk, a) \/ \E b \in explicitList : Covers(b, a))
                           => \E b \in explicitList' : Covers(b, a)
      /\ totalAllocated' \in Int
  BY <1>1, <1>3, AddressFreeStep
<1>5. TypeOK'
  BY <1>1, <1>4 DEF IInv, TypeOK
<1>6. InHeap'
  BY <1>1, <1>2, <1>4 DEF IInv, InHeap
<1>7. NoOverlap'
  <2>1. \A p \in valid : \A b \in explicitList' : Disjoint(region[p], b)
    BY <1>2, <1>4, IInvFacts DEF IInv, NoOverlap, InHeap
  <2>2. \A c \in Pending' : \A b \in explicitList' : Disjoint(c, b)
    BY <1>2, <1>4, IInvFacts DEF IInv, NoOverlap, InHeap, Disjoint
  <2> QED BY <1>1, <1>2, <2>1, <2>2 DEF IInv, NoOverlap, Disjoint
<1>8. NoLeak'
  <2> SUFFICES ASSUME NEW a \in 0..(size - 1)
               PROVE  \/ \E c \in explicitList' \cup Pending' : Covers(c, a)
                      \/ \E p \in valid : Covers(region[p], a)
    BY <1>1 DEF NoLeak
  <2>1. a \in Int
    BY DEF IInv, TypeOK
  <2> QED BY <2>1, <1>1, <1>2, <1>4 DEF IInv, NoLeak
<1> QED BY <1>4, <1>5, <1>6, <1>7, <1>8 DEF IInv

\* sbrk adds the block above the heap, merged with the last free block.
LEMMA SbrkStep ==
    ASSUME IInv, NEW raw \in RawSizes, Sbrk(raw)
    PROVE  IInv'
<1> DEFINE n == AlignedSize(raw)
           blk == FreeBlock(size, n)
           mp == {p \in explicitList : IsLast(p) /\ CanBeCoalesced(p, blk)}
<1>0. n \in Nat /\ n > 0 /\ size \in Nat
  BY AlignedSizePos DEF IInv, TypeOK
<1>1. /\ explicitList' = Coalesced(blk, mp, {})
      /\ size' = size + n
      /\ UNCHANGED <<totalAllocated, region, valid, batchTodo, currBlock, coalescedBlocks>>
  BY DEF Sbrk
<1> HIDE DEF n
<1>2. Pending' = Pending
  BY <1>1 DEF Pending
<1>3. blk \in Block /\ blk.size = n /\ blk.start = size /\ End(blk) = size + n
  BY <1>0 DEF FreeBlock, Block, End
<1> HIDE DEF blk
<1>4. MergeArgs(blk, mp, {})
  <2>1. \A b \in explicitList : Disjoint(b, blk) /\ End(blk) # b.start
    BY <1>0, <1>3, IInvFacts DEF Disjoint, IInv, InHeap, GoodList, End, Block
  <2>2. ASSUME NEW p \in explicitList, End(p) = blk.start PROVE IsLast(p)
    BY <1>0, <1>3, <2>2, IInvFacts DEF IInv, InHeap, GoodList, FullyCoalesced, End, Block, IsLast
  <2>3. mp = {p \in explicitList : End(p) = blk.start}
    BY <2>2 DEF CanBeCoalesced
  <2> QED BY <1>0, <1>3, <2>1, <2>3 DEF MergeArgs
<1> HIDE DEF mp
<1>5. /\ explicitList' \subseteq Block
      /\ \A b \in explicitList' : b.size > 0
      /\ \A b, c \in explicitList' : b # c => End(b) < c.start \/ End(c) < b.start
      /\ \A h \in Int : (End(blk) <= h /\ \A b \in explicitList : End(b) <= h)
                           => \A b \in explicitList' : End(b) <= h
      /\ \A c \in Block : (c.size > 0 /\ Disjoint(c, blk)
                             /\ \A b \in explicitList : Disjoint(c, b))
                           => \A b \in explicitList' : Disjoint(c, b)
      /\ \A a \in Int : (Covers(blk, a) \/ \E b \in explicitList : Covers(b, a))
                           => \E b \in explicitList' : Covers(b, a)
  BY <1>1, <1>4, IInvFacts, InsertBlock
<1>6. TypeOK'
  BY <1>0, <1>1, <1>5 DEF IInv, TypeOK
<1>7. InHeap'
  <2>1. size' \in Int /\ End(blk) <= size' /\ \A b \in explicitList : End(b) <= size'
    BY <1>0, <1>1, <1>3, IInvFacts DEF IInv, InHeap, GoodList, Block, End
  <2>2. \A b \in explicitList' : End(b) <= size'
    BY <2>1, <1>5
  <2>3. \A p \in valid : region[p].size > 0 /\ End(region[p]) <= size'
    BY <1>0, <1>1, IInvFacts DEF IInv, InHeap, Block, End
  <2>4. \A c \in Pending : c.size > 0 /\ End(c) <= size'
    BY <1>0, <1>1, IInvFacts DEF IInv, InHeap, Block, End
  <2> QED BY <1>1, <1>2, <1>5, <2>2, <2>3, <2>4 DEF InHeap
<1>8. NoOverlap'
  <2>1. \A p \in valid : \A b \in explicitList' : Disjoint(region[p], b)
    BY <1>3, <1>5, IInvFacts DEF IInv, NoOverlap, InHeap, Disjoint
  <2>2. \A c \in Pending : \A b \in explicitList' : Disjoint(c, b)
    BY <1>3, <1>5, IInvFacts DEF IInv, NoOverlap, InHeap, Disjoint
  <2> QED BY <1>1, <1>2, <2>1, <2>2 DEF IInv, NoOverlap, Disjoint
<1>9. FullyCoalesced'
  BY <1>5 DEF FullyCoalesced
<1>10. NoLeak'
  <2> SUFFICES ASSUME NEW a \in 0..(size' - 1)
               PROVE  \/ \E c \in explicitList' \cup Pending' : Covers(c, a)
                      \/ \E p \in valid' : Covers(region'[p], a)
    BY DEF NoLeak
  <2>0. a \in Int /\ 0 <= a /\ a < size + n
    BY <1>0, <1>1
  <2>1. CASE a \in 0..(size - 1)
    BY <2>0, <2>1, <1>1, <1>2, <1>5 DEF IInv, NoLeak
  <2>2. CASE a \notin 0..(size - 1)
    <3>1. Covers(blk, a)
      BY <1>0, <1>3, <2>0, <2>2 DEF Covers
    <3> QED BY <3>1, <2>0, <1>5
  <2> QED BY <2>1, <2>2
<1> QED BY <1>6, <1>7, <1>8, <1>9, <1>10 DEF IInv

-----------------------------------------------------------------------------
(* Theorems *)

\* The geometric facts hold initially and every operation of the allocator
\* preserves them.
THEOREM Geometry == Spec => []IInv
<1>1. Init => IInv
  <2> SUFFICES ASSUME Init PROVE IInv
    OBVIOUS
  <2> DEFINE b0 == FreeBlock(0, InitSize)
  <2>1. b0 \in Block /\ b0.start = 0 /\ b0.size = InitSize /\ End(b0) = InitSize
    BY DEF FreeBlock, Block, End
  <2>2. Pending = {}
    BY DEF Init, Pending
  <2>3. TypeOK
    BY <2>1 DEF Init, TypeOK, NoBlock, FreeBlock, Block
  <2>4. InHeap /\ NoOverlap /\ FullyCoalesced
    BY <2>1, <2>2 DEF Init, InHeap, NoOverlap, FullyCoalesced
  <2>5. NoLeak
    BY <2>1 DEF Init, NoLeak, Covers
  <2> QED BY <2>3, <2>4, <2>5 DEF IInv
<1>2. IInv /\ [Next]_vars => IInv'
  <2> SUFFICES ASSUME IInv, [Next]_vars PROVE IInv'
    OBVIOUS
  <2>1. CASE \E o \in Objs, raw \in RawSizes : Allocate(o, raw)
    BY <2>1, AllocateStep
  <2>2. CASE \E k \in 1..MaxBatch : \E objs \in [0..(k-1) -> Objs], raw \in RawSizes :
                BatchedAllocate(k, objs, raw)
    BY <2>2, BatchedAllocateStep
  <2>3. CASE \E o \in Objs : Free(o)
    BY <2>3, FreeStep
  <2>4. CASE \E os \in SUBSET Objs : BatchedFreeBegin(os)
    BY <2>4 DEF BatchedFreeBegin, IInv, TypeOK, InHeap, NoOverlap, FullyCoalesced, NoLeak, Pending
  <2>5. CASE \E o \in Objs : BatchedFreeScan(o)
    BY <2>5, BatchedFreeScanStep
  <2>6. CASE BatchedFreeScanned
    BY <2>6, BatchedFreeScannedStep
  <2>7. CASE \E b \in coalescedBlocks : BatchedFreeRelease(b)
    BY <2>7, BatchedFreeReleaseStep
  <2>8. CASE \E raw \in RawSizes : Sbrk(raw)
    BY <2>8, SbrkStep
  <2>9. CASE UNCHANGED vars
    BY <2>9 DEF vars, IInv, TypeOK, InHeap, NoOverlap, FullyCoalesced, NoLeak, Pending
  <2> QED BY <2>1, <2>2, <2>3, <2>4, <2>5, <2>6, <2>7, <2>8, <2>9 DEF Next
<1> QED BY <1>1, <1>2, PTL DEF Spec

\* The state of the allocator is always well typed.
THEOREM TypeCorrect == Spec => []TypeOK
<1>1. IInv => TypeOK
  BY DEF IInv
<1> QED BY <1>1, Geometry, PTL

\* Two live objects never share a byte, nor does one share a byte with the
\* free list, for every interleaving of frees, batches and expansions.
THEOREM NeverOverlap == Spec => []NoOverlap
<1>1. IInv => NoOverlap
  BY DEF IInv
<1> QED BY <1>1, Geometry, PTL

\* Free blocks are always separated by a byte in use: _coalesce never misses
\* a neighbour, although it looks at one block on each side only.
THEOREM AlwaysCoalesced == Spec => []FullyCoalesced
<1>1. IInv => FullyCoalesced
  BY DEF IInv
<1> QED BY <1>1, Geometry, PTL

\* No byte of the heap is ever lost.
THEOREM NeverLeaks == Spec => []NoLeak
<1>1. IInv => NoLeak
  BY DEF IInv
<1> QED BY <1>1, Geometry, PTL

\* An allocation is refused only when no run of that many bytes is free:
\* the blocks cover the heap and free neighbours are merged, so a free run
\* lies inside one block of the list.
THEOREM RefusedOnlyWhenFull == Spec => []FitsWhenRoom
<1>1. IInv => FitsWhenRoom
  <2> SUFFICES ASSUME IInv, NEW n \in 1..size, \A b \in explicitList : b.size < n,
                      NEW lo \in 0..(size - n),
                      \A a \in lo..(lo + n - 1) :
                         /\ \A b \in Pending : ~Covers(b, a)
                         /\ \A o \in valid : ~Covers(region[o], a)
               PROVE  FALSE
    BY DEF FitsWhenRoom
  <2>0. size \in Nat /\ n \in Nat /\ lo \in Nat /\ n >= 1 /\ lo + n <= size
    BY DEF IInv, TypeOK
  <2>1. \A a \in lo..(lo + n - 1) : \E b \in explicitList : Covers(b, a)
    <3> TAKE a \in lo..(lo + n - 1)
    <3>1. a \in 0..(size - 1)
      BY <2>0
    <3> QED BY <3>1 DEF IInv, NoLeak
  <2>2. PICK b \in explicitList : Covers(b, lo)
    BY <2>0, <2>1
  <2>3. b \in Block /\ b.size < n
    BY IInvFacts DEF GoodList
  <2>4. End(b) \in lo..(lo + n - 1)
    BY <2>0, <2>2, <2>3 DEF Covers, End, Block
  <2>5. PICK c \in explicitList : Covers(c, End(b))
    BY <2>1, <2>4
  <2>6. c \in Block /\ c # b
    BY <2>3, <2>5, IInvFacts DEF GoodList, Covers, End, Block
  <2> QED BY <2>0, <2>2, <2>3, <2>4, <2>5, <2>6 DEF IInv, FullyCoalesced, Covers, End, Block
<1> QED BY <1>1, Geometry, PTL
-----------------------------------------------------------------------------
(* The sum of the sizes of a set of blocks *)

Size == [b \in Block |-> b.size]

\* BytesOf is the sum of the sizes.
LEMMA BytesIsSum ==
    ASSUME NEW T \in SUBSET Block, IsFiniteSet(T)
    PROVE  BytesOf(T) = Sum(Size, T)
<1> DEFINE P(g) == g = [s \in SUBSET T |-> IF s = {} THEN 0 ELSE Chosen(s).size + g[s \ {Chosen(s)}]]
<1>1. BytesOf(T) = (CHOOSE g : P(g))[T]
  BY DEF BytesOf, MapThenSumSet, MapThenFoldSet, Chosen
<1>2. \A s \in SUBSET T : s # {} => Size[Chosen(s)] = Chosen(s).size
  BY DEF Chosen, Size
<1>3. \A g : P(g) <=> IsSum(Size, g, SUBSET T)
  BY <1>2 DEF IsSum, SumStep
<1>4. PICK f : f = CHOOSE g : P(g)
  OBVIOUS
<1>5. PICK h : h = CHOOSE g : IsSum(Size, g, SUBSET T)
  OBVIOUS
<1>6. \E g : IsSum(Size, g, SUBSET T)
  BY SumExists
<1>7. IsSum(Size, h, SUBSET T)
  BY <1>5, <1>6
<1>8. P(f)
  BY <1>3, <1>4, <1>6
<1>9. IsSum(Size, f, SUBSET T)
  BY <1>3, <1>8
<1> HIDE DEF P
<1>10. Size \in [Block -> Nat]
  BY DEF Size, Block
<1>11. f[T] = h[T]
  <2>1. \A s \in SUBSET T : f[s] = h[s] /\ f[s] \in Nat
    BY ONLY <1>7, <1>9, <1>10, SumUnique, IsFiniteSet(T), T \in SUBSET Block, T \in SUBSET T
  <2> QED BY <2>1
<1>12. BytesOf(T) = f[T] /\ Sum(Size, T) = h[T]
  BY <1>1, <1>4, <1>5 DEF Sum
<1> QED BY <1>11, <1>12

\* A block more adds its bytes, a block less takes them away.
LEMMA BytesAdd ==
    ASSUME NEW T \in SUBSET Block, IsFiniteSet(T), NEW x \in Block, x \notin T
    PROVE  BytesOf(T \cup {x}) = BytesOf(T) + x.size
<1>1. IsFiniteSet(T \cup {x}) /\ T \cup {x} \in SUBSET Block
  BY FS_AddElement
<1>2. Size \in [Block -> Nat] /\ Size[x] = x.size
  BY DEF Size, Block
<1> QED BY <1>1, <1>2, BytesIsSum, SumAdd
LEMMA BytesRemove ==
    ASSUME NEW T \in SUBSET Block, IsFiniteSet(T), NEW x \in T
    PROVE  /\ IsFiniteSet(T \ {x})
           /\ BytesOf(T \ {x}) = BytesOf(T) - x.size
<1>1. IsFiniteSet(T \ {x}) /\ T \ {x} \in SUBSET Block
  BY FS_RemoveElement
<1>2. Size \in [Block -> Nat] /\ Size[x] = x.size
  BY DEF Size, Block
<1> QED BY <1>1, <1>2, BytesIsSum, SumRemove
\* No block has no bytes.
LEMMA BytesNat ==
    ASSUME NEW T \in SUBSET Block, IsFiniteSet(T)
    PROVE  BytesOf(T) \in Nat /\ (T = {} => BytesOf(T) = 0)
<1>1. Size \in [Block -> Nat]
  BY DEF Size, Block
<1>2. Sum(Size, T) \in Nat /\ (T = {} => Sum(Size, T) = 0)
  BY ONLY <1>1, SumByStep, T \in SUBSET Block, IsFiniteSet(T)
<1> QED BY <1>2, BytesIsSum
-----------------------------------------------------------------------------
(* Multiples of the alignment *)

\* The multiples of the alignment.
LEMMA Multiples ==
    ASSUME NEW x \in Nat
    PROVE  x % Align = 0 <=> \E q \in Nat : x = q * Align
<1>1. x % Align \in 0..Align - 1 /\ x \div Align \in Nat /\ x = (Align * (x \div Align)) + (x % Align)
  OBVIOUS
<1>2. ASSUME NEW q \in Nat, x = q * Align PROVE x % Align = 0
  <2> DEFINE d == x \div Align
             r == x % Align
  <2>1. d \in Nat /\ r \in 0..Align - 1 /\ q * Align = Align * d + r
    BY <1>1, <1>2
  <2> HIDE DEF d, r
  <2>2. CASE q = d
    <3>1. q * Align = Align * d
      BY <2>2
    <3>2. Align * d \in Nat
      BY <2>1
    <3>3. r = 0
      BY <2>1, <3>1, <3>2
    <3> QED BY <3>3 DEF r
  <2>3. CASE q > d
    <3>1. PICK e \in Nat : q = d + 1 + e
      <4>1. q - d - 1 \in Nat /\ q = d + 1 + (q - d - 1)
        BY <2>1, <2>3
      <4> QED BY <4>1
    <3>2. q * Align = Align * d + Align + e * Align /\ e * Align \in Nat /\ Align * d \in Nat
      BY <2>1, <3>1
    <3> QED BY <2>1, <3>2
  <2>4. CASE q < d
    <3>1. PICK e \in Nat : d = q + 1 + e
      <4>1. d - q - 1 \in Nat /\ d = q + 1 + (d - q - 1)
        BY <2>1, <2>4
      <4> QED BY <4>1
    <3>2. Align * d = q * Align + Align + e * Align /\ e * Align \in Nat /\ q * Align \in Nat
      BY <2>1, <3>1
    <3> QED BY <2>1, <3>2
  <2> QED BY <2>1, <2>2, <2>3, <2>4
<1>3. ASSUME x % Align = 0 PROVE \E q \in Nat : x = q * Align
  <2>1. x \div Align \in Nat /\ x = (x \div Align) * Align
    BY <1>1, <1>3
  <2> QED BY <2>1
<1> QED BY <1>2, <1>3

\* Sums and products of multiples are multiples.
LEMMA MultipleSums ==
    ASSUME NEW x \in Nat, NEW y \in Nat, x % Align = 0
    PROVE  /\ y % Align = 0 => (x + y) % Align = 0
           /\ (x * y) % Align = 0
<1>1. PICK p \in Nat : x = p * Align
  BY Multiples
<1>2. ASSUME y % Align = 0 PROVE (x + y) % Align = 0
  <2>1. PICK q \in Nat : y = q * Align
    BY <1>2, Multiples
  <2>2. x + y = (p + q) * Align /\ x + y \in Nat /\ p + q \in Nat
    BY <1>1, <2>1
  <2> QED BY <2>2, Multiples
<1>3. (x * y) % Align = 0
  <2>1. x * y = (p * y) * Align /\ x * y \in Nat /\ p * y \in Nat
    BY <1>1
  <2> QED BY <2>1, Multiples
<1> QED BY <1>2, <1>3

\* compute_aligned_size rounds to a multiple.
LEMMA AlignedSizeMultiple ==
    ASSUME NEW raw \in RawSizes
    PROVE  AlignedSize(raw) % Align = 0
<1> DEFINE q == (raw + Align - 1) \div Align
<1>1. q \in Nat
  OBVIOUS
<1>2. AlignedSize(raw) = q * Align
  BY DEF AlignedSize
<1>3. q * Align \in Nat
  BY <1>1
<1> HIDE DEF q
<1> QED BY <1>1, <1>2, <1>3, Multiples

-----------------------------------------------------------------------------
(* The counters and the alignment *)

\* What the counters of bytes and the alignment need besides the geometry: free and
\* pending blocks start aligned, and pending ones end aligned too.
Starts(blocks) == \A b \in blocks : b.start % Align = 0
Aligned(blocks) == \A b \in blocks : b.start % Align = 0 /\ b.size % Align = 0
Counted ==
    /\ IsFiniteSet(explicitList)
    /\ SizesAddUp
    /\ Starts(explicitList) /\ AlignedBlocks /\ Aligned(Pending)

\* A carved list has n bytes less.
LEMMA CarveBytes ==
    ASSUME GoodList, IsFiniteSet(explicitList), NEW n \in Nat, n > 0,
           NEW b \in explicitList, b.size >= n, NEW L, L = Carve(b, n)
    PROVE  /\ IsFiniteSet(L)
           /\ BytesOf(L) = BytesOf(explicitList) - n
<1> DEFINE rest == FreeBlock(b.start + n, b.size - n)
<1>1. PICK d : d = explicitList \ {b}
  OBVIOUS
<1>2. /\ IsFiniteSet(d) /\ d \in SUBSET Block /\ b \in Block
      /\ BytesOf(d) = BytesOf(explicitList) - b.size
  BY <1>1, BytesRemove DEF GoodList
<1>3. BytesOf(explicitList) \in Nat
  BY BytesNat DEF GoodList
<1>4. CASE b.size > n
  <2>1. rest \in Block /\ rest.size = b.size - n /\ rest.start = b.start + n
    BY <1>2, <1>4 DEF FreeBlock, Block
  <2>2. L = d \cup {rest}
    BY <1>1, <1>4 DEF Carve
  <2> HIDE DEF rest
  <2>3. rest \notin d
    BY <1>1, <1>2, <1>4, <2>1 DEF GoodList, FullyCoalesced, Block, End
  <2>4. IsFiniteSet(d \cup {rest}) /\ BytesOf(d \cup {rest}) = BytesOf(d) + rest.size
    BY <1>2, <2>1, <2>3, BytesAdd, FS_AddElement
  <2>5. IsFiniteSet(L) /\ BytesOf(L) = BytesOf(d) + rest.size
    BY ONLY <2>2, <2>4
  <2>6. b.size \in Nat
    BY <1>2 DEF Block
  <2> QED BY <1>2, <1>3, <2>1, <2>5, <2>6
<1>5. CASE ~(b.size > n)
  <2>1. L = d
    BY <1>1, <1>5 DEF Carve
  <2>2. b.size = n
    BY <1>2, <1>5 DEF Block
  <2> QED BY <1>2, <2>1, <2>2
<1> QED BY <1>4, <1>5

\* A list into which a block is coalesced has its bytes more.
LEMMA CoalescedBytes ==
    ASSUME GoodList, IsFiniteSet(explicitList), NEW blk, NEW mp, NEW ms, MergeArgs(blk, mp, ms),
           NEW L, L = Coalesced(blk, mp, ms)
    PROVE  /\ IsFiniteSet(L)
           /\ BytesOf(L) = BytesOf(explicitList) + blk.size
           /\ \A c \in L : c \in explicitList \/ c.start = blk.start
                           \/ \E p \in mp : c.start = p.start
<1>1. PICK low, high \in Nat :
              /\ L = (explicitList \ (mp \cup ms)) \cup {FreeBlock(low, high - low)}
              /\ \/ mp = {} /\ low = blk.start
                 \/ \E p \in explicitList : mp = {p} /\ low = p.start /\ End(p) = blk.start
              /\ \/ ms = {} /\ high = End(blk)
                 \/ \E s \in explicitList : ms = {s} /\ high = End(s) /\ End(blk) = s.start
  BY CoalescedShape
<1> DEFINE new == FreeBlock(low, high - low)
<1>2. /\ blk \in Block /\ blk.size > 0
      /\ low <= blk.start /\ End(blk) <= high
      /\ new \in Block /\ new.size = high - low /\ End(new) = high /\ new.start = low
  BY <1>1 DEF GoodList, MergeArgs, FreeBlock, Block, End
<1>3. PICK d : d = explicitList \ (mp \cup ms)
  OBVIOUS
<1>4. PICK m : m = new
  OBVIOUS
<1>5. L = d \cup {m} /\ m.size = high - low /\ m.start = low /\ m \in Block
  BY <1>1, <1>2, <1>3, <1>4
<1>6. m \notin d
  <2>1. \A b \in d : Disjoint(b, blk) /\ b \in Block
    BY <1>3 DEF MergeArgs, GoodList
  <2>2. ~Disjoint(m, blk)
    BY <1>2, <1>4 DEF Disjoint, End, Block
  <2> QED BY <2>1, <2>2
<1>7. /\ IsFiniteSet(d) /\ d \in SUBSET Block
      /\ BytesOf(d) = BytesOf(explicitList) - (high - low - blk.size)
  <2>0. /\ explicitList \in SUBSET Block /\ BytesOf(explicitList) \in Nat
        /\ blk.start \in Nat /\ blk.size \in Nat /\ End(blk) = blk.start + blk.size
    BY <1>2, BytesNat DEF GoodList, Block, End
  <2>1. PICK e : e = explicitList \ mp
    OBVIOUS
  <2>2. /\ IsFiniteSet(e) /\ e \in SUBSET Block
        /\ BytesOf(e) = BytesOf(explicitList) - (blk.start - low)
    <3>1. CASE mp = {}
      <4>1. e = explicitList /\ low = blk.start
        BY <1>1, <2>1, <3>1
      <4> QED BY <2>0, <4>1
    <3>2. CASE mp # {}
      <4>1. PICK p \in explicitList : mp = {p} /\ low = p.start /\ End(p) = blk.start
        BY <1>1, <3>2
      <4>2. e = explicitList \ {p}
        BY <2>1, <4>1
      <4>3. IsFiniteSet(explicitList \ {p}) /\ BytesOf(explicitList \ {p}) = BytesOf(explicitList) - p.size
        BY <2>0, BytesRemove
      <4>4. IsFiniteSet(e) /\ BytesOf(e) = BytesOf(explicitList) - p.size
        BY ONLY <4>2, <4>3
      <4>5. p.size = blk.start - low
        BY <2>0, <4>1 DEF End, Block
      <4> QED BY <2>0, <2>1, <4>4, <4>5
    <3> QED BY <3>1, <3>2
  <2>3. CASE ms = {}
    <3>1. d = e /\ high = End(blk)
      BY <1>1, <1>3, <2>1, <2>3
    <3>2. BytesOf(d) = BytesOf(explicitList) - (blk.start - low)
      BY <2>2, <3>1
    <3>3. blk.start - low = high - low - blk.size
      BY <2>0, <3>1
    <3> QED BY <2>2, <3>1, <3>2, <3>3
  <2>4. CASE ms # {}
    <3>1. PICK s \in explicitList : ms = {s} /\ high = End(s) /\ End(blk) = s.start
      BY <1>1, <2>4
    <3>2. d = e \ {s}
      BY <1>3, <2>1, <3>1
    <3>3. s \in e
      <4>1. \A p \in mp : End(p) = blk.start
        BY DEF MergeArgs
      <4>2. s \notin mp
        BY <2>0, <1>2, <3>1, <4>1 DEF End, Block
      <4> QED BY <2>1, <4>2
    <3>4. IsFiniteSet(e \ {s}) /\ BytesOf(e \ {s}) = BytesOf(e) - s.size
      BY <2>2, <3>3, BytesRemove
    <3>5. IsFiniteSet(d) /\ BytesOf(d) = BytesOf(e) - s.size
      BY ONLY <3>2, <3>4
    <3>6. s.size = high - End(blk) /\ s.size \in Nat
      BY <2>0, <3>1 DEF End, Block
    <3>7. BytesOf(d) = BytesOf(explicitList) - (blk.start - low) - (high - End(blk))
      BY <2>2, <3>5, <3>6
    <3>8. BytesOf(d) = BytesOf(explicitList) - (high - low - blk.size)
      BY <2>0, <3>7
    <3> QED BY <2>0, <1>3, <3>5, <3>8
  <2> QED BY <2>3, <2>4
<1>8. IsFiniteSet(d \cup {m}) /\ BytesOf(d \cup {m}) = BytesOf(d) + m.size
  BY <1>5, <1>6, <1>7, BytesAdd, FS_AddElement
<1>9. IsFiniteSet(L) /\ BytesOf(L) = BytesOf(d) + m.size
  BY ONLY <1>5, <1>8
<1>10. BytesOf(L) = BytesOf(explicitList) + blk.size
  <2>1. BytesOf(explicitList) \in Nat /\ blk.size \in Nat
    BY <1>2, BytesNat DEF GoodList, Block
  <2> QED BY ONLY <1>1, <1>5, <1>7, <1>9, <2>1
<1>11. \A c \in L : c \in explicitList \/ c.start = blk.start \/ \E p \in mp : c.start = p.start
  BY <1>1, <1>3, <1>5
<1> QED BY <1>9, <1>10, <1>11
\* A carved list starts aligned when the list does and a multiple is cut off.
LEMMA CarveStarts ==
    ASSUME GoodList, Starts(explicitList), NEW n \in Nat, n % Align = 0, NEW b \in explicitList
    PROVE  Starts(Carve(b, n))
<1>1. \A c \in Carve(b, n) : c \in explicitList \/ c.start = b.start + n
  BY DEF Carve, FreeBlock
<1>2. b.start \in Nat /\ b.start % Align = 0
  BY DEF GoodList, Block, Starts
<1>3. (b.start + n) % Align = 0
  BY <1>2, MultipleSums
<1>4. \A c \in Carve(b, n) : c.start % Align = 0
  BY <1>1, <1>3 DEF Starts
<1> QED BY <1>4 DEF Starts

\* An address is given back.
LEMMA AddressFreeCounted ==
    ASSUME IInv, Counted, NEW blk \in Block, blk.size > 0, blk.start % Align = 0,
           \A b \in explicitList : Disjoint(b, blk), AddressFree(blk), size' = size
    PROVE  IsFiniteSet(explicitList') /\ SizesAddUp' /\ Starts(explicitList')
<1>1. GoodList
  BY IInvFacts
<1>2. MergeArgs(blk, MergePrev(blk), MergeSucc(blk))
  BY <1>1, MergeSetsExact
<1>3. PICK L : L = Coalesced(blk, MergePrev(blk), MergeSucc(blk))
  OBVIOUS
<1>4. explicitList' = L /\ totalAllocated' = totalAllocated - blk.size
  BY <1>3 DEF AddressFree
<1>5. /\ IsFiniteSet(L) /\ BytesOf(L) = BytesOf(explicitList) + blk.size
      /\ \A c \in L : c \in explicitList \/ c.start = blk.start
                      \/ \E p \in MergePrev(blk) : c.start = p.start
  BY <1>1, <1>2, <1>3, CoalescedBytes DEF Counted
<1>6. \A c \in L : c.start % Align = 0
  BY <1>2, <1>5 DEF Counted, Starts, MergeArgs
<1>7. BytesOf(explicitList) \in Nat
  BY <1>1, BytesNat DEF Counted, GoodList
<1>8. BytesOf(explicitList') = BytesOf(explicitList) + blk.size
  BY <1>4, <1>5
<1>9. BytesOf(explicitList') + totalAllocated' = size
  BY <1>4, <1>7, <1>8 DEF Counted, SizesAddUp, IInv, TypeOK, Block
<1> QED BY <1>4, <1>5, <1>6, <1>9 DEF SizesAddUp, Starts

\* allocate: the bytes of the new object leave the list, a multiple of the alignment.
LEMMA AllocateCounted ==
    ASSUME IInv, Counted, NEW o \in Objs, NEW raw \in RawSizes, Allocate(o, raw)
    PROVE  Counted'
<1>0. PICK n : n = AlignedSize(raw)
  OBVIOUS
<1>1. n \in Nat /\ n > 0 /\ n % Align = 0
  BY <1>0, AlignedSizePos, AlignedSizeMultiple
<1>2. PICK b \in explicitList :
         /\ b.size >= n
         /\ explicitList' = Carve(b, n)
         /\ region' = [region EXCEPT ![o] = FreeBlock(b.start, n)]
  BY <1>0 DEF Allocate, FirstFit
<1>3. /\ valid' = valid \cup {o}
      /\ totalAllocated' = totalAllocated + n
      /\ UNCHANGED <<size, batchTodo, currBlock, coalescedBlocks>>
  BY <1>0 DEF Allocate
<1>4. GoodList /\ region \in [Objs -> Block] /\ valid \subseteq Objs
  BY IInvFacts DEF IInv, TypeOK
<1>5. PICK L : L = Carve(b, n)
  OBVIOUS
<1>6. IsFiniteSet(L) /\ BytesOf(L) = BytesOf(explicitList) - n /\ Starts(L)
  BY <1>1, <1>2, <1>4, <1>5, CarveBytes, CarveStarts DEF Counted
<1>7. explicitList' = L
  BY <1>2, <1>5
<1>8. BytesOf(explicitList) \in Nat
  BY <1>4, BytesNat DEF Counted, GoodList
<1>9. BytesOf(explicitList') = BytesOf(explicitList) - n
  BY <1>6, <1>7
<1>10. SizesAddUp'
  BY <1>1, <1>3, <1>8, <1>9 DEF Counted, SizesAddUp, IInv, TypeOK
<1>11. \A p \in valid' : region'[p].start % Align = 0 /\ region'[p].size % Align = 0
  <2>1. region'[o].start = b.start /\ region'[o].size = n
    BY <1>2, <1>4 DEF FreeBlock
  <2>2. \A p \in valid : p # o => region'[p] = region[p]
    BY <1>2, <1>4
  <2> QED BY <1>1, <1>3, <2>1, <2>2 DEF Counted, AlignedBlocks, Starts
<1>12. Pending' = Pending
  BY <1>3 DEF Pending
<1> QED BY <1>6, <1>7, <1>10, <1>11, <1>12 DEF Counted, Starts, Aligned, AlignedBlocks

\* batched_allocate: so do those of its units, each a multiple from the block's start.
LEMMA BatchedAllocateCounted ==
    ASSUME IInv, Counted, NEW k \in 1..MaxBatch, NEW objs \in [0..(k-1) -> Objs],
           NEW raw \in RawSizes, BatchedAllocate(k, objs, raw)
    PROVE  Counted'
<1>0. PICK u : u = AlignedSize(raw)
  OBVIOUS
<1>1. u \in Nat /\ u > 0 /\ u % Align = 0 /\ k \in Nat /\ k > 0
  BY <1>0, AlignedSizePos, AlignedSizeMultiple
<1>2. PICK n : n = u * k
  OBVIOUS
<1>3. n \in Nat /\ n > 0 /\ n % Align = 0
  <2>1. n \in Nat /\ n > 0
    BY <1>1, <1>2
  <2> QED BY <1>1, <1>2, <2>1, MultipleSums
<1> DEFINE Dom == 0..(k-1)
           Idx(o) == CHOOSE i \in Dom : objs[i] = o
<1>4. PICK b \in explicitList :
         /\ b.size >= n
         /\ explicitList' = Carve(b, n)
         /\ region' = [o \in Objs |-> IF \E i \in Dom : objs[i] = o
                                      THEN FreeBlock(b.start + u * Idx(o), u)
                                      ELSE region[o]]
  BY <1>0, <1>2 DEF BatchedAllocate, FirstFit
<1>5. /\ valid' = valid \cup {objs[i] : i \in Dom}
      /\ totalAllocated' = totalAllocated + n
      /\ UNCHANGED <<size, batchTodo, currBlock, coalescedBlocks>>
  BY <1>0, <1>2 DEF BatchedAllocate
<1>6. GoodList /\ region \in [Objs -> Block] /\ valid \subseteq Objs
  BY IInvFacts DEF IInv, TypeOK
<1>7. PICK L : L = Carve(b, n)
  OBVIOUS
<1>8. IsFiniteSet(L) /\ BytesOf(L) = BytesOf(explicitList) - n /\ Starts(L)
  BY <1>3, <1>4, <1>6, <1>7, CarveBytes, CarveStarts DEF Counted
<1>9. explicitList' = L
  BY <1>4, <1>7
<1>10. BytesOf(explicitList) \in Nat
  BY <1>6, BytesNat DEF Counted, GoodList
<1>11. BytesOf(explicitList') = BytesOf(explicitList) - n
  BY <1>8, <1>9
<1>12. SizesAddUp'
  BY <1>3, <1>5, <1>10, <1>11 DEF Counted, SizesAddUp, IInv, TypeOK
<1>13. \A o \in valid' : region'[o].start % Align = 0 /\ region'[o].size % Align = 0
  <2> SUFFICES ASSUME NEW o \in valid'
               PROVE  region'[o].start % Align = 0 /\ region'[o].size % Align = 0
    OBVIOUS
  <2>0. o \in Objs
    BY <1>5, <1>6
  <2>1. CASE \E i \in Dom : objs[i] = o
    <3>1. PICK i : i = Idx(o)
      OBVIOUS
    <3>2. i \in Dom
      BY <2>1, <3>1
    <3>3. region'[o].start = b.start + u * i /\ region'[o].size = u
      BY <1>4, <2>0, <2>1, <3>1 DEF FreeBlock
    <3>4. i \in Nat /\ u * i \in Nat /\ b.start \in Nat /\ b.start % Align = 0
      BY <1>1, <1>6, <3>2 DEF Counted, Starts, GoodList, Block
    <3>5. (u * i) % Align = 0
      BY <1>1, <3>4, MultipleSums
    <3>6. (b.start + u * i) % Align = 0
      BY <3>4, <3>5, MultipleSums
    <3> QED BY <1>1, <3>3, <3>6
  <2>2. CASE ~\E i \in Dom : objs[i] = o
    <3>1. o \in valid
      BY <1>5, <2>2
    <3>2. region'[o] = region[o]
      BY <1>4, <2>0, <2>2
    <3> QED BY <3>1, <3>2 DEF Counted, AlignedBlocks
  <2> QED BY <2>1, <2>2
<1>14. Pending' = Pending
  BY <1>5 DEF Pending
<1> QED BY <1>8, <1>9, <1>12, <1>13, <1>14 DEF Counted, Starts, Aligned, AlignedBlocks

\* free: the bytes of an object come back.
LEMMA FreeCounted ==
    ASSUME IInv, Counted, NEW o \in Objs, Free(o)
    PROVE  Counted'
<1>1. /\ o \in valid /\ valid' = valid \ {o} /\ AddressFree(region[o])
      /\ UNCHANGED <<size, region, batchTodo, currBlock, coalescedBlocks>>
  BY DEF Free
<1>2. PICK blk : blk = region[o]
  OBVIOUS
<1>3. /\ blk \in Block /\ blk.size > 0 /\ blk.start % Align = 0
      /\ \A b \in explicitList : Disjoint(b, blk)
  BY <1>1, <1>2, IInvFacts DEF IInv, InHeap, NoOverlap, Disjoint, Counted, AlignedBlocks
<1>4. IsFiniteSet(explicitList') /\ SizesAddUp' /\ Starts(explicitList')
  BY <1>1, <1>2, <1>3, AddressFreeCounted
<1>5. Pending' = Pending
  BY <1>1 DEF Pending
<1> QED BY <1>1, <1>4, <1>5 DEF Counted, Starts, Aligned, AlignedBlocks

\* A scan joins aligned regions; the list stays as it is.
LEMMA BatchedFreeScanCounted ==
    ASSUME IInv, Counted, NEW o \in Objs, BatchedFreeScan(o)
    PROVE  Counted'
<1>1. valid' = valid \ {o} /\ UNCHANGED <<explicitList, size, totalAllocated, region>>
  BY DEF BatchedFreeScan
<1>2. IsFiniteSet(explicitList') /\ SizesAddUp' /\ Starts(explicitList') /\ AlignedBlocks'
  BY <1>1 DEF Counted, SizesAddUp, Starts, AlignedBlocks
<1>3. \A b \in Pending' : b.start % Align = 0 /\ b.size % Align = 0
  <2>1. CASE o \notin valid
    <3>1. Pending' = Pending
      BY <2>1 DEF BatchedFreeScan, Pending
    <3> QED BY <3>1 DEF Counted, Aligned
  <2>2. CASE o \in valid /\ (currBlock = NoBlock \/ ~CanBeCoalesced(currBlock, region[o]))
    <3>1. Pending' \subseteq Pending \cup {region[o]}
      BY <2>2 DEF BatchedFreeScan, Pending
    <3> QED BY <2>2, <3>1 DEF Counted, Aligned, AlignedBlocks
  <2>3. CASE o \in valid /\ currBlock # NoBlock /\ CanBeCoalesced(currBlock, region[o])
    <3> DEFINE new == FreeBlock(currBlock.start, currBlock.size + region[o].size)
    <3>1. Pending' \subseteq Pending \cup {new} /\ currBlock \in Pending
      BY <2>3 DEF BatchedFreeScan, Pending
    <3>2. currBlock.size \in Nat /\ region[o].size \in Nat
      BY DEF IInv, TypeOK, Block
    <3>3. currBlock.start % Align = 0 /\ currBlock.size % Align = 0 /\ region[o].size % Align = 0
      BY <2>3, <3>1 DEF Counted, Aligned, AlignedBlocks
    <3>4. (currBlock.size + region[o].size) % Align = 0
      BY <3>2, <3>3, MultipleSums
    <3>5. new.start % Align = 0 /\ new.size % Align = 0
      BY <3>3, <3>4 DEF FreeBlock
    <3> HIDE DEF new
    <3> QED BY <3>1, <3>5 DEF Counted, Aligned
  <2> QED BY <2>1, <2>2, <2>3
<1> QED BY <1>2, <1>3 DEF Counted, Aligned

\* batched_free: the bytes of a coalesced block come back.
LEMMA BatchedFreeReleaseCounted ==
    ASSUME IInv, Counted, NEW blk \in coalescedBlocks, BatchedFreeRelease(blk)
    PROVE  Counted'
<1>1. /\ AddressFree(blk) /\ coalescedBlocks' = coalescedBlocks \ {blk}
      /\ UNCHANGED <<size, region, valid, batchTodo, currBlock>>
  BY DEF BatchedFreeRelease
<1>2. /\ blk \in Pending /\ blk \in Block /\ blk.size > 0 /\ blk.start % Align = 0
      /\ \A b \in explicitList : Disjoint(b, blk)
  BY IInvFacts DEF IInv, InHeap, NoOverlap, Disjoint, Counted, Aligned, Pending
<1>3. IsFiniteSet(explicitList') /\ SizesAddUp' /\ Starts(explicitList')
  BY <1>1, <1>2, AddressFreeCounted
<1>4. Pending' \subseteq Pending
  BY <1>1 DEF Pending
<1> QED BY <1>1, <1>3, <1>4 DEF Counted, Starts, Aligned, AlignedBlocks

\* When the size is no multiple of the alignment, the last bytes are free: nothing
\* aligned ends there.
LEMMA TailFree ==
    ASSUME IInv, Counted, size > 0, size % Align # 0
    PROVE  \E p \in explicitList : End(p) = size
<1>1. size \in Nat /\ size - 1 \in 0..(size - 1)
  BY DEF IInv, TypeOK
<1>2. ASSUME NEW b \in Block, End(b) <= size, Covers(b, size - 1) PROVE End(b) = size
  BY <1>1, <1>2 DEF Covers, End, Block
<1>3. ASSUME NEW b \in Block, b.start % Align = 0, b.size % Align = 0 PROVE End(b) # size
  <2>1. b.start \in Nat /\ b.size \in Nat
    BY DEF Block
  <2>2. (b.start + b.size) % Align = 0
    BY <1>3, <2>1, MultipleSums
  <2> QED BY <2>2 DEF End
<1>4. \A b \in Pending : ~Covers(b, size - 1)
  BY <1>2, <1>3, IInvFacts DEF IInv, InHeap, Counted, Aligned
<1>5. \A o \in valid : ~Covers(region[o], size - 1)
  BY <1>2, <1>3, IInvFacts DEF IInv, InHeap, Counted, AlignedBlocks
<1>6. PICK b \in explicitList : Covers(b, size - 1)
  BY <1>1, <1>4, <1>5 DEF IInv, NoLeak
<1> QED BY <1>2, <1>6, IInvFacts DEF IInv, InHeap, GoodList

\* sbrk: the new bytes are free, and start aligned or belong to the tail they extend.
LEMMA SbrkCounted ==
    ASSUME IInv, Counted, NEW raw \in RawSizes, Sbrk(raw)
    PROVE  Counted'
<1>0. PICK n : n = AlignedSize(raw)
  OBVIOUS
<1>1. n \in Nat /\ n > 0 /\ size \in Nat /\ totalAllocated \in Int
  BY <1>0, AlignedSizePos DEF IInv, TypeOK
<1>2. PICK blk : blk = FreeBlock(size, n)
  OBVIOUS
<1>3. blk \in Block /\ blk.size = n /\ blk.start = size /\ End(blk) = size + n
  BY <1>1, <1>2 DEF FreeBlock, Block, End
<1>4. PICK mp : mp = {p \in explicitList : IsLast(p) /\ CanBeCoalesced(p, blk)}
  OBVIOUS
<1>5. /\ explicitList' = Coalesced(blk, mp, {})
      /\ size' = size + n
      /\ UNCHANGED <<totalAllocated, region, valid, batchTodo, currBlock, coalescedBlocks>>
  BY <1>0, <1>2, <1>4 DEF Sbrk
<1>6. GoodList
  BY IInvFacts
<1>7. MergeArgs(blk, mp, {})
  <2>1. \A b \in explicitList : Disjoint(b, blk) /\ End(blk) # b.start
    BY <1>1, <1>3, <1>6 DEF Disjoint, IInv, InHeap, GoodList, End, Block
  <2>2. ASSUME NEW p \in explicitList, End(p) = blk.start PROVE IsLast(p)
    BY <1>1, <1>3, <1>6, <2>2 DEF IInv, InHeap, GoodList, FullyCoalesced, End, Block, IsLast
  <2>3. mp = {p \in explicitList : End(p) = blk.start}
    BY <1>4, <2>2 DEF CanBeCoalesced
  <2> QED BY <1>1, <1>3, <2>1, <2>3 DEF MergeArgs
<1>8. PICK L : L = Coalesced(blk, mp, {})
  OBVIOUS
<1>9. /\ IsFiniteSet(L) /\ BytesOf(L) = BytesOf(explicitList) + n
      /\ \A c \in L : c \in explicitList \/ c.start = size \/ \E p \in mp : c.start = p.start
  BY <1>3, <1>6, <1>7, <1>8, CoalescedBytes DEF Counted
<1>10. explicitList' = L
  BY <1>5, <1>8
<1>11. BytesOf(explicitList) \in Nat
  BY <1>6, BytesNat DEF Counted, GoodList
<1>12. BytesOf(explicitList') = BytesOf(explicitList) + n
  BY <1>9, <1>10
<1>13. SizesAddUp'
  BY <1>1, <1>5, <1>11, <1>12 DEF Counted, SizesAddUp
<1>14. \A c \in L : c.start % Align = 0
  <2>1. CASE size % Align = 0
    BY <1>7, <1>9, <2>1 DEF Counted, Starts, MergeArgs
  <2>2. CASE size % Align # 0
    <3>1. size > 0
      <4>1. 0 % Align = 0
        BY Multiples, AlignAssumption
      <4> QED BY <1>1, <2>2, <4>1
    <3>2. PICK p \in explicitList : End(p) = size
      BY <2>2, <3>1, TailFree
    <3>3. p \in mp
      BY <1>3, <1>7, <3>2 DEF MergeArgs
    <3>4. \A c \in L : c.start # size
      <4> SUFFICES ASSUME NEW c \in L, c.start = size PROVE FALSE
        OBVIOUS
      <4>0. L \subseteq Block /\ \A d \in explicitList : d.start < size /\ d \in Block
        <5>1. \A d \in explicitList : d.start < size /\ d \in Block
          BY <1>1, <1>6 DEF IInv, InHeap, GoodList, End, Block
        <5>2. L \subseteq Block
          BY <1>6, <1>7, <1>8, InsertBlock
        <5> QED BY <5>1, <5>2
      <4>1. c \notin explicitList
        BY <4>0, <1>1
      <4>2. PICK low, high \in Nat :
              /\ L = (explicitList \ (mp \cup {})) \cup {FreeBlock(low, high - low)}
              /\ \/ mp = {} /\ low = blk.start
                 \/ \E q \in explicitList : mp = {q} /\ low = q.start /\ End(q) = blk.start
              /\ \/ {} = {} /\ high = End(blk)
                 \/ \E q \in explicitList : {} = {q} /\ high = End(q) /\ End(blk) = q.start
        BY <1>6, <1>7, <1>8, CoalescedShape
      <4>3. \E q \in explicitList : low = q.start
        BY <3>3, <4>2
      <4>4. c.start = low
        BY <4>1, <4>2 DEF FreeBlock
      <4> QED BY <1>1, <4>0, <4>3, <4>4
    <3> QED BY <1>7, <1>9, <3>4 DEF Counted, Starts, MergeArgs
  <2> QED BY <2>1, <2>2
<1>15. Pending' = Pending
  BY <1>5 DEF Pending
<1> QED BY <1>5, <1>9, <1>10, <1>13, <1>14, <1>15 DEF Counted, Starts, Aligned, AlignedBlocks

\* The counters of the allocator are exact, and its blocks aligned, in every state.
THEOREM AccountsExact == Spec => []Accounted
<1>1. Init => Counted
  <2> SUFFICES ASSUME Init PROVE Counted
    OBVIOUS
  <2>1. PICK b : b = FreeBlock(0, InitSize)
    OBVIOUS
  <2>2. b \in Block /\ b.start = 0 /\ b.size = InitSize /\ InitSize \in Nat
    BY <2>1, SizeAssumption DEF FreeBlock, Block
  <2>3. explicitList = {} \cup {b} /\ Pending = {} /\ valid = {} /\ totalAllocated = 0 /\ size = InitSize
    BY <2>1 DEF Init, Pending
  <2>4. IsFiniteSet({}) /\ BytesOf({}) = 0
    BY BytesNat, FS_EmptySet
  <2>5. IsFiniteSet({} \cup {b}) /\ BytesOf({} \cup {b}) = 0 + b.size
    <3>1. b \notin {} /\ {} \in SUBSET Block
      OBVIOUS
    <3>2. IsFiniteSet({} \cup {b})
      BY <2>4, FS_AddElement
    <3>3. BytesOf({} \cup {b}) = BytesOf({}) + b.size
      BY <2>2, <2>4, <3>1, BytesAdd
    <3> QED BY <2>4, <3>2, <3>3
  <2>6. IsFiniteSet(explicitList) /\ BytesOf(explicitList) = InitSize
    BY <2>2, <2>3, <2>5
  <2>7. SizesAddUp
    BY <2>2, <2>3, <2>6 DEF SizesAddUp
  <2>8. \A c \in explicitList : c.start % Align = 0
    <3>1. 0 % Align = 0
      BY Multiples, AlignAssumption
    <3> QED BY <2>2, <2>3, <3>1
  <2> QED BY <2>3, <2>6, <2>7, <2>8 DEF Counted, Starts, Aligned, AlignedBlocks
<1>2. IInv /\ Counted /\ [Next]_vars => Counted'
  <2> SUFFICES ASSUME IInv, Counted, [Next]_vars PROVE Counted'
    OBVIOUS
  <2>1. CASE \E o \in Objs, raw \in RawSizes : Allocate(o, raw)
    BY <2>1, AllocateCounted
  <2>2. CASE \E k \in 1..MaxBatch : \E objs \in [0..(k-1) -> Objs], raw \in RawSizes :
                BatchedAllocate(k, objs, raw)
    BY <2>2, BatchedAllocateCounted
  <2>3. CASE \E o \in Objs : Free(o)
    BY <2>3, FreeCounted
  <2>4. CASE \E os \in SUBSET Objs : BatchedFreeBegin(os)
    BY <2>4 DEF BatchedFreeBegin, Counted, SizesAddUp, Starts, Aligned, AlignedBlocks, Pending
  <2>5. CASE \E o \in Objs : BatchedFreeScan(o)
    BY <2>5, BatchedFreeScanCounted
  <2>6. CASE BatchedFreeScanned
    <3>1. Pending' = Pending
      BY <2>6 DEF BatchedFreeScanned, Pending
    <3> QED BY <2>6, <3>1 DEF BatchedFreeScanned, Counted, SizesAddUp, Starts, Aligned, AlignedBlocks
  <2>7. CASE \E b \in coalescedBlocks : BatchedFreeRelease(b)
    BY <2>7, BatchedFreeReleaseCounted
  <2>8. CASE \E raw \in RawSizes : Sbrk(raw)
    BY <2>8, SbrkCounted
  <2>9. CASE UNCHANGED vars
    BY <2>9 DEF vars, Counted, SizesAddUp, Starts, Aligned, AlignedBlocks, Pending
  <2> QED BY <2>1, <2>2, <2>3, <2>4, <2>5, <2>6, <2>7, <2>8, <2>9 DEF Next
<1>3. IInv /\ Counted => Accounted
  BY DEF IInv, Counted, Accounted
<1>4. Spec => []IInv
  BY Geometry
<1> QED BY <1>1, <1>2, <1>3, <1>4, PTL DEF Spec
=============================================================================
