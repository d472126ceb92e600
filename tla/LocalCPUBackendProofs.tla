------------------------ MODULE LocalCPUBackendProofs ------------------------
(***************************************************************************)
(* Proofs about the CPU hot cache, for any sets of keys and buffers, any   *)
(* number of threads, any requests and any configurations.                 *)
(***************************************************************************)
EXTENDS LocalCPUBackend, DictionaryProofs

\* A forced removal while a peer's request is under way makes
\* _handle_batched_lookup_and_get lose the references it has taken, so the counts
\* are exact only in the configurations without one or the other.
PeersUndisturbed == \A m \in Modes : m.active \cap Peers = {} \/ m.admin = {}

\* The lists of the requests.
Entries == Keys \X Objs
ListsOK ==
    /\ held \in [Threads -> Seq(Entries)] /\ pinned \in [Threads -> Seq(Entries)]
    /\ todo \in [Threads -> Seq(Keys)]

\* What a thread has at each point of its request.
ShapeOf(t) ==
    /\ pc[t] # "idle" => t \in mode.active
    /\ pc[t] = "idle" => held[t] = <<>> /\ pinned[t] = <<>>
    /\ pc[t] \in {"alloc", "evict", "put"} => t \in Stores \cup Loads
    /\ pc[t] \in {"alloc", "evict"} => todo[t] # <<>>
    /\ pc[t] = "contains" => t \in Lookups
    /\ pc[t] = "get" => t \in Lookups \cup Peers
    /\ pc[t] = "get" /\ t \in Peers => held[t] = <<>>
    /\ pinned[t] # <<>> => t \in Lookups \cup Peers
RequestsShape == \A t \in Threads : ShapeOf(t)

\* What is counted is finite.
Finite ==
    \A o \in Objs : /\ IsFiniteSet(Places(held, o)) /\ IsFiniteSet(Places(pinned, o))
                    /\ IsFiniteSet(KeysOf(o))

\* While nothing is removed by force and no peer asks, every key that waits for
\* touch_cache is pinned by a lookup that has not come to it.
KeysPinned ==
    AdminOps = {} /\ mode.active \cap Peers = {} =>
        \A i \in DOMAIN keysInRequest : \E t \in Threads :
            pc[t] = "contains" /\ \E j \in DOMAIN pinned[t] : pinned[t][j][1] = keysInRequest[i]

\* Without clear() there is no list of keys to remove.
ClearIdle == "clear" \notin AdminOps => clearKeys = <<>>

IInv ==
    /\ PolicyInSync /\ ListsOK /\ RequestsShape /\ Finite /\ RefsExact
    /\ PinnedStays /\ PinsCovered /\ KeysPinned /\ TouchNeverRaises /\ ClearIdle

-----------------------------------------------------------------------------
(* Counting the references and pins of the requests. *)

\* The lists after a thread adds an entry to its own, removes the first one, or
\* fills its empty list.
Lists == [Threads -> Seq(Entries)]
Adds(lists, new, t, k, x) ==
    /\ lists \in Lists /\ t \in Threads /\ k \in Keys /\ x \in Objs
    /\ new = [lists EXCEPT ![t] = Append(@, <<k, x>>)]
Drops(lists, new, t) ==
    /\ lists \in Lists /\ t \in Threads /\ lists[t] # <<>>
    /\ new = [lists EXCEPT ![t] = Tail(@)]
Fills(lists, new, t, s) ==
    /\ lists \in Lists /\ t \in Threads /\ lists[t] = <<>> /\ s \in Seq(Entries)
    /\ new = [lists EXCEPT ![t] = s]

\* An entry added to a list is one reference more to its object.
LEMMA PlacesAppend ==
    ASSUME NEW lists, NEW new, NEW t, NEW k, NEW x, Adds(lists, new, t, k, x),
           NEW o \in Objs, IsFiniteSet(Places(lists, o))
    PROVE  /\ IsFiniteSet(Places(new, o)) /\ new \in Lists
           /\ Cardinality(Places(new, o)) = Cardinality(Places(lists, o)) + (IF o = x THEN 1 ELSE 0)
<1> USE DEF Adds, Lists
<1> DEFINE n == Len(lists[t]) + 1
<1>1. /\ lists[t] \in Seq(Entries) /\ Len(lists[t]) \in Nat /\ DOMAIN lists[t] = 1..Len(lists[t])
      /\ <<k, x>> \in Entries
  BY LenProperties DEF Entries
<1>2. /\ new[t] \in Seq(Entries) /\ Len(new[t]) = n /\ new[t][n] = <<k, x>>
      /\ \A i \in 1..Len(lists[t]) : new[t][i] = lists[t][i]
      /\ \A u \in Threads : u # t => new[u] = lists[u]
  BY <1>1, AppendProperties
<1>3. DOMAIN new[t] = 1..n
  BY <1>2, LenProperties
<1>4. <<t, n>> \notin Places(lists, o)
  BY <1>1 DEF Places
<1>0. Cardinality(Places(lists, o)) \in Nat /\ new \in Lists
  BY <1>1, <1>2, FS_CardinalityType
<1>5. CASE o = x
  <2>1. Places(new, o) = Places(lists, o) \cup {<<t, n>>}
    <3>1. ASSUME NEW u \in Threads, NEW i
          PROVE  i \in DOMAIN new[u] /\ new[u][i][2] = o
                    <=> (i \in DOMAIN lists[u] /\ lists[u][i][2] = o) \/ (u = t /\ i = n)
      BY <1>1, <1>2, <1>3, <1>5
    <3> QED BY <3>1 DEF Places
  <2> HIDE DEF n
  <2>2. IsFiniteSet(Places(new, o)) /\ Cardinality(Places(new, o)) = Cardinality(Places(lists, o)) + 1
    BY ONLY IsFiniteSet(Places(lists, o)), <1>4, <2>1, FS_AddElement
  <2> QED BY ONLY <1>0, <1>5, <2>2
<1>6. CASE o # x
  <2>1. Places(new, o) = Places(lists, o)
    <3>1. ASSUME NEW u \in Threads, NEW i
          PROVE  i \in DOMAIN new[u] /\ new[u][i][2] = o
                    <=> i \in DOMAIN lists[u] /\ lists[u][i][2] = o
      BY <1>1, <1>2, <1>3, <1>6
    <3> QED BY <3>1 DEF Places
  <2> QED BY ONLY <1>0, <1>6, <2>1, IsFiniteSet(Places(lists, o))
<1> QED BY ONLY <1>5, <1>6

\* The first entry removed is one reference less.
LEMMA PlacesTail ==
    ASSUME NEW lists, NEW new, NEW t, Drops(lists, new, t),
           NEW o \in Objs, IsFiniteSet(Places(lists, o))
    PROVE  /\ IsFiniteSet(Places(new, o)) /\ new \in Lists
           /\ Cardinality(Places(new, o))
                 = Cardinality(Places(lists, o)) - (IF o = Head(lists[t])[2] THEN 1 ELSE 0)
<1> USE DEF Drops, Lists
<1> DEFINE n == Len(lists[t])
           P == Places(lists, o) \ {<<t, 1>>}
           f == [p \in P |-> IF p[1] = t THEN <<t, p[2] - 1>> ELSE p]
<1>1. /\ lists[t] \in Seq(Entries) /\ n \in Nat \ {0} /\ DOMAIN lists[t] = 1..n
      /\ Head(lists[t]) = lists[t][1]
  BY LenProperties, EmptySeq
<1>2. /\ new[t] \in Seq(Entries) /\ Len(new[t]) = n - 1
      /\ \A i \in 1..n - 1 : new[t][i] = lists[t][i + 1]
      /\ \A u \in Threads : u # t => new[u] = lists[u]
  BY <1>1, HeadTailProperties
<1>3. DOMAIN new[t] = 1..n - 1
  BY <1>2, LenProperties
<1>4. IsFiniteSet(P)
      /\ Cardinality(P) = Cardinality(Places(lists, o)) - (IF o = Head(lists[t])[2] THEN 1 ELSE 0)
  <2>1. <<t, 1>> \in Places(lists, o) <=> o = Head(lists[t])[2]
    BY <1>1 DEF Places
  <2>2. Cardinality(Places(lists, o)) \in Nat
    BY FS_CardinalityType
  <2>3. /\ IsFiniteSet(P)
        /\ <<t, 1>> \in Places(lists, o) => Cardinality(P) = Cardinality(Places(lists, o)) - 1
        /\ <<t, 1>> \notin Places(lists, o) => P = Places(lists, o)
    BY FS_RemoveElement
  <2> HIDE DEF P
  <2> QED BY <2>1, <2>2, <2>3
<1>5. f \in Bijection(P, Places(new, o))
  <2>1. \A u, i : <<u, i>> \in P <=> /\ u \in Threads /\ i \in DOMAIN lists[u]
                                     /\ lists[u][i][2] = o /\ ~(u = t /\ i = 1)
    BY DEF Places
  <2>2. \A u, i : <<u, i>> \in Places(new, o) <=> /\ u \in Threads /\ i \in DOMAIN new[u]
                                                  /\ new[u][i][2] = o
    BY DEF Places
  <2>3. \A p \in P : p = <<p[1], p[2]>>
    BY DEF Places
  <2>4. \A q \in Places(new, o) : q = <<q[1], q[2]>>
    BY DEF Places
  <2>5. \A p \in P : f[p] = IF p[1] = t THEN <<t, p[2] - 1>> ELSE p
    OBVIOUS
  <2>6. \A p \in P : p[1] = t => p[2] \in 2..n
    BY <1>1, <2>1, <2>3
  <2> HIDE DEF f, P
  <2>7. ASSUME NEW p \in P PROVE f[p] \in Places(new, o)
    <3>1. CASE p[1] = t
      <4>1. p[2] \in 2..n /\ lists[t][p[2]][2] = o
        BY <2>1, <2>3, <2>6, <3>1
      <4>2. p[2] - 1 \in 1..n - 1 /\ new[t][p[2] - 1] = lists[t][p[2]]
        <5>1. p[2] - 1 \in 1..n - 1 /\ p[2] - 1 + 1 = p[2]
          BY <1>1, <4>1
        <5> QED BY <1>2, <5>1
      <4>3. <<t, p[2] - 1>> \in Places(new, o)
        BY <1>3, <2>2, <4>1, <4>2
      <4> QED BY <2>5, <3>1, <4>3
    <3>2. CASE p[1] # t
      <4>1. p[1] \in Threads /\ p[2] \in DOMAIN lists[p[1]] /\ lists[p[1]][p[2]][2] = o
        BY <2>1, <2>3
      <4>2. <<p[1], p[2]>> \in Places(new, o)
        BY <1>2, <2>2, <3>2, <4>1
      <4>3. f[p] = p
        BY <2>5, <3>2
      <4> QED BY <2>3, <4>2, <4>3
    <3> QED BY <3>1, <3>2
  <2>8. ASSUME NEW p \in P, NEW q \in P, f[p] = f[q] PROVE p = q
    <3>1. CASE p[1] = t /\ q[1] = t
      <4>1. <<t, p[2] - 1>> = <<t, q[2] - 1>> /\ p[2] \in 2..n /\ q[2] \in 2..n
        BY <2>5, <2>6, <2>8, <3>1
      <4>2. p[2] = q[2]
        BY <1>1, <4>1
      <4> QED BY <2>3, <3>1, <4>2
    <3>2. CASE p[1] # t /\ q[1] # t
      BY <2>5, <2>8, <3>2
    <3>3. CASE p[1] = t /\ q[1] # t
      <4>1. <<t, p[2] - 1>> = q
        BY <2>5, <2>8, <3>3
      <4> QED BY <3>3, <4>1
    <3>4. CASE p[1] # t /\ q[1] = t
      <4>1. <<t, q[2] - 1>> = p
        BY <2>5, <2>8, <3>4
      <4> QED BY <3>4, <4>1
    <3> QED BY <3>1, <3>2, <3>3, <3>4
  <2>9. ASSUME NEW q \in Places(new, o) PROVE \E p \in P : f[p] = q
    <3>0. q[1] \in Threads /\ q[2] \in DOMAIN new[q[1]] /\ new[q[1]][q[2]][2] = o
      <4>1. <<q[1], q[2]>> \in Places(new, o)
        BY <2>4
      <4> QED BY <2>2, <4>1
    <3>1. CASE q[1] = t
      <4>1. q[2] \in 1..n - 1
        BY <1>3, <3>0, <3>1
      <4>2. q[2] + 1 \in 1..n /\ lists[t][q[2] + 1][2] = o /\ q[2] + 1 # 1
        BY <1>1, <1>2, <3>0, <3>1, <4>1
      <4>3. <<t, q[2] + 1>> \in P
        BY <1>1, <2>1, <4>2
      <4>4. f[<<t, q[2] + 1>>] = <<t, (q[2] + 1) - 1>>
        BY <2>5, <4>3
      <4>5. (q[2] + 1) - 1 = q[2]
        BY <4>1
      <4> QED BY <2>4, <3>1, <4>3, <4>4, <4>5
    <3>2. CASE q[1] # t
      <4>1. <<q[1], q[2]>> \in P
        BY <1>2, <2>1, <3>0, <3>2
      <4> QED BY <2>4, <2>5, <3>2, <4>1
    <3> QED BY <3>1, <3>2
  <2>10. f \in [P -> Places(new, o)]
    BY <2>7 DEF f
  <2> QED BY <2>8, <2>9, <2>10 DEF Bijection, Injection, Surjection, IsInjective
<1> HIDE DEF P, f
<1>6. IsFiniteSet(Places(new, o)) /\ Cardinality(Places(new, o)) = Cardinality(P)
  BY <1>4, <1>5, FS_Bijection DEF ExistsBijection
<1> QED BY <1>4, <1>6

\* A list that was empty brings its own entries.
LEMMA PlacesNew ==
    ASSUME NEW lists, NEW new, NEW t, NEW s, Fills(lists, new, t, s),
           NEW o \in Objs, IsFiniteSet(Places(lists, o))
    PROVE  /\ IsFiniteSet(Places(new, o)) /\ new \in Lists
           /\ Cardinality(Places(new, o))
                 = Cardinality(Places(lists, o)) + Cardinality({i \in DOMAIN s : s[i][2] = o})
           /\ Cardinality({i \in DOMAIN s : s[i][2] = o}) \in Nat
<1> USE DEF Fills, Lists
<1> DEFINE D == {i \in DOMAIN s : s[i][2] = o}
           E == {<<t, i>> : i \in D}
           f == [i \in D |-> <<t, i>>]
<1>1. DOMAIN s = 1..Len(s) /\ Len(s) \in Nat /\ DOMAIN lists[t] = {}
  BY LenProperties, EmptySeq
<1>2. IsFiniteSet(D)
  <2>1. D \subseteq 1..Len(s)
    BY <1>1
  <2>2. IsFiniteSet(1..Len(s))
    BY <1>1, FS_Interval
  <2> QED BY <2>1, <2>2, FS_Subset
<1>3. Places(new, o) = Places(lists, o) \cup E
  <2>1. ASSUME NEW u \in Threads, NEW i
        PROVE  i \in DOMAIN new[u] /\ new[u][i][2] = o
                  <=> (i \in DOMAIN lists[u] /\ lists[u][i][2] = o) \/ (u = t /\ i \in D)
    BY <1>1
  <2> QED BY <2>1 DEF Places
<1>4. Places(lists, o) \cap E = {}
  BY <1>1 DEF Places
<1>5. IsFiniteSet(E) /\ Cardinality(E) = Cardinality(D)
  <2>1. f \in Bijection(D, E)
    BY DEF Bijection, Injection, Surjection, IsInjective
  <2> QED BY <1>2, <2>1, FS_Bijection DEF ExistsBijection
<1> HIDE DEF D, E
<1>6. IsFiniteSet(Places(new, o))
      /\ Cardinality(Places(new, o))
           = Cardinality(Places(lists, o)) + Cardinality(E) - Cardinality(Places(lists, o) \cap E)
  BY <1>3, <1>5, FS_Union
<1>7. Cardinality(Places(lists, o) \cap E) = 0
  BY <1>4, FS_EmptySet
<1>8. Cardinality(D) \in Nat /\ Cardinality(Places(lists, o)) \in Nat
  BY <1>2, FS_CardinalityType
<1> QED BY <1>5, <1>6, <1>7, <1>8 DEF D

\* An object in a list is counted.
LEMMA PlacesNonEmpty ==
    ASSUME NEW lists \in [Threads -> Seq(Entries)], NEW t \in Threads, NEW i \in DOMAIN lists[t],
           NEW o, o = lists[t][i][2], IsFiniteSet(Places(lists, o))
    PROVE  Cardinality(Places(lists, o)) \in Nat \ {0}
<1>1. <<t, i>> \in Places(lists, o)
  BY DEF Places
<1> QED BY <1>1, FS_CardinalityType, FS_EmptySet

-----------------------------------------------------------------------------
(* The operations of an object. *)

\* Exactly the objects without reference and pin are free.
FreeExact == \A o \in Objs : o \in free <=> refCount[o] = 0 /\ pinCount[o] = 0

\* A reference given up: the count stays exact and the buffer is freed with the last use.
LEMMA RefDownEffect ==
    ASSUME TypeOK, FreeExact, NEW o \in Objs, RefCountDown(o), refCount[o] > 0
    PROVE  /\ refCount' = [refCount EXCEPT ![o] = refCount[o] - 1]
           /\ refCount' \in [Objs -> Nat] /\ pinCount' = pinCount /\ free' \subseteq Objs
           /\ FreeExact'
<1>1. refCount[o] \in Nat \ {0} /\ refCount \in [Objs -> Nat] /\ pinCount' = pinCount
  BY DEF TypeOK, RefCountDown
<1>2. AtLeastZero(refCount[o] - 1) = refCount[o] - 1
  BY <1>1 DEF AtLeastZero
<1>3. /\ refCount' = [refCount EXCEPT ![o] = refCount[o] - 1]
      /\ free' = IF refCount[o] - 1 = 0 /\ pinCount[o] = 0 THEN free \cup {o} ELSE free
  BY <1>2 DEF RefCountDown
<1> QED BY <1>1, <1>3 DEF FreeExact, TypeOK

\* A pin given back, or one too many, which leaves the count at zero.
LEMMA UnpinEffect ==
    ASSUME TypeOK, FreeExact, NEW o \in Objs, UnpinObj(o)
    PROVE  /\ pinCount' = [pinCount EXCEPT ![o] = IF @ = 0 THEN 0 ELSE @ - 1]
           /\ pinCount' \in [Objs -> Nat] /\ refCount' = refCount /\ free' \subseteq Objs
           /\ FreeExact'
<1>1. pinCount[o] \in Nat /\ pinCount \in [Objs -> Nat] /\ refCount' = refCount
  BY DEF TypeOK, UnpinObj
<1>2. AtLeastZero(pinCount[o] - 1) = IF pinCount[o] = 0 THEN 0 ELSE pinCount[o] - 1
  BY <1>1 DEF AtLeastZero
<1>3. /\ pinCount' = [pinCount EXCEPT ![o] = IF @ = 0 THEN 0 ELSE @ - 1]
      /\ free' = IF pinCount[o] <= 1 /\ refCount[o] = 0 THEN free \cup {o} ELSE free
  BY <1>2 DEF UnpinObj
<1> QED BY <1>1, <1>3 DEF FreeExact, TypeOK

\* The entries of the dictionary and of the buckets after a key is popped.
LEMMA DropPolicyEffect ==
    ASSUME TypeOK, InSync, NEW k \in Keys, InHot(k), hotCache' = Without(hotCache, k),
           objOf' = [objOf EXCEPT ![k] = NoObj], DropPolicy(k), mode' = mode
    PROVE  /\ hotCache' \in Seq(Keys) /\ bucketOrder' \in Seq(Keys)
           /\ keyToFreq' \in [Keys -> 0..MaxFreq] /\ objOf' \in [Keys -> Objs \cup {NoObj}]
           /\ InSync'
           /\ \A j \in Keys : InHot(j)' <=> InHot(j) /\ j # k
<1>0. hotCache \in Seq(Keys) /\ IsInjective(hotCache) /\ Policy' = Policy
  BY DEF TypeOK, InSync, Policy
<1>1. /\ hotCache' \in Seq(Keys) /\ Range(hotCache') = Range(hotCache) \ {k}
      /\ IsInjective(hotCache')
  BY <1>0, WithoutIs
<1>2. \A j \in Keys : InHot(j)' <=> InHot(j) /\ j # k
  BY <1>1 DEF InHot
<1>3. objOf' \in [Keys -> Objs \cup {NoObj}] /\ \A j \in Keys : InHot(j)' <=> objOf'[j] # NoObj
  BY <1>2 DEF TypeOK, InSync
<1>4. CASE Policy = "LFU"
  <2>1. /\ keyToFreq' = [keyToFreq EXCEPT ![k] = 0] /\ bucketOrder' = Without(bucketOrder, k)
        /\ bucketOrder \in Seq(Keys) /\ IsInjective(bucketOrder)
        /\ Range(bucketOrder) = Range(hotCache)
    BY <1>4 DEF DropPolicy, InSync, TypeOK
  <2>2. /\ bucketOrder' \in Seq(Keys) /\ Range(bucketOrder') = Range(bucketOrder) \ {k}
        /\ IsInjective(bucketOrder')
    BY <2>1, WithoutIs
  <2>3. keyToFreq' \in [Keys -> 0..MaxFreq] /\ \A j \in Keys : keyToFreq'[j] > 0 <=> InHot(j)'
    BY <1>2, <1>4, <2>1, BoundAssumption DEF TypeOK, InSync
  <2> QED BY <1>1, <1>2, <1>3, <2>1, <2>2, <2>3 DEF InSync
<1>5. CASE Policy # "LFU"
  <2>1. UNCHANGED <<keyToFreq, bucketOrder>>
    BY <1>5 DEF DropPolicy, policyVars
  <2> QED BY <1>0, <1>1, <1>2, <1>3, <1>5, <2>1 DEF InSync, TypeOK
<1> QED BY <1>4, <1>5

\* A popped key takes one reference from its object.
LEMMA PopEffect ==
    ASSUME TypeOK, InSync, Finite, RefsExact, NEW k \in Keys, InHot(k), PopKey(k), DropPolicy(k),
           UNCHANGED <<mode, held, pinned>>
    PROVE  /\ hotCache' \in Seq(Keys) /\ bucketOrder' \in Seq(Keys)
           /\ keyToFreq' \in [Keys -> 0..MaxFreq] /\ objOf' \in [Keys -> Objs \cup {NoObj}]
           /\ refCount' \in [Objs -> Nat] /\ pinCount' = pinCount /\ free' \subseteq Objs
           /\ objOf' = [objOf EXCEPT ![k] = NoObj]
           /\ InSync' /\ Finite' /\ RefsExact'
           /\ \A j \in Keys : InHot(j)' <=> InHot(j) /\ j # k
<1> DEFINE x == objOf[k]
<1>1. x \in Objs /\ objOf \in [Keys -> Objs \cup {NoObj}]
  BY DEF InSync, TypeOK
<1>2. /\ hotCache' = Without(hotCache, k) /\ objOf' = [objOf EXCEPT ![k] = NoObj]
      /\ RefCountDown(x)
  BY DEF PopKey
<1> HIDE DEF x
<1>3. k \in KeysOf(x)
  BY DEF KeysOf, x
<1>4. ASSUME NEW o \in Objs PROVE KeysOf(o)' = KeysOf(o) \ {k} /\ (o # x => k \notin KeysOf(o))
  BY <1>1, <1>2, NoObjAssumption DEF KeysOf, x
<1>5. ASSUME NEW o \in Objs
      PROVE  /\ IsFiniteSet(KeysOf(o)') /\ Cardinality(KeysOf(o)) \in Nat
             /\ Cardinality(Places(held, o)) \in Nat
             /\ Cardinality(KeysOf(o)') = Cardinality(KeysOf(o)) - (IF o = x THEN 1 ELSE 0)
  <2>1. IsFiniteSet(KeysOf(o)) /\ IsFiniteSet(Places(held, o))
    BY DEF Finite
  <2>2. Cardinality(KeysOf(o)) \in Nat /\ Cardinality(Places(held, o)) \in Nat
    BY <2>1, FS_CardinalityType
  <2>3. /\ IsFiniteSet(KeysOf(o) \ {k})
        /\ k \in KeysOf(o) => Cardinality(KeysOf(o) \ {k}) = Cardinality(KeysOf(o)) - 1
        /\ k \notin KeysOf(o) => KeysOf(o) \ {k} = KeysOf(o)
    BY <2>1, FS_RemoveElement
  <2> QED BY <1>3, <1>4, <2>2, <2>3
<1>6. FreeExact /\ refCount[x] > 0
  <2>1. Cardinality(KeysOf(x)) # 0
    BY <1>1, <1>3, FS_EmptySet DEF Finite
  <2>2. Cardinality(KeysOf(x)) \in Nat /\ Cardinality(Places(held, x)) \in Nat
    BY <1>1, <1>5
  <2> QED BY <1>1, <2>1, <2>2 DEF RefsExact, FreeExact, Users
<1>7. /\ refCount' = [refCount EXCEPT ![x] = refCount[x] - 1]
      /\ refCount' \in [Objs -> Nat] /\ pinCount' = pinCount /\ free' \subseteq Objs /\ FreeExact'
  BY <1>1, <1>2, <1>6, RefDownEffect
<1>8. RefsExact'
  <2>1. ASSUME NEW o \in Objs PROVE refCount'[o] = Users(o)'
    <3>1. refCount[o] = Cardinality(Places(held, o)) + Cardinality(KeysOf(o))
      BY DEF RefsExact, Users
    <3>2. Users(o)' = Cardinality(Places(held, o)) + Cardinality(KeysOf(o)')
      BY DEF Users, Places
    <3>3. refCount'[o] = refCount[o] - (IF o = x THEN 1 ELSE 0)
      BY <1>1, <1>7 DEF TypeOK
    <3> QED BY <1>5, <3>1, <3>2, <3>3
  <2> QED BY <1>7, <2>1 DEF RefsExact, FreeExact
<1>9. Finite'
  <2>1. ASSUME NEW o \in Objs
        PROVE  Places(held, o)' = Places(held, o) /\ Places(pinned, o)' = Places(pinned, o)
    BY DEF Places
  <2> QED BY <1>5, <2>1 DEF Finite
<1> QED BY <1>2, <1>7, <1>8, <1>9, DropPolicyEffect

-----------------------------------------------------------------------------
(* What a step leaves alone. *)

\* A step that touches neither the cache nor its policy keeps them in step.
LEMMA CacheAside ==
    ASSUME InSync, UNCHANGED <<mode, hotCache, objOf, keyToFreq, bucketOrder>>
    PROVE  InSync' /\ \A k : InHot(k)' <=> InHot(k)
<1>1. \A k : InHot(k)' <=> InHot(k)
  BY DEF InHot
<1> QED BY <1>1 DEF InSync, Policy

\* A step that touches no reference and no pin keeps the books.
LEMMA BooksAside ==
    ASSUME Finite, RefsExact, PinnedStays, PinsCovered,
           UNCHANGED <<mode, objOf, refCount, pinCount, free, held, pinned>>
    PROVE  Finite' /\ RefsExact' /\ PinnedStays' /\ PinsCovered'
<1>1. ASSUME NEW o
      PROVE  /\ Places(held, o)' = Places(held, o) /\ Places(pinned, o)' = Places(pinned, o)
             /\ KeysOf(o)' = KeysOf(o)
  BY DEF Places, KeysOf
<1>2. \A o : Users(o)' = Users(o)
  BY <1>1 DEF Users
<1> QED BY <1>1, <1>2 DEF Finite, RefsExact, PinnedStays, PinsCovered, AdminOps

\* A step that neither queues keys for touch_cache nor drops a pin keeps them covered.
LEMMA TouchAside ==
    ASSUME KeysPinned, TouchNeverRaises, UNCHANGED <<mode, keysInRequest, pinned, touchFailed>>,
           \A t \in Threads : pc[t] = "contains" => pc'[t] = "contains"
    PROVE  KeysPinned' /\ TouchNeverRaises'
  BY DEF KeysPinned, TouchNeverRaises, AdminOps

\* A thread is where it was if nothing of it changes.
LEMMA ShapeAside ==
    ASSUME NEW t \in Threads, ShapeOf(t), mode' = mode, pc'[t] = pc[t], todo'[t] = todo[t],
           held'[t] = held[t], pinned'[t] = pinned[t]
    PROVE  ShapeOf(t)'
  BY DEF ShapeOf

-----------------------------------------------------------------------------
(* The steps of a request. *)

\* The initial states satisfy the inductive invariant.
LEMMA InitIInv == Init => IInv
<1> SUFFICES ASSUME Init PROVE IInv
  OBVIOUS
<1> USE DEF Init
<1>0. /\ <<>> \in Seq(Keys) /\ 0 \in 0..MaxFreq
      /\ \A o \in Objs : refCount[o] = 0 /\ pinCount[o] = 0 /\ o \in free
  BY EmptySeq, BoundAssumption
<1>1. TypeOK
  BY <1>0 DEF TypeOK
<1>2. Range(hotCache) = {} /\ Range(bucketOrder) = {} /\ DOMAIN hotCache = {}
  BY DEF Range
<1>3. InSync
  BY <1>2, BoundAssumption DEF InSync, InHot, IsInjective
<1>4. ListsOK
  BY EmptySeq DEF ListsOK
<1>5. RequestsShape
  BY DEF RequestsShape, ShapeOf
<1>6. ASSUME NEW o \in Objs
      PROVE  Places(held, o) = {} /\ Places(pinned, o) = {} /\ KeysOf(o) = {}
  BY NoObjAssumption DEF Places, KeysOf
<1>7. Finite /\ PinsCovered
  BY ONLY <1>0, <1>6, FS_EmptySet DEF Finite, PinsCovered
<1>8. RefsExact
  BY ONLY <1>0, <1>6, FS_EmptySet DEF RefsExact, Users
<1>9. PinnedStays /\ KeysPinned /\ TouchNeverRaises /\ ClearIdle
  BY DEF PinnedStays, KeysPinned, TouchNeverRaises, ClearIdle
<1> QED BY <1>1, <1>3, <1>4, <1>5, <1>7, <1>8, <1>9 DEF IInv, PolicyInSync

\* The steps from one point of a request to the next.
LEMMA PointsIInv ==
    ASSUME IInv, NEW t \in Threads,
           \/ \E ks \in Requests : BeginAlloc(t, ks) \/ BeginLookup(t, ks)
           \/ PutDone(t) \/ GetDone(t) \/ Finish(t)
    PROVE  IInv'
<1> USE DEF BeginAlloc, BeginLookup, PutDone, GetDone, Finish, cacheVars, memVars, policyVars
<1>1. UNCHANGED <<mode, hotCache, objOf, keyToFreq, bucketOrder, keysInRequest, refCount, pinCount,
                  free, held, pinned, clearKeys, touchFailed>>
  OBVIOUS
<1>2. Requests \subseteq Seq(Keys) \ {<<>>} /\ <<>> \in Seq(Keys)
  BY RequestAssumption, EmptySeq
<1>3. pc \in [Threads -> {"idle", "alloc", "evict", "put", "drop", "contains", "get"}]
      /\ todo \in [Threads -> Seq(Keys)]
  BY DEF IInv, PolicyInSync, TypeOK, ListsOK
<1>4. \A u \in Threads : pc[u] = "contains" => pc'[u] = "contains"
  BY <1>3
<1>5. TypeOK'
  BY <1>1, <1>3 DEF IInv, PolicyInSync, TypeOK
<1>6. ListsOK'
  BY <1>1, <1>2, <1>3 DEF IInv, ListsOK
<1>7. RequestsShape'
  <2>1. \A u \in Threads \ {t} : pc'[u] = pc[u] /\ todo'[u] = todo[u]
    BY <1>3
  <2>2. ShapeOf(t)'
    <3>1. ShapeOf(t)
      BY DEF IInv, RequestsShape
    <3>2. \/ pc'[t] = "alloc" /\ t \in Stores \cup Loads /\ todo'[t] # <<>>
               /\ pc[t] = "idle" /\ t \in mode.active
          \/ pc'[t] = "contains" /\ t \in Lookups /\ pc[t] = "idle" /\ t \in mode.active
          \/ pc'[t] = "drop" /\ pc[t] \in {"put", "get"}
          \/ pc'[t] = "idle" /\ held[t] = <<>> /\ pinned[t] = <<>>
      BY <1>2, <1>3
    <3> QED BY ONLY <1>1, <1>2, <3>1, <3>2 DEF ShapeOf
  <2> QED BY <1>1, <2>1, <2>2, ShapeAside DEF IInv, RequestsShape
<1>8. InSync'
  BY <1>1, CacheAside DEF IInv, PolicyInSync
<1>9. Finite' /\ RefsExact' /\ PinnedStays' /\ PinsCovered'
  BY <1>1, BooksAside DEF IInv
<1>10. KeysPinned' /\ TouchNeverRaises' /\ ClearIdle'
  BY <1>1, <1>4, TouchAside DEF IInv, ClearIdle, AdminOps
<1> QED BY <1>5, <1>6, <1>7, <1>8, <1>9, <1>10 DEF IInv, PolicyInSync

\* A free buffer gets its first reference, from the request.
LEMMA AllocTryIInv == ASSUME IInv, NEW t \in Threads, AllocTry(t) PROVE IInv'
<1> USE DEF AllocTry, cacheVars, policyVars
<1>1. UNCHANGED <<mode, hotCache, objOf, keyToFreq, bucketOrder, keysInRequest, pinCount, pinned,
                  clearKeys, touchFailed>>
  BY DEF memVars
<1>2. /\ pc \in [Threads -> {"idle", "alloc", "evict", "put", "drop", "contains", "get"}]
      /\ todo \in [Threads -> Seq(Keys)] /\ held \in [Threads -> Seq(Entries)]
      /\ refCount \in [Objs -> Nat] /\ free \subseteq Objs
  BY DEF IInv, PolicyInSync, TypeOK, ListsOK
<1>3. ShapeOf(t) /\ pc[t] = "alloc" /\ todo[t] # <<>> /\ todo[t] \in Seq(Keys)
  BY <1>2 DEF IInv, RequestsShape, ShapeOf
<1>4. /\ pc' \in [Threads -> {"idle", "alloc", "evict", "put", "drop", "contains", "get"}]
      /\ \A u \in Threads : u # t => pc'[u] = pc[u] /\ todo'[u] = todo[u] /\ held'[u] = held[u]
      /\ \A u \in Threads : pc[u] = "contains" => pc'[u] = "contains"
  BY <1>2
<1>5. InSync' /\ KeysPinned' /\ TouchNeverRaises' /\ ClearIdle'
  BY <1>1, <1>4, CacheAside, TouchAside DEF IInv, PolicyInSync, ClearIdle, AdminOps
<1>6. CASE free = {} /\ pc' = [pc EXCEPT ![t] = "evict"] /\ UNCHANGED <<memVars, todo, held>>
  <2>1. TypeOK' /\ ListsOK'
    BY <1>1, <1>4, <1>6 DEF IInv, PolicyInSync, TypeOK, ListsOK, memVars
  <2>2. ShapeOf(t)'
    BY <1>1, <1>2, <1>3, <1>6 DEF ShapeOf
  <2>3. RequestsShape'
    BY <1>1, <1>4, <1>6, <2>2, ShapeAside DEF IInv, RequestsShape
  <2>4. Finite' /\ RefsExact' /\ PinnedStays' /\ PinsCovered'
    BY <1>1, <1>6, BooksAside DEF IInv, memVars
  <2> QED BY <1>5, <2>1, <2>3, <2>4 DEF IInv, PolicyInSync
<1>7. ASSUME NEW x \in free,
             free' = free \ {x}, refCount' = [refCount EXCEPT ![x] = 1],
             held' = [held EXCEPT ![t] = Append(@, <<Head(todo[t]), x>>)],
             todo' = [todo EXCEPT ![t] = Tail(@)],
             pc' = [pc EXCEPT ![t] = IF Len(todo[t]) = 1 THEN "put" ELSE "alloc"]
      PROVE  IInv'
  <2>1. /\ Head(todo[t]) \in Keys /\ Tail(todo[t]) \in Seq(Keys) /\ Len(todo[t]) \in Nat
        /\ Len(Tail(todo[t])) = Len(todo[t]) - 1
    BY <1>3, HeadTailProperties, LenProperties
  <2>2. x \in Objs /\ refCount[x] = 0 /\ pinCount[x] = 0
    BY <1>2 DEF IInv, RefsExact
  <2>3. Append(held[t], <<Head(todo[t]), x>>) \in Seq(Entries)
    BY <1>2, <2>1, <2>2, AppendProperties DEF Entries
  <2>4. TypeOK'
    BY <1>1, <1>2, <1>4, <1>7 DEF IInv, PolicyInSync, TypeOK
  <2>5. ListsOK'
    BY <1>1, <1>2, <1>7, <2>1, <2>3 DEF IInv, ListsOK
  <2>6. ShapeOf(t)'
    <3>1. Len(todo[t]) # 1 => Tail(todo[t]) # <<>>
      <4>1. Tail(todo[t]) = <<>> => Len(Tail(todo[t])) = 0
        BY EmptySeq
      <4> QED BY <2>1, <4>1
    <3>2. /\ pc'[t] \in {"put", "alloc"} /\ todo'[t] = Tail(todo[t])
          /\ pc'[t] = "alloc" => Len(todo[t]) # 1
      BY <1>2, <1>7
    <3> QED BY <1>1, <1>3, <3>1, <3>2 DEF ShapeOf
  <2>7. RequestsShape'
    BY <1>1, <1>4, <2>6, ShapeAside DEF IInv, RequestsShape
  <2>8. ASSUME NEW o \in Objs
        PROVE  /\ IsFiniteSet(Places(held, o)') /\ KeysOf(o)' = KeysOf(o)
               /\ Places(pinned, o)' = Places(pinned, o)
               /\ Cardinality(Places(held, o)') = Cardinality(Places(held, o)) + (IF o = x THEN 1 ELSE 0)
    <3>1. KeysOf(o)' = KeysOf(o) /\ Places(pinned, o)' = Places(pinned, o)
      BY <1>1 DEF KeysOf, Places
    <3>2. /\ IsFiniteSet(Places(held', o))
          /\ Cardinality(Places(held', o)) = Cardinality(Places(held, o)) + (IF o = x THEN 1 ELSE 0)
      <4>1. IsFiniteSet(Places(held, o))
        BY DEF IInv, Finite
      <4>2. Adds(held, held', t, Head(todo[t]), x)
        BY <1>2, <1>7, <2>1, <2>2 DEF Adds, Lists
      <4> QED BY <4>1, <4>2, PlacesAppend
    <3>3. Places(held, o)' = Places(held', o)
      BY DEF Places
    <3> QED BY <3>1, <3>2, <3>3
  <2>9. Finite' /\ PinsCovered'
    BY <1>1, <2>8 DEF IInv, Finite, PinsCovered, AdminOps
  <2>10. ASSUME NEW o \in Objs
         PROVE  /\ refCount'[o] = Users(o)'
                /\ o \in free' <=> refCount'[o] = 0 /\ pinCount'[o] = 0
    <3>1. /\ refCount[o] = Cardinality(Places(held, o)) + Cardinality(KeysOf(o))
          /\ o \in free <=> refCount[o] = 0 /\ pinCount[o] = 0
      BY DEF IInv, RefsExact, Users
    <3>2. Cardinality(Places(held, o)) \in Nat /\ Cardinality(KeysOf(o)) \in Nat
      BY FS_CardinalityType DEF IInv, Finite
    <3>3. Users(o)' = Cardinality(Places(held, o)') + Cardinality(KeysOf(o)')
      BY DEF Users
    <3>4. Users(o)' = refCount[o] + (IF o = x THEN 1 ELSE 0)
      BY <2>8, <3>1, <3>2, <3>3
    <3>5. refCount'[o] = IF o = x THEN 1 ELSE refCount[o]
      BY <1>2, <1>7
    <3> QED BY <1>1, <1>2, <1>7, <2>2, <3>1, <3>4, <3>5
  <2>11. RefsExact'
    BY <2>10 DEF RefsExact
  <2>12. PinnedStays'
    BY <1>1 DEF IInv, PinnedStays, AdminOps
  <2> QED BY <1>5, <2>4, <2>5, <2>7, <2>9, <2>11, <2>12 DEF IInv, PolicyInSync
<1> QED BY <1>6, <1>7

\* A key is popped from the cache: no pinned one, while nothing is removed by force.
LEMMA PopIInv ==
    ASSUME IInv, NEW k \in Keys, InHot(k), PopKey(k), DropPolicy(k),
           UNCHANGED <<mode, keysInRequest, held, pinned, touchFailed>>,
           AdminOps = {} => CanEvict(objOf[k]),
           pc' \in [Threads -> {"idle", "alloc", "evict", "put", "drop", "contains", "get"}],
           \A u \in Threads : pc[u] = "contains" => pc'[u] = "contains"
    PROVE  /\ PolicyInSync' /\ Finite' /\ RefsExact' /\ PinnedStays' /\ PinsCovered'
           /\ KeysPinned' /\ TouchNeverRaises'
<1>1. TypeOK /\ InSync /\ Finite /\ RefsExact /\ PinnedStays /\ PinsCovered /\ KeysPinned
      /\ TouchNeverRaises
  BY DEF IInv, PolicyInSync
<1>2. /\ hotCache' \in Seq(Keys) /\ bucketOrder' \in Seq(Keys)
      /\ keyToFreq' \in [Keys -> 0..MaxFreq] /\ objOf' \in [Keys -> Objs \cup {NoObj}]
      /\ refCount' \in [Objs -> Nat] /\ pinCount' = pinCount /\ free' \subseteq Objs
      /\ objOf' = [objOf EXCEPT ![k] = NoObj]
      /\ InSync' /\ Finite' /\ RefsExact'
  BY <1>1, PopEffect
<1>3. PolicyInSync'
  BY <1>1, <1>2 DEF PolicyInSync, TypeOK
<1>4. ASSUME AdminOps = {}, NEW u \in Threads, NEW i \in DOMAIN pinned[u]
      PROVE  pinned[u][i][1] # k /\ objOf[pinned[u][i][1]] = pinned[u][i][2]
  <2> DEFINE o == pinned[u][i][2]
  <2>0. pinned \in Lists /\ DOMAIN pinned[u] = 1..Len(pinned[u])
    <3>1. pinned \in Lists
      BY DEF IInv, ListsOK, Lists
    <3> QED BY <3>1, LenProperties DEF Lists
  <2>1. objOf[pinned[u][i][1]] = o
    BY <1>1, <1>4, <2>0 DEF PinnedStays
  <2>2. o \in Objs
    BY <2>0, ElementOfSeq DEF Lists, Entries
  <2>3. pinCount[o] >= Cardinality(Places(pinned, o)) /\ pinCount[o] \in Nat
    BY <1>1, <1>4, <2>2 DEF PinsCovered, TypeOK
  <2>4. Cardinality(Places(pinned, o)) \in Nat \ {0}
    BY <1>1, <2>0, <2>2, PlacesNonEmpty DEF Finite, Lists
  <2>5. pinCount[o] > 0
    BY <2>3, <2>4
  <2>6. pinned[u][i][1] = k => pinCount[o] <= 0
    BY <1>4, <2>1 DEF CanEvict
  <2> HIDE DEF o
  <2>7. pinned[u][i][1] # k
    BY <2>3, <2>5, <2>6
  <2> QED BY <2>1, <2>7 DEF o
<1>5. PinnedStays'
  <2>1. ASSUME AdminOps = {}, NEW u \in Threads, NEW i \in 1..Len(pinned[u])
        PROVE  objOf'[pinned[u][i][1]] = pinned[u][i][2]
    <3>1. pinned[u] \in Seq(Entries)
      BY DEF IInv, ListsOK
    <3>2. i \in DOMAIN pinned[u] /\ pinned[u][i][1] \in Keys
      BY <3>1, LenProperties, ElementOfSeq DEF Entries
    <3> QED BY <1>1, <1>2, <1>4, <2>1, <3>2 DEF TypeOK
  <2> QED BY <2>1 DEF PinnedStays, AdminOps
<1>6. PinsCovered'
  <2>1. \A o \in Objs : Places(pinned, o)' = Places(pinned, o)
    BY DEF Places
  <2> QED BY <1>1, <1>2, <2>1 DEF PinsCovered, AdminOps
<1>7. KeysPinned' /\ TouchNeverRaises'
  BY <1>1, TouchAside
<1> QED BY <1>2, <1>3, <1>5, <1>6, <1>7

\* Eviction takes a chunk nobody uses or pins; without one the request gives up
\* or tries again.
LEMMA EvictRoundIInv == ASSUME IInv, NEW t \in Threads, EvictRound(t) PROVE IInv'
<1> USE DEF EvictRound, policyVars, memVars
<1>1. UNCHANGED <<mode, keysInRequest, held, pinned, clearKeys, touchFailed>>
  OBVIOUS
<1>2. pc \in [Threads -> {"idle", "alloc", "evict", "put", "drop", "contains", "get"}]
      /\ todo \in [Threads -> Seq(Keys)] /\ <<>> \in Seq(Keys)
  BY EmptySeq DEF IInv, PolicyInSync, TypeOK, ListsOK
<1>3. ShapeOf(t) /\ pc[t] = "evict" /\ ClearIdle' /\ t \in Stores \cup Loads
  BY <1>1, <1>2 DEF IInv, RequestsShape, ShapeOf, ClearIdle, AdminOps
<1>4. /\ pc' \in [Threads -> {"idle", "alloc", "evict", "put", "drop", "contains", "get"}]
      /\ \A u \in Threads : u # t => pc'[u] = pc[u] /\ todo'[u] = todo[u]
      /\ \A u \in Threads : pc[u] = "contains" => pc'[u] = "contains"
      /\ \/ pc'[t] = "alloc" /\ todo'[t] = todo[t]
         \/ pc'[t] = "put"
      /\ todo' \in [Threads -> Seq(Keys)]
  BY <1>2, <1>3
<1>5. ListsOK'
  BY <1>1, <1>4 DEF IInv, ListsOK
<1>6. RequestsShape'
  <2>1. ShapeOf(t)'
    BY <1>1, <1>3, <1>4 DEF ShapeOf
  <2> QED BY <1>1, <1>4, <2>1, ShapeAside DEF IInv, RequestsShape
<1>7. CASE \E k \in Keys : EvictCandidate(k) /\ PopKey(k) /\ DropPolicy(k)
  <2>1. PICK k \in Keys : EvictCandidate(k) /\ PopKey(k) /\ DropPolicy(k)
    BY <1>7
  <2>2. InHot(k) /\ CanEvict(objOf[k])
    BY <2>1 DEF EvictCandidate, Evictable
  <2> QED BY <1>1, <1>3, <1>4, <1>5, <1>6, <2>1, <2>2, PopIInv DEF IInv
<1>8. CASE UNCHANGED <<hotCache, objOf, policyVars, memVars>>
  <2>1. TypeOK'
    BY <1>1, <1>4, <1>8 DEF IInv, PolicyInSync, TypeOK
  <2>2. InSync'
    BY <1>1, <1>8, CacheAside DEF IInv, PolicyInSync
  <2>3. Finite' /\ RefsExact' /\ PinnedStays' /\ PinsCovered'
    BY <1>1, <1>8, BooksAside DEF IInv
  <2>4. KeysPinned' /\ TouchNeverRaises'
    BY <1>1, <1>4, TouchAside DEF IInv
  <2> QED BY <1>3, <1>5, <1>6, <2>1, <2>2, <2>3, <2>4 DEF IInv, PolicyInSync
<1> QED BY <1>7, <1>8

\* A put adds the cache's reference, under a key that has no object yet.
LEMMA SubmitPutIInv ==
    ASSUME IInv, NEW t \in Threads, NEW i \in 1..Len(held[t]), SubmitPut(t, i)
    PROVE  IInv'
<1> DEFINE k == held[t][i][1]
           x == held[t][i][2]
<1>0. held[t] \in Seq(Entries) /\ todo \in [Threads -> Seq(Keys)]
  BY DEF IInv, ListsOK
<1>1. k \in Keys /\ x \in Objs
  BY <1>0, ElementOfSeq DEF Entries
<1>2. /\ pc[t] = "put" /\ todo' = [todo EXCEPT ![t] = Append(@, k)]
      /\ UNCHANGED <<mode, pinCount, free, keysInRequest, pc, held, pinned, clearKeys, touchFailed>>
      /\ \/ InHot(k) /\ UNCHANGED <<hotCache, objOf, refCount, policyVars>>
         \/ /\ ~InHot(k) /\ refCount' = [refCount EXCEPT ![x] = @ + 1]
            /\ hotCache' = Append(hotCache, k) /\ objOf' = [objOf EXCEPT ![k] = x]
            /\ PutPolicy(k)
  BY DEF SubmitPut
<1> HIDE DEF k, x
<1>3. TypeOK /\ InSync /\ Finite /\ RefsExact
  BY DEF IInv, PolicyInSync
<1>4. ListsOK'
  <2>1. Append(todo[t], k) \in Seq(Keys)
    BY <1>0, <1>1, AppendProperties
  <2> QED BY <1>0, <1>2, <2>1 DEF IInv, ListsOK
<1>5. RequestsShape'
  <2>1. ShapeOf(t)'
    BY <1>2 DEF IInv, RequestsShape, ShapeOf
  <2> QED BY <1>0, <1>2, <2>1, ShapeAside DEF IInv, RequestsShape
<1>6. KeysPinned' /\ TouchNeverRaises' /\ ClearIdle'
  BY <1>2, TouchAside DEF IInv, ClearIdle, AdminOps
<1>7. CASE InHot(k) /\ UNCHANGED <<hotCache, objOf, refCount, policyVars>>
  <2>1. TypeOK'
    BY <1>2, <1>3, <1>7 DEF TypeOK, policyVars
  <2>2. InSync'
    BY <1>2, <1>3, <1>7, CacheAside DEF policyVars
  <2>3. Finite' /\ RefsExact' /\ PinnedStays' /\ PinsCovered'
    BY <1>2, <1>7, BooksAside DEF IInv
  <2> QED BY <1>4, <1>5, <1>6, <2>1, <2>2, <2>3 DEF IInv, PolicyInSync
<1>8. CASE /\ ~InHot(k) /\ refCount' = [refCount EXCEPT ![x] = @ + 1]
           /\ hotCache' = Append(hotCache, k) /\ objOf' = [objOf EXCEPT ![k] = x]
           /\ PutPolicy(k)
  <2>0. /\ hotCache \in Seq(Keys) /\ IsInjective(hotCache) /\ Policy' = Policy
        /\ objOf \in [Keys -> Objs \cup {NoObj}] /\ refCount \in [Objs -> Nat]
    BY <1>2, <1>3 DEF TypeOK, InSync, Policy
  <2>1. /\ hotCache' \in Seq(Keys) /\ Range(hotCache') = Range(hotCache) \cup {k}
        /\ IsInjective(hotCache')
    BY <1>1, <1>8, <2>0, AppendIs DEF InHot
  <2>2. \A j \in Keys : InHot(j)' <=> InHot(j) \/ j = k
    BY <2>1 DEF InHot
  <2>3. objOf[k] = NoObj
    BY <1>1, <1>3, <1>8 DEF InSync
  <2>4. /\ objOf' \in [Keys -> Objs \cup {NoObj}] /\ refCount' \in [Objs -> Nat]
        /\ \A j \in Keys : InHot(j)' <=> objOf'[j] # NoObj
    BY <1>1, <1>3, <1>8, <2>0, <2>2, NoObjAssumption DEF InSync
  <2>5. /\ bucketOrder' \in Seq(Keys) /\ keyToFreq' \in [Keys -> 0..MaxFreq]
        /\ Policy = "LFU" => /\ IsInjective(bucketOrder')
                             /\ Range(bucketOrder') = Range(hotCache')
                             /\ \A j \in Keys : keyToFreq'[j] > 0 <=> InHot(j)'
    <3>1. CASE Policy = "LFU"
      <4>1. /\ keyToFreq' = [keyToFreq EXCEPT ![k] = 1]
            /\ bucketOrder' = Append(Without(bucketOrder, k), k)
            /\ bucketOrder \in Seq(Keys) /\ IsInjective(bucketOrder)
            /\ Range(bucketOrder) = Range(hotCache) /\ keyToFreq \in [Keys -> 0..MaxFreq]
        BY <1>3, <1>8, <3>1 DEF PutPolicy, InSync, TypeOK
      <4>2. /\ Without(bucketOrder, k) \in Seq(Keys) /\ IsInjective(Without(bucketOrder, k))
            /\ Range(Without(bucketOrder, k)) = Range(bucketOrder) \ {k}
        BY <4>1, WithoutIs
      <4>3. /\ bucketOrder' \in Seq(Keys) /\ IsInjective(bucketOrder')
            /\ Range(bucketOrder') = (Range(bucketOrder) \ {k}) \cup {k}
        BY <1>1, <4>1, <4>2, AppendIs
      <4>4. keyToFreq' \in [Keys -> 0..MaxFreq] /\ \A j \in Keys : keyToFreq'[j] > 0 <=> InHot(j)'
        BY <1>1, <1>3, <2>2, <3>1, <4>1, BoundAssumption DEF InSync
      <4> QED BY <2>1, <4>1, <4>3, <4>4
    <3>2. CASE Policy # "LFU"
      BY <1>3, <1>8, <3>2 DEF PutPolicy, policyVars, TypeOK
    <3> QED BY <3>1, <3>2
  <2>6. TypeOK' /\ InSync'
    BY <1>2, <1>3, <2>0, <2>1, <2>4, <2>5 DEF TypeOK, InSync
  <2>7. ASSUME NEW o \in Objs
        PROVE  /\ Places(held, o)' = Places(held, o) /\ Places(pinned, o)' = Places(pinned, o)
               /\ IsFiniteSet(KeysOf(o)')
               /\ Cardinality(KeysOf(o)') = Cardinality(KeysOf(o)) + (IF o = x THEN 1 ELSE 0)
    <3>1. Places(held, o)' = Places(held, o) /\ Places(pinned, o)' = Places(pinned, o)
      BY <1>2 DEF Places
    <3>2. IsFiniteSet(KeysOf(o))
      BY <1>3 DEF Finite
    <3>3. CASE o = x
      <4>1. KeysOf(o)' = KeysOf(o) \cup {k} /\ k \notin KeysOf(o)
        BY <1>1, <1>8, <2>0, <2>3, <3>3, NoObjAssumption DEF KeysOf
      <4>2. IsFiniteSet(KeysOf(o)') /\ Cardinality(KeysOf(o)') = Cardinality(KeysOf(o)) + 1
        BY ONLY <3>2, <4>1, FS_AddElement
      <4> QED BY ONLY <3>1, <3>3, <4>2
    <3>4. CASE o # x
      <4>1. KeysOf(o)' = KeysOf(o)
        BY <1>1, <1>8, <2>0, <2>3, <3>4, NoObjAssumption DEF KeysOf
      <4>2. Cardinality(KeysOf(o)) \in Nat
        BY <3>2, FS_CardinalityType
      <4> QED BY ONLY <3>1, <3>2, <3>4, <4>1, <4>2
    <3> QED BY ONLY <3>3, <3>4
  <2>8. Finite'
    BY <1>3, <2>7 DEF Finite
  <2>9. x \notin free /\ refCount[x] \in Nat
    <3>1. held \in Lists /\ DOMAIN held[t] = 1..Len(held[t])
      BY LenProperties, <1>0 DEF IInv, ListsOK, Lists
    <3>2. Cardinality(Places(held, x)) \in Nat \ {0}
      BY <1>1, <1>3, <3>1, PlacesNonEmpty DEF Finite, Lists, x
    <3>3. Cardinality(KeysOf(x)) \in Nat
      BY <1>1, <1>3, FS_CardinalityType DEF Finite
    <3>4. refCount[x] = Cardinality(Places(held, x)) + Cardinality(KeysOf(x))
      BY <1>1, <1>3 DEF RefsExact, Users
    <3>5. refCount[x] # 0
      BY <3>2, <3>3, <3>4
    <3> QED BY <1>1, <1>3, <2>0, <3>5 DEF RefsExact
  <2>10. RefsExact'
    <3>1. ASSUME NEW o \in Objs
          PROVE  refCount'[o] = Users(o)' /\ (o \in free' <=> refCount'[o] = 0 /\ pinCount'[o] = 0)
      <4>1. /\ refCount[o] = Cardinality(Places(held, o)) + Cardinality(KeysOf(o))
            /\ o \in free <=> refCount[o] = 0 /\ pinCount[o] = 0
        BY <1>3 DEF RefsExact, Users
      <4>2. Cardinality(Places(held, o)) \in Nat /\ Cardinality(KeysOf(o)) \in Nat
        BY <1>3, FS_CardinalityType DEF Finite
      <4>3. Users(o)' = Cardinality(Places(held, o)') + Cardinality(KeysOf(o)')
        BY DEF Users
      <4>4. refCount'[o] = refCount[o] + (IF o = x THEN 1 ELSE 0)
        BY <1>8, <2>0
      <4>5. Users(o)' = refCount[o] + (IF o = x THEN 1 ELSE 0)
        BY <2>7, <4>1, <4>2, <4>3
      <4>6. o \in free' <=> refCount'[o] = 0 /\ pinCount'[o] = 0
        BY <1>2, <2>0, <2>9, <4>1, <4>4
      <4> QED BY <4>4, <4>5, <4>6
    <3> QED BY <3>1 DEF RefsExact
  <2>11. PinnedStays'
    <3>1. ASSUME AdminOps = {}, NEW u \in Threads, NEW j \in 1..Len(pinned[u])
          PROVE  objOf'[pinned[u][j][1]] = pinned[u][j][2]
      <4>1. pinned[u] \in Seq(Entries)
        BY DEF IInv, ListsOK
      <4>2. pinned[u][j][1] \in Keys /\ pinned[u][j][2] \in Objs
        BY <4>1, ElementOfSeq DEF Entries
      <4>3. objOf[pinned[u][j][1]] = pinned[u][j][2]
        BY <3>1 DEF IInv, PinnedStays
      <4> QED BY <1>8, <2>0, <2>3, <4>2, <4>3, NoObjAssumption
    <3> QED BY <1>2, <3>1 DEF PinnedStays, AdminOps
  <2>12. PinsCovered'
    BY <1>2, <2>7 DEF IInv, PinsCovered, AdminOps
  <2> QED BY <1>4, <1>5, <1>6, <2>6, <2>8, <2>10, <2>11, <2>12 DEF IInv, PolicyInSync
<1> QED BY <1>2, <1>7, <1>8

\* A request gives back a reference it has.
LEMMA DropRefIInv == ASSUME IInv, NEW t \in Threads, DropRef(t) PROVE IInv'
<1> DEFINE x == Head(held[t])[2]
<1>1. /\ pc[t] = "drop" /\ held[t] # <<>> /\ RefCountDown(x)
      /\ held' = [held EXCEPT ![t] = Tail(@)]
      /\ UNCHANGED <<mode, hotCache, objOf, keyToFreq, bucketOrder, keysInRequest, pc, todo, pinned,
                     clearKeys, touchFailed>>
  BY DEF DropRef, cacheVars, policyVars
<1>2. TypeOK /\ InSync /\ Finite /\ RefsExact /\ held \in Lists
  BY DEF IInv, PolicyInSync, ListsOK, Lists
<1>3. held[t] \in Seq(Entries) /\ Head(held[t]) = held[t][1] /\ 1 \in DOMAIN held[t]
  <2>1. held[t] \in Seq(Entries)
    BY <1>2 DEF Lists
  <2>2. Len(held[t]) \in Nat \ {0} /\ DOMAIN held[t] = 1..Len(held[t])
    BY <1>1, <2>1, EmptySeq, LenProperties
  <2> QED BY <2>1, <2>2
<1>4. x \in Objs
  BY <1>1, <1>3, HeadTailProperties DEF Entries
<1>5. refCount[x] > 0 /\ FreeExact
  <2>1. Cardinality(Places(held, x)) \in Nat \ {0}
    BY <1>2, <1>3, <1>4, PlacesNonEmpty DEF Finite, Lists
  <2>2. Cardinality(KeysOf(x)) \in Nat
    BY <1>2, <1>4, FS_CardinalityType DEF Finite
  <2>3. refCount[x] = Cardinality(Places(held, x)) + Cardinality(KeysOf(x)) /\ FreeExact
    BY <1>2, <1>4 DEF RefsExact, FreeExact, Users
  <2> HIDE DEF x
  <2> QED BY <2>1, <2>2, <2>3
<1>6. /\ refCount' = [refCount EXCEPT ![x] = refCount[x] - 1]
      /\ refCount' \in [Objs -> Nat] /\ pinCount' = pinCount /\ free' \subseteq Objs /\ FreeExact'
  BY <1>1, <1>2, <1>4, <1>5, RefDownEffect
<1>7. TypeOK'
  BY <1>1, <1>2, <1>6 DEF TypeOK
<1>8. InSync'
  BY <1>1, <1>2, CacheAside
<1>9. Drops(held, held', t)
  BY <1>1, <1>2 DEF Drops
<1>10. ASSUME NEW o \in Objs
       PROVE  /\ IsFiniteSet(Places(held, o)') /\ held' \in Lists
              /\ Cardinality(Places(held, o)') = Cardinality(Places(held, o)) - (IF o = x THEN 1 ELSE 0)
              /\ Places(pinned, o)' = Places(pinned, o) /\ KeysOf(o)' = KeysOf(o)
  <2>1. IsFiniteSet(Places(held, o))
    BY <1>2 DEF Finite
  <2>2. /\ IsFiniteSet(Places(held', o)) /\ held' \in Lists
        /\ Cardinality(Places(held', o)) = Cardinality(Places(held, o)) - (IF o = x THEN 1 ELSE 0)
    BY <1>9, <2>1, PlacesTail
  <2>3. Places(held, o)' = Places(held', o) /\ Places(pinned, o)' = Places(pinned, o)
        /\ KeysOf(o)' = KeysOf(o)
    BY <1>1 DEF Places, KeysOf
  <2> QED BY <2>2, <2>3
<1>11. ListsOK' /\ Finite'
  BY <1>1, <1>2, <1>4, <1>10 DEF IInv, ListsOK, Lists, Finite
<1>12. RequestsShape'
  <2>1. \A u \in Threads : u # t => held'[u] = held[u]
    BY <1>1, <1>2 DEF Lists
  <2>2. ShapeOf(t)'
    BY <1>1 DEF IInv, RequestsShape, ShapeOf
  <2> QED BY <1>1, <2>1, <2>2, ShapeAside DEF IInv, RequestsShape
<1> HIDE DEF x
<1>13. RefsExact'
  <2>1. ASSUME NEW o \in Objs PROVE refCount'[o] = Users(o)'
    <3>1. refCount[o] = Cardinality(Places(held, o)) + Cardinality(KeysOf(o))
      BY <1>2 DEF RefsExact, Users
    <3>2. Cardinality(Places(held, o)) \in Nat /\ Cardinality(KeysOf(o)) \in Nat
      BY <1>2, FS_CardinalityType DEF Finite
    <3>3. Users(o)' = Cardinality(Places(held, o)') + Cardinality(KeysOf(o)')
      BY DEF Users
    <3>4. refCount'[o] = refCount[o] - (IF o = x THEN 1 ELSE 0)
      BY <1>2, <1>4, <1>6 DEF TypeOK
    <3> QED BY <1>10, <3>1, <3>2, <3>3, <3>4
  <2> QED BY <1>6, <2>1 DEF RefsExact, FreeExact
<1>14. PinnedStays' /\ PinsCovered'
  BY <1>1, <1>6, <1>10 DEF IInv, PinnedStays, PinsCovered, AdminOps
<1>15. KeysPinned' /\ TouchNeverRaises' /\ ClearIdle'
  BY <1>1, TouchAside DEF IInv, ClearIdle, AdminOps
<1> QED BY <1>7, <1>8, <1>11, <1>12, <1>13, <1>14, <1>15 DEF IInv, PolicyInSync

\* A chunk under a key is referenced, so its buffer is not free.
LEMMA HotInUse ==
    ASSUME IInv, NEW k \in Keys, InHot(k)
    PROVE  objOf[k] \in Objs /\ objOf[k] \notin free /\ refCount[objOf[k]] \in Nat \ {0}
<1> DEFINE x == objOf[k]
<1>1. TypeOK /\ InSync /\ Finite /\ RefsExact
  BY DEF IInv, PolicyInSync
<1>2. x \in Objs /\ k \in KeysOf(x)
  BY <1>1 DEF TypeOK, InSync, KeysOf
<1> HIDE DEF x
<1>3. Cardinality(KeysOf(x)) \in Nat \ {0} /\ Cardinality(Places(held, x)) \in Nat
  BY <1>1, <1>2, FS_CardinalityType, FS_EmptySet DEF Finite
<1>4. refCount[x] = Cardinality(Places(held, x)) + Cardinality(KeysOf(x))
      /\ (x \in free => refCount[x] = 0)
  BY <1>1, <1>2 DEF RefsExact, Users
<1> QED BY <1>2, <1>3, <1>4 DEF x

\* A lookup pins a chunk it finds and remembers the pin.
LEMMA ContainsPinIInv == ASSUME IInv, NEW t \in Threads, ContainsPin(t) PROVE IInv'
<1> DEFINE k == Head(todo[t])
           x == objOf[k]
<1>1. /\ pc[t] = "contains" /\ todo[t] # <<>>
      /\ UNCHANGED <<mode, hotCache, objOf, keyToFreq, bucketOrder, refCount, free, pc, held,
                     clearKeys, touchFailed>>
      /\ \/ /\ InHot(k) /\ pinCount' = [pinCount EXCEPT ![x] = @ + 1]
            /\ keysInRequest' = Append(keysInRequest, k)
            /\ pinned' = [pinned EXCEPT ![t] = Append(@, <<k, x>>)]
            /\ todo' = [todo EXCEPT ![t] = Tail(@)]
         \/ /\ todo' = [todo EXCEPT ![t] = <<>>]
            /\ UNCHANGED <<pinCount, keysInRequest, pinned>>
  BY DEF ContainsPin, policyVars
<1>2. /\ TypeOK /\ InSync /\ Finite /\ RefsExact /\ pinned \in Lists
      /\ todo \in [Threads -> Seq(Keys)]
  BY DEF IInv, PolicyInSync, ListsOK, Lists
<1>3. k \in Keys /\ Tail(todo[t]) \in Seq(Keys) /\ <<>> \in Seq(Keys)
  BY <1>1, <1>2, HeadTailProperties, EmptySeq
<1>4. InSync'
  BY <1>1, <1>2, CacheAside
<1>5. ClearIdle'
  BY <1>1 DEF IInv, ClearIdle, AdminOps
<1>6. t \in Lookups /\ ShapeOf(t)
  BY <1>1 DEF IInv, RequestsShape, ShapeOf
<1> HIDE DEF k
<1>7. CASE todo' = [todo EXCEPT ![t] = <<>>] /\ UNCHANGED <<pinCount, keysInRequest, pinned>>
  <2>1. TypeOK' /\ ListsOK'
    BY <1>1, <1>2, <1>3, <1>7 DEF IInv, TypeOK, ListsOK
  <2>2. ShapeOf(t)'
    BY <1>1, <1>6, <1>7 DEF ShapeOf
  <2>3. RequestsShape'
    BY <1>1, <1>2, <1>7, <2>2, ShapeAside DEF IInv, RequestsShape
  <2>4. Finite' /\ RefsExact' /\ PinnedStays' /\ PinsCovered'
    BY <1>1, <1>7, BooksAside DEF IInv
  <2>5. KeysPinned' /\ TouchNeverRaises'
    BY <1>1, <1>7, TouchAside DEF IInv
  <2> QED BY <1>4, <1>5, <2>1, <2>3, <2>4, <2>5 DEF IInv, PolicyInSync
<1>8. CASE /\ InHot(k) /\ pinCount' = [pinCount EXCEPT ![x] = @ + 1]
           /\ keysInRequest' = Append(keysInRequest, k)
           /\ pinned' = [pinned EXCEPT ![t] = Append(@, <<k, x>>)]
           /\ todo' = [todo EXCEPT ![t] = Tail(@)]
  <2>1. x \in Objs /\ x \notin free /\ refCount[x] \in Nat \ {0}
    BY <1>3, <1>8, HotInUse
  <2>2. Adds(pinned, pinned', t, k, x)
    BY <1>2, <1>3, <1>8, <2>1 DEF Adds
  <2>3. ASSUME NEW o \in Objs
        PROVE  /\ IsFiniteSet(Places(pinned, o)') /\ pinned' \in Lists
               /\ Cardinality(Places(pinned, o)') = Cardinality(Places(pinned, o)) + (IF o = x THEN 1 ELSE 0)
               /\ Places(held, o)' = Places(held, o) /\ KeysOf(o)' = KeysOf(o)
    <3>1. IsFiniteSet(Places(pinned, o))
      BY <1>2 DEF Finite
    <3>2. /\ IsFiniteSet(Places(pinned', o)) /\ pinned' \in Lists
          /\ Cardinality(Places(pinned', o)) = Cardinality(Places(pinned, o)) + (IF o = x THEN 1 ELSE 0)
      BY <2>2, <3>1, PlacesAppend
    <3>3. Places(pinned, o)' = Places(pinned', o) /\ Places(held, o)' = Places(held, o)
          /\ KeysOf(o)' = KeysOf(o)
      BY <1>1 DEF Places, KeysOf
    <3> QED BY <3>2, <3>3
  <2>4. Append(keysInRequest, k) \in Seq(Keys) /\ keysInRequest \in Seq(Keys)
    BY <1>2, <1>3, AppendProperties DEF TypeOK
  <2> HIDE DEF x
  <2>5. pinCount' \in [Objs -> Nat] /\ \A o \in Objs : pinCount'[o] = pinCount[o] + (IF o = x THEN 1 ELSE 0)
    BY <1>2, <1>8, <2>1 DEF TypeOK
  <2>6. TypeOK'
    BY <1>1, <1>2, <1>8, <2>4, <2>5 DEF TypeOK
  <2>7. ListsOK' /\ Finite'
    BY <1>1, <1>2, <1>3, <1>8, <2>1, <2>3 DEF IInv, ListsOK, Lists, Finite
  <2>8. RequestsShape'
    <3>1. \A u \in Threads : u # t => pinned'[u] = pinned[u] /\ todo'[u] = todo[u]
      BY <1>2, <1>8 DEF Lists
    <3>2. ShapeOf(t)'
      BY <1>1, <1>6 DEF ShapeOf
    <3> QED BY <1>1, <3>1, <3>2, ShapeAside DEF IInv, RequestsShape
  <2>9. RefsExact'
    <3>1. ASSUME NEW o \in Objs PROVE Users(o)' = Users(o)
      BY <2>3 DEF Users
    <3>2. ASSUME NEW o \in Objs
          PROVE  /\ refCount'[o] = Users(o)' /\ (o \in free' <=> refCount'[o] = 0 /\ pinCount'[o] = 0)
      <4>1. /\ refCount[o] = Users(o) /\ (o \in free <=> refCount[o] = 0 /\ pinCount[o] = 0)
            /\ refCount[o] \in Nat /\ pinCount[o] \in Nat
        BY <1>2 DEF RefsExact, TypeOK
      <4>2. o = x => refCount[o] # 0
        BY <2>1
      <4>3. o # x => pinCount'[o] = pinCount[o]
        BY <2>5, <4>1
      <4> QED BY <1>1, <3>1, <4>1, <4>2, <4>3
    <3> QED BY <3>2 DEF RefsExact
  <2>10. PinsCovered'
    <3>1. ASSUME AdminOps = {}, NEW o \in Objs PROVE pinCount'[o] >= Cardinality(Places(pinned, o)')
      <4>1. pinCount[o] >= Cardinality(Places(pinned, o)) /\ pinCount[o] \in Nat
        BY <1>2, <3>1 DEF IInv, PinsCovered, TypeOK
      <4>2. Cardinality(Places(pinned, o)) \in Nat
        BY <1>2, FS_CardinalityType DEF Finite
      <4> QED BY <2>3, <2>5, <4>1, <4>2
    <3> QED BY <1>1, <3>1 DEF PinsCovered, AdminOps
  <2>11. /\ Len(pinned'[t]) = Len(pinned[t]) + 1 /\ Len(pinned[t]) \in Nat
         /\ pinned'[t][Len(pinned[t]) + 1] = <<k, x>>
         /\ \A j \in 1..Len(pinned[t]) : pinned'[t][j] = pinned[t][j]
         /\ \A u \in Threads : u # t => pinned'[u] = pinned[u]
         /\ \A u \in Threads : DOMAIN pinned'[u] = 1..Len(pinned'[u])
         /\ \A u \in Threads : DOMAIN pinned[u] = 1..Len(pinned[u])
    <3>1. \A u \in Threads : pinned[u] \in Seq(Entries) /\ pinned'[u] \in Seq(Entries)
      BY <2>1, <2>3, <1>2 DEF Lists
    <3>2. <<k, x>> \in Entries
      BY <1>3, <2>1 DEF Entries
    <3>3. pinned'[t] = Append(pinned[t], <<k, x>>) /\ \A u \in Threads : u # t => pinned'[u] = pinned[u]
      BY <1>2, <1>8 DEF Lists
    <3> QED BY <3>1, <3>2, <3>3, AppendProperties, LenProperties
  <2>12. PinnedStays'
    <3>1. ASSUME AdminOps = {}, NEW u \in Threads, NEW i \in 1..Len(pinned'[u])
          PROVE  objOf'[pinned'[u][i][1]] = pinned'[u][i][2]
      <4>1. \A j \in 1..Len(pinned[u]) : objOf[pinned[u][j][1]] = pinned[u][j][2]
        BY <3>1 DEF IInv, PinnedStays
      <4>2. CASE u # t \/ i \in 1..Len(pinned[t])
        BY <1>1, <2>11, <4>1, <4>2
      <4>3. CASE u = t /\ i = Len(pinned[t]) + 1
        BY <1>1, <2>11, <4>3 DEF x
      <4> QED BY <2>11, <4>2, <4>3
    <3> QED BY <1>1, <3>1 DEF PinnedStays, AdminOps
  <2>13. KeysPinned'
    <3>1. ASSUME AdminOps = {}, mode.active \cap Peers = {}, NEW i \in DOMAIN keysInRequest'
          PROVE  \E u \in Threads : pc'[u] = "contains"
                    /\ \E j \in DOMAIN pinned'[u] : pinned'[u][j][1] = keysInRequest'[i]
      <4>0. /\ DOMAIN keysInRequest' = 1..Len(keysInRequest) + 1 /\ Len(keysInRequest) \in Nat
            /\ DOMAIN keysInRequest = 1..Len(keysInRequest)
            /\ keysInRequest'[Len(keysInRequest) + 1] = k
            /\ \A j \in 1..Len(keysInRequest) : keysInRequest'[j] = keysInRequest[j]
        BY <1>3, <1>8, <2>4, AppendProperties, LenProperties
      <4>1. CASE i \in DOMAIN keysInRequest
        <5>1. PICK u \in Threads : /\ pc[u] = "contains"
                    /\ \E j \in DOMAIN pinned[u] : pinned[u][j][1] = keysInRequest[i]
          BY <3>1, <4>1 DEF IInv, KeysPinned
        <5>2. PICK j \in DOMAIN pinned[u] : pinned[u][j][1] = keysInRequest[i]
          BY <5>1
        <5>3. j \in DOMAIN pinned'[u] /\ pinned'[u][j] = pinned[u][j]
          BY <2>11
        <5> QED BY <1>1, <4>0, <4>1, <5>1, <5>2, <5>3
      <4>2. CASE i = Len(keysInRequest) + 1
        <5>1. Len(pinned[t]) + 1 \in DOMAIN pinned'[t]
          BY <2>11
        <5> QED BY <1>1, <2>11, <4>0, <4>2, <5>1
      <4> QED BY <4>0, <4>1, <4>2
    <3> QED BY <1>1, <3>1 DEF KeysPinned, AdminOps
  <2>14. TouchNeverRaises'
    BY <1>1 DEF IInv, TouchNeverRaises, AdminOps
  <2> QED BY <1>4, <1>5, <2>6, <2>7, <2>8, <2>9, <2>10, <2>12, <2>13, <2>14 DEF IInv, PolicyInSync
<1> QED BY <1>1, <1>7, <1>8

\* The keys that touch_cache touches are in the cache.
LEMMA TouchedIs ==
    ASSUME TypeOK,
           NEW h, h = SubSeq(keysInRequest, IF Gone = {} THEN 1 ELSE Max(Gone) + 1, Len(keysInRequest))
    PROVE  h \in Seq(Keys) /\ (Policy # "FIFO" => \A i \in DOMAIN h : InHot(h[i]))
<1> DEFINE n == Len(keysInRequest)
           m == IF Gone = {} THEN 1 ELSE Max(Gone) + 1
<1>1. keysInRequest \in Seq(Keys) /\ n \in Nat /\ DOMAIN keysInRequest = 1..n
  BY LenProperties DEF TypeOK
<1>2. /\ m \in 1..n + 1
      /\ \A i \in m..n : i \notin Gone
  <2>1. CASE Gone = {}
    BY <1>1, <2>1
  <2>2. CASE Gone # {}
    <3>1. Gone \in SUBSET (0..n)
      BY <1>1 DEF Gone
    <3>2. \E g \in Gone : \A i \in Gone : i <= g
      BY <1>1, <2>2, <3>1, GreatestNat
    <3>3. \E g \in Gone : \A i \in Gone : g >= i
      BY <1>1, <3>1, <3>2
    <3>4. Max(Gone) \in Gone /\ \A i \in Gone : Max(Gone) >= i
      BY <3>3 DEF Max
    <3>5. Max(Gone) \in 1..n
      BY <3>4 DEF Gone
    <3> HIDE DEF n
    <3>6. m = Max(Gone) + 1
      BY <2>2
    <3> HIDE DEF m
    <3>7. \A i \in m..n : ~(Max(Gone) >= i)
      BY <1>1, <3>5, <3>6
    <3> QED BY <1>1, <3>4, <3>5, <3>6, <3>7
  <2> QED BY <2>1, <2>2
<1> HIDE DEF m
<1>3. \A i \in m..n : keysInRequest[i] \in Keys
  BY <1>1, <1>2, ElementOfSeq
<1>4. h = SubSeq(keysInRequest, m, n)
  BY DEF m
<1> HIDE DEF n
<1>5. /\ h \in Seq(Keys) /\ Len(h) = n - m + 1
      /\ \A i \in 1..n - m + 1 : h[i] = keysInRequest[m + i - 1]
  <2>1. m \in Int /\ n \in Int /\ n - m + 1 = IF m <= n THEN n - m + 1 ELSE 0
    BY <1>1, <1>2
  <2> QED BY ONLY <1>3, <1>4, <2>1, SubSeqProperties
<1>6. DOMAIN h = 1..n - m + 1
  BY <1>5, LenProperties
<1>7. ASSUME Policy # "FIFO", NEW i \in DOMAIN h PROVE InHot(h[i])
  <2>0. i \in 1..n - m + 1 /\ m \in 1..n + 1 /\ n \in Nat
    BY <1>1, <1>2, <1>6, <1>7
  <2>1. m + i - 1 \in m..n /\ m + i - 1 \in 1..n
    BY ONLY <2>0
  <2> QED BY <1>1, <1>2, <1>5, <1>7, <2>0, <2>1 DEF Gone, n
<1> QED BY <1>5, <1>7

\* A touch keeps the dictionary and the buckets in step.
LEMMA TouchInSync ==
    ASSUME TypeOK, InSync, NEW h \in Seq(Keys), mode' = mode, objOf' = objOf,
           Policy # "FIFO" => \A i \in DOMAIN h : InHot(h[i]),
           hotCache' \in HitOrder(h), bucketOrder' \in HitBucket(h),
           keyToFreq' = [k \in Keys |-> HitFreq(h, k)]
    PROVE  /\ hotCache' \in Seq(Keys) /\ bucketOrder' \in Seq(Keys)
           /\ keyToFreq' \in [Keys -> 0..MaxFreq] /\ InSync'
<1>1. /\ hotCache \in Seq(Keys) /\ bucketOrder \in Seq(Keys) /\ IsInjective(hotCache)
      /\ keyToFreq \in [Keys -> 0..MaxFreq] /\ Policy' = Policy
  BY DEF TypeOK, InSync, Policy
<1>2. hotCache' \in Seq(Keys) /\ Range(hotCache') = Range(hotCache) /\ IsInjective(hotCache')
  BY <1>1, MovedToEndIs DEF HitOrder
<1>3. \A k : InHot(k)' <=> InHot(k)
  BY <1>2 DEF InHot
<1>4. CASE Policy # "LFU"
  <2>1. bucketOrder' = bucketOrder /\ keyToFreq' \in [Keys -> 0..MaxFreq]
    BY <1>1, <1>4 DEF HitBucket, HitFreq
  <2> QED BY <1>1, <1>2, <1>3, <1>4, <2>1 DEF InSync
<1>5. CASE Policy = "LFU"
  <2>1. /\ IsInjective(bucketOrder) /\ Range(bucketOrder) = Range(hotCache)
        /\ \A k \in Keys : keyToFreq[k] > 0 <=> InHot(k)
    BY <1>5 DEF InSync
  <2>2. /\ bucketOrder' \in Seq(Keys) /\ Range(bucketOrder') = Range(bucketOrder)
        /\ IsInjective(bucketOrder')
    BY <1>1, <1>5, MovedToEndIs DEF HitBucket
  <2>3. ASSUME NEW k \in Keys
        PROVE  keyToFreq'[k] \in 0..MaxFreq /\ (keyToFreq'[k] > 0 <=> InHot(k)')
    <3> DEFINE C == {i \in DOMAIN h : h[i] = k}
    <3>1. IsFiniteSet(C)
      <4>1. C \subseteq 1..Len(h) /\ Len(h) \in Nat
        BY LenProperties
      <4>2. IsFiniteSet(1..Len(h))
        BY <4>1, FS_Interval
      <4> HIDE DEF C
      <4> QED BY <4>1, <4>2, FS_Subset
    <3>2. ~InHot(k) => C = {}
      BY <1>5
    <3>3. keyToFreq'[k] = IF keyToFreq[k] + Cardinality(C) <= MaxFreq
                          THEN keyToFreq[k] + Cardinality(C) ELSE MaxFreq
      BY <1>5 DEF HitFreq
    <3> HIDE DEF C
    <3>4. Cardinality(C) \in Nat /\ (C = {} => Cardinality(C) = 0)
      BY <3>1, FS_CardinalityType, FS_EmptySet
    <3> QED BY <1>1, <1>3, <2>1, <3>2, <3>3, <3>4, BoundAssumption
  <2>4. keyToFreq' \in [Keys -> 0..MaxFreq]
    BY <2>3
  <2> QED BY <1>1, <1>2, <1>3, <1>5, <2>1, <2>2, <2>3, <2>4 DEF InSync
<1> QED BY <1>4, <1>5

\* touch_cache: the lookup goes on to get its chunks, or the policy update raises.
LEMMA TouchCacheIInv == ASSUME IInv, NEW t \in Threads, TouchCache(t) PROVE IInv'
<1> DEFINE h == SubSeq(keysInRequest, IF Gone = {} THEN 1 ELSE Max(Gone) + 1, Len(keysInRequest))
<1>1. /\ pc[t] = "contains" /\ hotCache' \in HitOrder(h)
      /\ keyToFreq' = [k \in Keys |-> HitFreq(h, k)] /\ bucketOrder' \in HitBucket(h)
      /\ UNCHANGED <<mode, objOf, refCount, pinCount, free, held, pinned, clearKeys>>
      /\ \/ /\ Gone = {} /\ keysInRequest' = <<>> /\ pc' = [pc EXCEPT ![t] = "get"]
            /\ todo' = [todo EXCEPT ![t] = [i \in 1..Len(pinned[t]) |-> pinned[t][i][1]]]
            /\ UNCHANGED touchFailed
         \/ /\ Gone # {} /\ pc' = [pc EXCEPT ![t] = "drop"] /\ touchFailed' = TRUE
            /\ UNCHANGED <<keysInRequest, todo>>
  BY DEF TouchCache, memVars
<1> HIDE DEF h
<1>2. /\ TypeOK /\ InSync /\ pinned \in Lists /\ todo \in [Threads -> Seq(Keys)]
      /\ pc \in [Threads -> {"idle", "alloc", "evict", "put", "drop", "contains", "get"}]
  BY DEF IInv, PolicyInSync, ListsOK, Lists, TypeOK
<1>3. h \in Seq(Keys) /\ (Policy # "FIFO" => \A i \in DOMAIN h : InHot(h[i]))
  BY <1>2, TouchedIs DEF h
<1>4. /\ hotCache' \in Seq(Keys) /\ bucketOrder' \in Seq(Keys)
      /\ keyToFreq' \in [Keys -> 0..MaxFreq] /\ InSync'
  BY <1>1, <1>2, <1>3, TouchInSync
<1>5. keysInRequest' \in Seq(Keys) /\ touchFailed' \in BOOLEAN
      /\ pc' \in [Threads -> {"idle", "alloc", "evict", "put", "drop", "contains", "get"}]
  BY <1>1, <1>2, EmptySeq DEF TypeOK
<1>6. TypeOK'
  BY <1>1, <1>2, <1>4, <1>5 DEF TypeOK
<1>7. ListsOK'
  <2>1. [i \in 1..Len(pinned[t]) |-> pinned[t][i][1]] \in Seq(Keys)
    <3>1. pinned[t] \in Seq(Entries) /\ Len(pinned[t]) \in Nat
      BY <1>2, LenProperties DEF Lists
    <3>2. \A i \in 1..Len(pinned[t]) : pinned[t][i][1] \in Keys
      BY <3>1, ElementOfSeq DEF Entries
    <3> QED BY <3>1, <3>2, IsASeq
  <2> QED BY <1>1, <1>2, <2>1 DEF IInv, ListsOK
<1>8. RequestsShape'
  <2>1. \A u \in Threads : u # t => pc'[u] = pc[u] /\ todo'[u] = todo[u]
    BY <1>1, <1>2
  <2>2. ShapeOf(t)'
    <3>1. ShapeOf(t) /\ t \in Lookups /\ t \notin Peers
      BY <1>1, ThreadAssumption DEF IInv, RequestsShape, ShapeOf
    <3>2. pc'[t] \in {"get", "drop"}
      BY <1>1, <1>2
    <3> QED BY <1>1, <3>1, <3>2 DEF ShapeOf
  <2> QED BY <1>1, <2>1, <2>2, ShapeAside DEF IInv, RequestsShape
<1>9. Finite' /\ RefsExact' /\ PinnedStays' /\ PinsCovered' /\ ClearIdle'
  BY <1>1, BooksAside DEF IInv, ClearIdle, AdminOps
<1>10. AdminOps = {} /\ mode.active \cap Peers = {} => Gone = {}
  <2>1. ASSUME AdminOps = {}, mode.active \cap Peers = {}, NEW i \in Gone PROVE FALSE
    <3>1. keysInRequest \in Seq(Keys) /\ i \in DOMAIN keysInRequest /\ ~InHot(keysInRequest[i])
      BY <1>2, LenProperties DEF Gone, TypeOK
    <3>2. PICK u \in Threads : \E j \in DOMAIN pinned[u] : pinned[u][j][1] = keysInRequest[i]
      BY <2>1, <3>1 DEF IInv, KeysPinned
    <3>3. PICK j \in DOMAIN pinned[u] : pinned[u][j][1] = keysInRequest[i]
      BY <3>2
    <3>4. pinned[u] \in Seq(Entries)
      BY <1>2 DEF Lists
    <3>5. j \in 1..Len(pinned[u]) /\ pinned[u][j][2] \in Objs /\ pinned[u][j][1] \in Keys
      BY <3>3, <3>4, LenProperties, ElementOfSeq DEF Entries
    <3>6. objOf[pinned[u][j][1]] = pinned[u][j][2]
      BY <2>1, <3>5 DEF IInv, PinnedStays
    <3> QED BY <1>2, <3>1, <3>3, <3>5, <3>6, NoObjAssumption DEF InSync
  <2> QED BY <2>1
<1>11. KeysPinned' /\ TouchNeverRaises'
  <2>1. Gone = {} => DOMAIN keysInRequest' = {}
    BY <1>1
  <2> QED BY <1>1, <1>10, <2>1 DEF IInv, KeysPinned, TouchNeverRaises, AdminOps
<1> QED BY <1>4, <1>6, <1>7, <1>8, <1>9, <1>11 DEF IInv, PolicyInSync

\* A looked-up chunk that is still in the cache gets a reference of the request.
LEMMA GetBlockingIInv == ASSUME IInv, NEW t \in Threads, GetBlocking(t) PROVE IInv'
<1> DEFINE k == Head(todo[t])
           x == objOf[k]
<1>1. /\ t \in Lookups /\ pc[t] = "get" /\ todo[t] # <<>> /\ todo' = [todo EXCEPT ![t] = Tail(@)]
      /\ UNCHANGED <<mode, hotCache, objOf, keyToFreq, bucketOrder, keysInRequest, pinCount, free,
                     pc, pinned, clearKeys, touchFailed>>
      /\ \/ /\ InHot(k) /\ refCount' = [refCount EXCEPT ![x] = @ + 1]
            /\ held' = [held EXCEPT ![t] = Append(@, <<k, x>>)]
         \/ UNCHANGED <<refCount, held>>
  BY DEF GetBlocking, cacheVars, policyVars
<1>2. /\ TypeOK /\ InSync /\ Finite /\ RefsExact /\ held \in Lists
      /\ todo \in [Threads -> Seq(Keys)]
  BY DEF IInv, PolicyInSync, ListsOK, Lists
<1>3. k \in Keys /\ Tail(todo[t]) \in Seq(Keys)
  BY <1>1, <1>2, HeadTailProperties
<1>4. InSync' /\ KeysPinned' /\ TouchNeverRaises' /\ ClearIdle'
  BY <1>1, <1>2, CacheAside, TouchAside DEF IInv, ClearIdle, AdminOps
<1>5. ASSUME \A u \in Threads : u # t => held'[u] = held[u]
      PROVE  RequestsShape'
  <2>1. \A u \in Threads : u # t => todo'[u] = todo[u]
    BY <1>1, <1>2
  <2>2. ShapeOf(t)'
    <3>1. ShapeOf(t) /\ t \notin Peers
      BY <1>1, ThreadAssumption DEF IInv, RequestsShape
    <3> QED BY <1>1, <3>1 DEF ShapeOf
  <2> QED BY <1>1, <1>5, <2>1, <2>2, ShapeAside DEF IInv, RequestsShape
<1> HIDE DEF k
<1>6. CASE UNCHANGED <<refCount, held>>
  <2>1. TypeOK' /\ ListsOK'
    BY <1>1, <1>2, <1>3, <1>6 DEF IInv, TypeOK, ListsOK
  <2>2. Finite' /\ RefsExact' /\ PinnedStays' /\ PinsCovered'
    BY <1>1, <1>6, BooksAside DEF IInv
  <2> QED BY <1>4, <1>5, <1>6, <2>1, <2>2 DEF IInv, PolicyInSync
<1>7. CASE /\ InHot(k) /\ refCount' = [refCount EXCEPT ![x] = @ + 1]
           /\ held' = [held EXCEPT ![t] = Append(@, <<k, x>>)]
  <2>1. x \in Objs /\ x \notin free /\ refCount[x] \in Nat \ {0}
    BY <1>3, <1>7, HotInUse
  <2>2. Adds(held, held', t, k, x)
    BY <1>2, <1>3, <1>7, <2>1 DEF Adds
  <2> HIDE DEF x
  <2>3. ASSUME NEW o \in Objs
        PROVE  /\ IsFiniteSet(Places(held, o)') /\ held' \in Lists
               /\ Cardinality(Places(held, o)') = Cardinality(Places(held, o)) + (IF o = x THEN 1 ELSE 0)
               /\ Places(pinned, o)' = Places(pinned, o) /\ KeysOf(o)' = KeysOf(o)
    <3>1. IsFiniteSet(Places(held, o))
      BY <1>2 DEF Finite
    <3>2. /\ IsFiniteSet(Places(held', o)) /\ held' \in Lists
          /\ Cardinality(Places(held', o)) = Cardinality(Places(held, o)) + (IF o = x THEN 1 ELSE 0)
      BY <2>2, <3>1, PlacesAppend
    <3>3. Places(held, o)' = Places(held', o) /\ Places(pinned, o)' = Places(pinned, o)
          /\ KeysOf(o)' = KeysOf(o)
      BY <1>1 DEF Places, KeysOf
    <3> QED BY <3>2, <3>3
  <2>4. refCount' \in [Objs -> Nat] /\ \A o \in Objs : refCount'[o] = refCount[o] + (IF o = x THEN 1 ELSE 0)
    BY <1>2, <1>7, <2>1 DEF TypeOK
  <2>5. TypeOK'
    BY <1>1, <1>2, <2>4 DEF TypeOK
  <2>6. ListsOK' /\ Finite' /\ RequestsShape'
    BY <1>1, <1>2, <1>3, <1>5, <1>7, <2>1, <2>3 DEF IInv, ListsOK, Lists, Finite
  <2>7. RefsExact'
    <3>1. ASSUME NEW o \in Objs
          PROVE  refCount'[o] = Users(o)' /\ (o \in free' <=> refCount'[o] = 0 /\ pinCount'[o] = 0)
      <4>1. /\ refCount[o] = Cardinality(Places(held, o)) + Cardinality(KeysOf(o))
            /\ o \in free <=> refCount[o] = 0 /\ pinCount[o] = 0
        BY <1>2 DEF RefsExact, Users
      <4>2. Cardinality(Places(held, o)) \in Nat /\ Cardinality(KeysOf(o)) \in Nat
        BY <1>2, FS_CardinalityType DEF Finite
      <4>3. Users(o)' = Cardinality(Places(held, o)') + Cardinality(KeysOf(o)')
        BY DEF Users
      <4>4. Users(o)' = refCount[o] + (IF o = x THEN 1 ELSE 0)
        BY <2>3, <4>1, <4>2, <4>3
      <4>5. refCount[o] \in Nat
        BY <1>2 DEF TypeOK
      <4>6. o \in free' <=> refCount'[o] = 0 /\ pinCount'[o] = 0
        BY <1>1, <2>1, <2>4, <4>1, <4>5
      <4> QED BY <2>4, <4>4, <4>6
    <3> QED BY <3>1 DEF RefsExact
  <2>8. PinnedStays' /\ PinsCovered'
    BY <1>1, <2>3 DEF IInv, PinnedStays, PinsCovered, AdminOps
  <2> QED BY <1>4, <2>5, <2>6, <2>7, <2>8 DEF IInv, PolicyInSync
<1> QED BY <1>1, <1>6, <1>7

\* A pin is given back, on the object it was taken on unless keys were removed by
\* force in between.
LEMMA UnpinIInv ==
    ASSUME IInv, NEW t \in Threads, pc[t] = "drop", pinned[t] # <<>>,
           pinned' = [pinned EXCEPT ![t] = Tail(@)],
           \/ \E x \in Objs : UnpinObj(x) /\ (AdminOps = {} => x = Head(pinned[t])[2])
           \/ AdminOps # {} /\ UNCHANGED memVars,
           UNCHANGED <<mode, cacheVars, pc, todo, held, clearKeys, touchFailed>>
    PROVE  IInv'
<1>0. UNCHANGED <<mode, hotCache, objOf, keyToFreq, bucketOrder, keysInRequest, pc, todo, held,
                  clearKeys, touchFailed>>
  BY DEF cacheVars, policyVars
<1>1. TypeOK /\ InSync /\ Finite /\ RefsExact /\ FreeExact /\ pinned \in Lists
  BY DEF IInv, PolicyInSync, ListsOK, Lists, RefsExact, FreeExact
<1>2. pinned[t] \in Seq(Entries) /\ Tail(pinned[t]) \in Seq(Entries) /\ Len(pinned[t]) \in Nat \ {0}
      /\ Len(Tail(pinned[t])) = Len(pinned[t]) - 1 /\ Head(pinned[t]) = pinned[t][1]
      /\ \A i \in 1..Len(pinned[t]) - 1 : Tail(pinned[t])[i] = pinned[t][i + 1]
      /\ DOMAIN pinned[t] = 1..Len(pinned[t])
  <2>1. pinned[t] \in Seq(Entries)
    BY <1>1 DEF Lists
  <2>2. Len(pinned[t]) \in Nat \ {0} /\ DOMAIN pinned[t] = 1..Len(pinned[t])
    BY <2>1, EmptySeq, LenProperties
  <2>3. Tail(pinned[t]) \in Seq(Entries) /\ Len(Tail(pinned[t])) = Len(pinned[t]) - 1
        /\ \A i \in 1..Len(Tail(pinned[t])) : Tail(pinned[t])[i] = pinned[t][i + 1]
    BY <2>1, HeadTailProperties
  <2> QED BY <2>1, <2>2, <2>3
<1>3. /\ pinned'[t] = Tail(pinned[t]) /\ \A u \in Threads : u # t => pinned'[u] = pinned[u]
      /\ Drops(pinned, pinned', t)
  BY <1>1 DEF Lists, Drops
<1>4. ASSUME NEW o \in Objs
      PROVE  /\ IsFiniteSet(Places(pinned, o)') /\ pinned' \in Lists
             /\ Cardinality(Places(pinned, o)')
                  = Cardinality(Places(pinned, o)) - (IF o = Head(pinned[t])[2] THEN 1 ELSE 0)
             /\ Places(held, o)' = Places(held, o) /\ KeysOf(o)' = KeysOf(o)
  <2>1. IsFiniteSet(Places(pinned, o))
    BY <1>1 DEF Finite
  <2>2. /\ IsFiniteSet(Places(pinned', o)) /\ pinned' \in Lists
        /\ Cardinality(Places(pinned', o))
             = Cardinality(Places(pinned, o)) - (IF o = Head(pinned[t])[2] THEN 1 ELSE 0)
    BY <1>3, <2>1, PlacesTail
  <2>3. Places(pinned, o)' = Places(pinned', o) /\ Places(held, o)' = Places(held, o)
        /\ KeysOf(o)' = KeysOf(o)
    BY <1>0 DEF Places, KeysOf
  <2> QED BY <2>2, <2>3
<1>5. pinCount' \in [Objs -> Nat] /\ refCount' = refCount /\ free' \subseteq Objs /\ FreeExact'
  <2>1. CASE \E x \in Objs : UnpinObj(x)
    BY <1>1, <2>1, UnpinEffect
  <2>2. CASE UNCHANGED memVars
    BY <1>1, <2>2 DEF memVars, TypeOK, FreeExact
  <2> QED BY <2>1, <2>2
<1>6. TypeOK' /\ InSync'
  BY <1>0, <1>1, <1>5, CacheAside DEF TypeOK
<1>7. ListsOK' /\ Finite'
  <2>1. pinned' \in Lists
    BY <1>1, <1>2 DEF Lists
  <2> QED BY <1>0, <1>1, <1>4, <2>1 DEF IInv, ListsOK, Lists, Finite
<1>8. RequestsShape'
  <2>1. ShapeOf(t)'
    BY <1>0 DEF IInv, RequestsShape, ShapeOf
  <2> QED BY <1>0, <1>3, <2>1, ShapeAside DEF IInv, RequestsShape
<1>9. RefsExact'
  <2>1. \A o \in Objs : Users(o)' = Users(o)
    BY <1>4 DEF Users
  <2> QED BY <1>1, <1>5, <2>1 DEF RefsExact, FreeExact
<1>10. PinnedStays'
  <2>1. ASSUME AdminOps = {}, NEW u \in Threads, NEW i \in 1..Len(pinned'[u])
        PROVE  objOf'[pinned'[u][i][1]] = pinned'[u][i][2]
    <3>1. \A j \in 1..Len(pinned[u]) : objOf[pinned[u][j][1]] = pinned[u][j][2]
      BY <2>1 DEF IInv, PinnedStays
    <3>2. CASE u = t
      <4>0. Len(pinned'[u]) = Len(pinned[t]) - 1 /\ Len(pinned[t]) \in Nat \ {0}
        BY <1>2, <1>3, <3>2
      <4>1. i \in 1..Len(pinned[t]) - 1 /\ i + 1 \in 1..Len(pinned[t])
        BY ONLY <4>0, i \in 1..Len(pinned'[u])
      <4> QED BY <1>0, <1>2, <1>3, <3>1, <3>2, <4>1
    <3> QED BY <1>0, <1>3, <3>1, <3>2
  <2> QED BY <1>0, <2>1 DEF PinnedStays, AdminOps
<1>11. PinsCovered'
  <2>1. ASSUME AdminOps = {}, NEW o \in Objs PROVE pinCount'[o] >= Cardinality(Places(pinned, o)')
    <3>1. PICK x \in Objs : UnpinObj(x) /\ x = Head(pinned[t])[2]
      BY <2>1
    <3>2. pinCount' = [pinCount EXCEPT ![x] = IF @ = 0 THEN 0 ELSE @ - 1]
      BY <1>1, <3>1, UnpinEffect
    <3>3. pinCount[o] >= Cardinality(Places(pinned, o)) /\ pinCount[o] \in Nat
          /\ pinCount \in [Objs -> Nat]
      BY <1>1, <2>1 DEF IInv, PinsCovered, TypeOK
    <3>4. Cardinality(Places(pinned, o)) \in Nat
      BY <1>1, FS_CardinalityType DEF Finite
    <3>5. o = x => Cardinality(Places(pinned, o)) \in Nat \ {0}
      BY <1>1, <1>2, <3>1, PlacesNonEmpty DEF Finite, Lists
    <3>6. Cardinality(Places(pinned, o)') = Cardinality(Places(pinned, o)) - (IF o = x THEN 1 ELSE 0)
      BY <1>4, <3>1
    <3>7. pinCount'[o] = IF o = x THEN (IF pinCount[o] = 0 THEN 0 ELSE pinCount[o] - 1) ELSE pinCount[o]
      BY <3>2, <3>3
    <3> QED BY ONLY <3>3, <3>4, <3>5, <3>6, <3>7
  <2> QED BY <1>0, <2>1 DEF PinsCovered, AdminOps
<1>12. KeysPinned'
  <2>1. ASSUME AdminOps = {}, mode.active \cap Peers = {}, NEW i \in DOMAIN keysInRequest
        PROVE  \E u \in Threads : pc'[u] = "contains"
                  /\ \E j \in DOMAIN pinned'[u] : pinned'[u][j][1] = keysInRequest'[i]
    <3>1. PICK u \in Threads : pc[u] = "contains"
                  /\ \E j \in DOMAIN pinned[u] : pinned[u][j][1] = keysInRequest[i]
      BY <2>1 DEF IInv, KeysPinned
    <3> QED BY <1>0, <1>3, <3>1
  <2> QED BY <1>0, <2>1 DEF KeysPinned, AdminOps
<1>13. TouchNeverRaises' /\ ClearIdle'
  BY <1>0 DEF IInv, TouchNeverRaises, ClearIdle, AdminOps
<1> QED BY <1>6, <1>7, <1>8, <1>9, <1>10, <1>11, <1>12, <1>13 DEF IInv, PolicyInSync

\* lookup_unpin, and a peer's unpin of the objects themselves.
LEMMA UnpinsIInv ==
    ASSUME IInv, NEW t \in Threads, UnpinKey(t) \/ UnpinPeer(t)
    PROVE  IInv'
<1>1. pinned \in [Threads -> Seq(Entries)] /\ held \in [Threads -> Seq(Entries)]
      /\ TypeOK /\ InSync
  BY DEF IInv, ListsOK, PolicyInSync
<1>2. pinned[t] # <<>>
  <2>1. CASE UnpinKey(t)
    BY <2>1 DEF UnpinKey
  <2>2. CASE UnpinPeer(t)
    <3>1. Len(pinned[t]) \in Nat /\ Len(held[t]) \in Nat /\ Len(pinned[t]) > Len(held[t])
      BY <1>1, <2>2, LenProperties DEF UnpinPeer
    <3>2. Len(<<>>) = 0
      BY EmptySeq
    <3> QED BY <3>1, <3>2
  <2> QED BY <2>1, <2>2
<1>3. Head(pinned[t]) \in Entries /\ Head(pinned[t]) = pinned[t][1] /\ 1 \in 1..Len(pinned[t])
  <2>1. Len(pinned[t]) \in Nat \ {0}
    BY <1>1, <1>2, EmptySeq
  <2> QED BY <1>1, <1>2, <2>1, HeadTailProperties
<1>4. Head(pinned[t])[1] \in Keys /\ Head(pinned[t])[2] \in Objs
  BY <1>3 DEF Entries
<1>5. CASE UnpinKey(t)
  <2> DEFINE k == Head(pinned[t])[1]
  <2>1. /\ pc[t] = "drop" /\ pinned' = [pinned EXCEPT ![t] = Tail(@)]
        /\ IF InHot(k) THEN UnpinObj(objOf[k]) ELSE UNCHANGED memVars
        /\ UNCHANGED <<mode, cacheVars, pc, todo, held, clearKeys, touchFailed>>
    BY <1>5 DEF UnpinKey
  <2>2. AdminOps = {} => objOf[k] = Head(pinned[t])[2]
    BY <1>3 DEF IInv, PinnedStays
  <2>3. InHot(k) => objOf[k] \in Objs
    BY <1>1, <1>4 DEF TypeOK, InSync
  <2>4. AdminOps = {} => InHot(k)
    BY <1>1, <1>4, <2>2, NoObjAssumption DEF InSync
  <2> QED BY <1>2, <2>1, <2>2, <2>3, <2>4, UnpinIInv
<1>6. CASE UnpinPeer(t)
  BY <1>2, <1>4, <1>6, UnpinIInv DEF UnpinPeer
<1> QED BY <1>5, <1>6

\* The hit prefix is the requested keys up to the first that is not there.
LEMMA HitPrefixIs ==
    ASSUME NEW ks \in Seq(Keys), NEW h, h = HitPrefix(ks)
    PROVE  /\ h \in Seq(Keys) /\ \A i \in DOMAIN h : InHot(h[i])
           /\ (\A i \in DOMAIN ks : InHot(ks[i])) => h = ks
<1> DEFINE OK(n) == (\A i \in 1..n : InHot(ks[i])) /\ (n < Len(ks) => ~InHot(ks[n + 1]))
           T == {n \in 0..Len(ks) : n < Len(ks) => ~InHot(ks[n + 1])}
           N == CHOOSE n \in 0..Len(ks) : OK(n)
<1>1. Len(ks) \in Nat /\ DOMAIN ks = 1..Len(ks) /\ \A i \in 1..Len(ks) : ks[i] \in Keys
  BY LenProperties, ElementOfSeq
<1>2. \E n \in 0..Len(ks) : OK(n)
  <2>1. T \in SUBSET Nat /\ Len(ks) \in T
    BY <1>1
  <2>2. PICK n \in T : \A m \in T : n <= m
    BY <2>1, LeastNat
  <2>3. ASSUME NEW i \in 1..n PROVE InHot(ks[i])
    <3>1. n \in 0..Len(ks) /\ i - 1 \in 0..Len(ks) /\ i - 1 < Len(ks) /\ (i - 1) + 1 = i /\ ~(n <= i - 1)
      BY <1>1, <2>3
    <3>2. i - 1 \notin T
      BY <2>2, <3>1
    <3> QED BY <3>1, <3>2
  <2>4. n \in 0..Len(ks) /\ OK(n)
    BY <2>3
  <2> QED BY <2>4
<1>3. N \in 0..Len(ks) /\ OK(N)
  BY <1>2
<1>4. h = SubSeq(ks, 1, N)
  BY DEF HitPrefix
<1> HIDE DEF N, T
<1>5. \A i \in 1..N : i \in 1..Len(ks)
  BY <1>1, <1>3
<1>6. 1 \in Int /\ N \in Int /\ \A i \in 1..N : ks[i] \in Keys
  BY <1>1, <1>3, <1>5
<1>7. /\ h \in Seq(Keys) /\ Len(h) = IF 1 <= N THEN N - 1 + 1 ELSE 0
      /\ \A i \in 1..N - 1 + 1 : h[i] = ks[1 + i - 1]
  BY ONLY <1>4, <1>6, SubSeqProperties
<1>8. Len(h) = N /\ DOMAIN h = 1..N /\ \A i \in 1..N : h[i] = ks[i]
  BY <1>1, <1>3, <1>7, LenProperties
<1>9. \A i \in DOMAIN h : InHot(h[i])
  BY <1>3, <1>8
<1>10. ASSUME \A i \in DOMAIN ks : InHot(ks[i]) PROVE h = ks
  <2>1. N = Len(ks)
    <3>1. N < Len(ks) => N + 1 \in DOMAIN ks
      BY <1>1, <1>3
    <3>2. ~(N < Len(ks))
      BY <1>3, <1>10, <3>1
    <3>3. N \in 0..Len(ks) /\ Len(ks) \in Nat
      BY <1>1, <1>3
    <3> QED BY ONLY <3>2, <3>3
  <2> QED BY <1>4, <2>1, SubSeqFull
<1> QED BY <1>7, <1>9, <1>10

\* The entries of a hit prefix ...
EntriesOf(h) == [i \in 1..Len(h) |-> <<h[i], objOf[h[i]]>>]
\* ... counted by object.
LEMMA HitEntries ==
    ASSUME IInv, NEW h \in Seq(Keys), \A i \in DOMAIN h : InHot(h[i]),
           NEW s, s = EntriesOf(h)
    PROVE  /\ s \in Seq(Entries) /\ DOMAIN s = DOMAIN h
           /\ \A i \in DOMAIN s : s[i][2] = objOf[s[i][1]] /\ s[i][2] \notin free
           /\ \A o : {i \in DOMAIN h : objOf[h[i]] = o} = {i \in DOMAIN s : s[i][2] = o}
<1> USE DEF EntriesOf
<1>1. DOMAIN h = 1..Len(h) /\ Len(h) \in Nat /\ \A i \in 1..Len(h) : h[i] \in Keys
  BY LenProperties, ElementOfSeq
<1>2. \A i \in 1..Len(h) : objOf[h[i]] \in Objs /\ objOf[h[i]] \notin free
  BY <1>1, HotInUse
<1>3. \A i \in 1..Len(h) : <<h[i], objOf[h[i]]>> \in Entries
  BY <1>1, <1>2 DEF Entries
<1>4. s \in Seq(Entries)
  BY <1>1, <1>3, IsASeq
<1> QED BY <1>1, <1>2, <1>4

\* A peer's request pins its whole hit prefix.
LEMMA AsyncContainsIInv ==
    ASSUME IInv, NEW t \in Threads, NEW ks \in Requests, AsyncContains(t, ks)
    PROVE  IInv'
<1> DEFINE h == HitPrefix(ks)
           s == EntriesOf(h)
           D(o) == {i \in DOMAIN s : s[i][2] = o}
<1>1. /\ t \in mode.active \cap Peers /\ pc[t] = "idle"
      /\ pinCount' = [o \in Objs |-> pinCount[o] + Cardinality({i \in DOMAIN h : objOf[h[i]] = o})]
      /\ keysInRequest' = keysInRequest \o h /\ pinned' = [pinned EXCEPT ![t] = s]
      /\ pc' = [pc EXCEPT ![t] = "get"]
      /\ UNCHANGED <<mode, hotCache, objOf, keyToFreq, bucketOrder, refCount, free, todo, held,
                     clearKeys, touchFailed>>
  BY DEF AsyncContains, policyVars, EntriesOf
<1>2. /\ TypeOK /\ InSync /\ Finite /\ RefsExact /\ pinned \in Lists /\ ks \in Seq(Keys)
      /\ pc \in [Threads -> {"idle", "alloc", "evict", "put", "drop", "contains", "get"}]
  BY RequestAssumption DEF IInv, PolicyInSync, ListsOK, Lists, TypeOK
<1>3. h \in Seq(Keys) /\ \A i \in DOMAIN h : InHot(h[i])
  BY <1>2, HitPrefixIs
<1> HIDE DEF h
<1>4. /\ s \in Seq(Entries) /\ DOMAIN s = DOMAIN h
      /\ \A i \in DOMAIN s : s[i][2] = objOf[s[i][1]] /\ s[i][2] \notin free
      /\ \A o : {i \in DOMAIN h : objOf[h[i]] = o} = D(o)
  BY <1>3, HitEntries
<1> HIDE DEF s
<1>5. pinned[t] = <<>> /\ held[t] = <<>>
  BY <1>1 DEF IInv, RequestsShape, ShapeOf
<1>6. Fills(pinned, pinned', t, s)
  BY <1>1, <1>2, <1>4, <1>5 DEF Fills
<1>7. ASSUME NEW o \in Objs
      PROVE  /\ IsFiniteSet(Places(pinned, o)') /\ pinned' \in Lists
             /\ Cardinality(Places(pinned, o)') = Cardinality(Places(pinned, o)) + Cardinality(D(o))
             /\ Cardinality(D(o)) \in Nat /\ (o \in free => Cardinality(D(o)) = 0)
             /\ Places(held, o)' = Places(held, o) /\ KeysOf(o)' = KeysOf(o)
  <2>1. IsFiniteSet(Places(pinned, o))
    BY <1>2 DEF Finite
  <2>2. /\ IsFiniteSet(Places(pinned', o)) /\ pinned' \in Lists
        /\ Cardinality(Places(pinned', o)) = Cardinality(Places(pinned, o)) + Cardinality(D(o))
        /\ Cardinality(D(o)) \in Nat
    BY <1>6, <2>1, PlacesNew
  <2>3. Places(pinned, o)' = Places(pinned', o) /\ Places(held, o)' = Places(held, o)
        /\ KeysOf(o)' = KeysOf(o)
    BY <1>1 DEF Places, KeysOf
  <2>4. o \in free => D(o) = {}
    BY <1>4
  <2> HIDE DEF D
  <2>5. o \in free => Cardinality(D(o)) = 0
    BY <2>4, FS_EmptySet
  <2> QED BY <2>2, <2>3, <2>5
<1>8. pinned' \in Lists
  BY <1>1, <1>2, <1>4 DEF Lists
<1> HIDE DEF D
<1>9. pinCount' \in [Objs -> Nat] /\ \A o \in Objs : pinCount'[o] = pinCount[o] + Cardinality(D(o))
  <2>1. \A o \in Objs : pinCount[o] + Cardinality(D(o)) \in Nat
    BY <1>2, <1>7 DEF TypeOK
  <2> QED BY <1>1, <1>4, <2>1
<1>10. keysInRequest' \in Seq(Keys)
  BY <1>1, <1>2, <1>3, ConcatProperties DEF TypeOK
<1>11. TypeOK' /\ InSync' /\ ListsOK' /\ Finite'
  <2>1. TypeOK'
    BY <1>1, <1>2, <1>9, <1>10 DEF TypeOK
  <2>2. InSync'
    BY <1>1, <1>2, CacheAside
  <2>3. ListsOK' /\ Finite'
    BY <1>1, <1>2, <1>7, <1>8 DEF IInv, ListsOK, Lists, Finite
  <2> QED BY <2>1, <2>2, <2>3
<1>12. RequestsShape'
  <2>1. \A u \in Threads : u # t => pinned'[u] = pinned[u] /\ pc'[u] = pc[u]
    BY <1>1, <1>2 DEF Lists
  <2>2. pc'[t] = "get" /\ held'[t] = <<>> /\ t \in mode'.active /\ t \in Peers
    BY <1>1, <1>2, <1>5
  <2>3. ShapeOf(t)'
    BY <2>2 DEF ShapeOf
  <2> QED BY <1>1, <2>1, <2>3, ShapeAside DEF IInv, RequestsShape
<1>13. RefsExact'
  <2>1. ASSUME NEW o \in Objs
        PROVE  refCount'[o] = Users(o)' /\ (o \in free' <=> refCount'[o] = 0 /\ pinCount'[o] = 0)
    <3>1. Users(o)' = Users(o) /\ refCount[o] = Users(o)
      BY <1>2, <1>7 DEF Users, RefsExact
    <3>2. (o \in free <=> refCount[o] = 0 /\ pinCount[o] = 0) /\ pinCount[o] \in Nat
      BY <1>2 DEF RefsExact, TypeOK
    <3>3. pinCount'[o] = pinCount[o] + Cardinality(D(o)) /\ Cardinality(D(o)) \in Nat
          /\ (o \in free => Cardinality(D(o)) = 0)
      BY <1>7, <1>9
    <3> QED BY <1>1, <3>1, <3>2, <3>3
  <2> QED BY <2>1 DEF RefsExact
<1>14. PinsCovered'
  <2>1. ASSUME AdminOps = {}, NEW o \in Objs PROVE pinCount'[o] >= Cardinality(Places(pinned, o)')
    <3>1. pinCount[o] >= Cardinality(Places(pinned, o)) /\ pinCount[o] \in Nat
      BY <1>2, <2>1 DEF IInv, PinsCovered, TypeOK
    <3>2. Cardinality(Places(pinned, o)) \in Nat
      BY <1>2, FS_CardinalityType DEF Finite
    <3> QED BY <1>7, <1>9, <3>1, <3>2
  <2> QED BY <1>1, <2>1 DEF PinsCovered, AdminOps
<1>15. PinnedStays'
  <2>1. ASSUME AdminOps = {}, NEW u \in Threads, NEW i \in 1..Len(pinned'[u])
        PROVE  objOf'[pinned'[u][i][1]] = pinned'[u][i][2]
    <3>1. CASE u # t
      <4>1. pinned'[u] = pinned[u]
        BY <1>1, <1>2, <3>1 DEF Lists
      <4> QED BY <1>1, <2>1, <4>1 DEF IInv, PinnedStays
    <3>2. CASE u = t
      <4>1. pinned'[u] = s /\ DOMAIN s = 1..Len(s)
        BY <1>1, <1>2, <1>4, <3>2, LenProperties DEF Lists
      <4> QED BY <1>1, <1>4, <4>1
    <3> QED BY <3>1, <3>2
  <2> QED BY <1>1, <2>1 DEF PinnedStays, AdminOps
<1>16. KeysPinned' /\ TouchNeverRaises' /\ ClearIdle'
  BY <1>1 DEF IInv, KeysPinned, TouchNeverRaises, ClearIdle, AdminOps
<1> QED BY <1>11, <1>12, <1>13, <1>14, <1>15, <1>16 DEF IInv, PolicyInSync

\* While nothing is removed by force, the chunks a peer's request pinned are still
\* there when it gets them.
LEMMA GetNonBlockingIInv ==
    ASSUME IInv, PeersUndisturbed, NEW t \in Threads, GetNonBlocking(t)
    PROVE  IInv'
<1> DEFINE want == [i \in 1..Len(pinned[t]) |-> pinned[t][i][1]]
           got == HitPrefix(want)
           s == EntriesOf(got)
           D(o) == {i \in DOMAIN s : s[i][2] = o}
<1>1. /\ t \in Peers /\ pc[t] = "get" /\ pc' = [pc EXCEPT ![t] = "drop"]
      /\ refCount' = [o \in Objs |-> refCount[o] + Cardinality({i \in DOMAIN got : objOf[got[i]] = o})]
      /\ got = want => held' = [held EXCEPT ![t] = s] /\ UNCHANGED pinned
      /\ UNCHANGED <<mode, hotCache, objOf, keyToFreq, bucketOrder, keysInRequest, pinCount, free,
                     todo, clearKeys, touchFailed>>
  BY DEF GetNonBlocking, cacheVars, policyVars, EntriesOf
<1>2. /\ TypeOK /\ InSync /\ Finite /\ RefsExact /\ held \in Lists /\ pinned \in Lists
      /\ pc \in [Threads -> {"idle", "alloc", "evict", "put", "drop", "contains", "get"}]
  BY DEF IInv, PolicyInSync, ListsOK, Lists, TypeOK
<1>3. held[t] = <<>> /\ t \in mode.active /\ AdminOps = {}
  BY <1>1, <1>2 DEF IInv, RequestsShape, ShapeOf, PeersUndisturbed, AdminOps, TypeOK
<1>4. pinned[t] \in Seq(Entries) /\ Len(pinned[t]) \in Nat
      /\ \A i \in 1..Len(pinned[t]) : pinned[t][i][1] \in Keys /\ pinned[t][i][2] \in Objs
  BY <1>2, LenProperties, ElementOfSeq DEF Lists, Entries
<1>5. want \in Seq(Keys) /\ \A i \in DOMAIN want : InHot(want[i])
  <2>1. want \in Seq(Keys)
    BY <1>4, IsASeq
  <2>2. \A i \in 1..Len(pinned[t]) : objOf[pinned[t][i][1]] = pinned[t][i][2]
    BY <1>3 DEF IInv, PinnedStays
  <2> QED BY <1>2, <1>4, <2>1, <2>2, NoObjAssumption DEF InSync
<1> HIDE DEF want
<1>6. got = want /\ got \in Seq(Keys) /\ \A i \in DOMAIN got : InHot(got[i])
  BY <1>5, HitPrefixIs
<1> HIDE DEF got
<1>7. /\ s \in Seq(Entries) /\ DOMAIN s = DOMAIN got
      /\ \A i \in DOMAIN s : s[i][2] = objOf[s[i][1]] /\ s[i][2] \notin free
      /\ \A o : {i \in DOMAIN got : objOf[got[i]] = o} = D(o)
  BY <1>6, HitEntries
<1> HIDE DEF s
<1>8. Fills(held, held', t, s)
  BY <1>1, <1>2, <1>3, <1>6, <1>7 DEF Fills
<1>9. ASSUME NEW o \in Objs
      PROVE  /\ IsFiniteSet(Places(held, o)') /\ held' \in Lists
             /\ Cardinality(Places(held, o)') = Cardinality(Places(held, o)) + Cardinality(D(o))
             /\ Cardinality(D(o)) \in Nat /\ (o \in free => Cardinality(D(o)) = 0)
             /\ Places(pinned, o)' = Places(pinned, o) /\ KeysOf(o)' = KeysOf(o)
  <2>1. IsFiniteSet(Places(held, o))
    BY <1>2 DEF Finite
  <2>2. /\ IsFiniteSet(Places(held', o)) /\ held' \in Lists
        /\ Cardinality(Places(held', o)) = Cardinality(Places(held, o)) + Cardinality(D(o))
        /\ Cardinality(D(o)) \in Nat
    BY <1>8, <2>1, PlacesNew
  <2>3. Places(held, o)' = Places(held', o) /\ Places(pinned, o)' = Places(pinned, o)
        /\ KeysOf(o)' = KeysOf(o)
    BY <1>1, <1>6 DEF Places, KeysOf
  <2>4. o \in free => D(o) = {}
    BY <1>7
  <2> HIDE DEF D
  <2>5. o \in free => Cardinality(D(o)) = 0
    BY <2>4, FS_EmptySet
  <2> QED BY <2>2, <2>3, <2>5
<1>10. held' \in Lists
  BY <1>1, <1>2, <1>6, <1>7 DEF Lists
<1> HIDE DEF D
<1>11. refCount' \in [Objs -> Nat] /\ \A o \in Objs : refCount'[o] = refCount[o] + Cardinality(D(o))
  <2>1. \A o \in Objs : refCount[o] + Cardinality(D(o)) \in Nat
    BY <1>2, <1>9 DEF TypeOK
  <2> QED BY <1>1, <1>7, <2>1
<1>12. TypeOK' /\ InSync' /\ ListsOK' /\ Finite'
  <2>1. TypeOK'
    BY <1>1, <1>2, <1>11 DEF TypeOK
  <2>2. InSync'
    BY <1>1, <1>2, CacheAside
  <2>3. ListsOK' /\ Finite'
    BY <1>1, <1>2, <1>6, <1>9, <1>10 DEF IInv, ListsOK, Lists, Finite
  <2> QED BY <2>1, <2>2, <2>3
<1>13. RequestsShape'
  <2>1. \A u \in Threads : u # t => held'[u] = held[u] /\ pc'[u] = pc[u]
    BY <1>1, <1>2, <1>6 DEF Lists
  <2>2. pc'[t] = "drop" /\ t \in mode'.active /\ t \in Peers
    BY <1>1, <1>2, <1>3
  <2>3. ShapeOf(t)'
    BY <2>2 DEF ShapeOf
  <2> QED BY <1>1, <1>6, <2>1, <2>3, ShapeAside DEF IInv, RequestsShape
<1>14. RefsExact'
  <2>1. ASSUME NEW o \in Objs
        PROVE  refCount'[o] = Users(o)' /\ (o \in free' <=> refCount'[o] = 0 /\ pinCount'[o] = 0)
    <3>1. /\ refCount[o] = Cardinality(Places(held, o)) + Cardinality(KeysOf(o))
          /\ o \in free <=> refCount[o] = 0 /\ pinCount[o] = 0
          /\ refCount[o] \in Nat
      BY <1>2 DEF RefsExact, Users, TypeOK
    <3>2. Cardinality(Places(held, o)) \in Nat /\ Cardinality(KeysOf(o)) \in Nat
      BY <1>2, FS_CardinalityType DEF Finite
    <3>3. Users(o)' = Cardinality(Places(held, o)') + Cardinality(KeysOf(o)')
      BY DEF Users
    <3>4. refCount'[o] = refCount[o] + Cardinality(D(o)) /\ Cardinality(D(o)) \in Nat
          /\ (o \in free => Cardinality(D(o)) = 0)
      BY <1>9, <1>11
    <3>5. Users(o)' = refCount'[o]
      BY <1>9, <3>1, <3>2, <3>3, <3>4
    <3> QED BY <1>1, <3>1, <3>4, <3>5
  <2> QED BY <2>1 DEF RefsExact
<1>15. PinnedStays' /\ PinsCovered'
  BY <1>1, <1>6, <1>9 DEF IInv, PinnedStays, PinsCovered, AdminOps
<1>16. KeysPinned' /\ TouchNeverRaises' /\ ClearIdle'
  <2>1. \A u \in Threads : pc[u] = "contains" => pc'[u] = "contains"
    BY <1>1, <1>2
  <2> QED BY <1>1, <1>6, <2>1, TouchAside DEF IInv, ClearIdle, AdminOps
<1> QED BY <1>12, <1>13, <1>14, <1>15, <1>16 DEF IInv, PolicyInSync

\* A step that leaves the cache and the requests alone.
LEMMA AllAside ==
    ASSUME IInv, UNCHANGED <<mode, cacheVars, memVars, pc, todo, held, pinned, touchFailed>>
    PROVE  /\ PolicyInSync' /\ ListsOK' /\ RequestsShape' /\ Finite' /\ RefsExact'
           /\ PinnedStays' /\ PinsCovered' /\ KeysPinned' /\ TouchNeverRaises'
<1>0. UNCHANGED <<mode, hotCache, objOf, keyToFreq, bucketOrder, keysInRequest, refCount, pinCount,
                  free, pc, todo, held, pinned, touchFailed>>
  BY DEF cacheVars, policyVars, memVars
<1>1. PolicyInSync'
  BY <1>0, CacheAside DEF IInv, PolicyInSync, TypeOK
<1>2. ListsOK' /\ RequestsShape'
  BY <1>0, ShapeAside DEF IInv, ListsOK, RequestsShape
<1>3. Finite' /\ RefsExact' /\ PinnedStays' /\ PinsCovered'
  BY <1>0, BooksAside DEF IInv
<1>4. KeysPinned' /\ TouchNeverRaises'
  BY <1>0, TouchAside DEF IInv
<1> QED BY <1>1, <1>2, <1>3, <1>4

\* A key removed by force, pinned or not.
LEMMA ForceRemoveIInv ==
    ASSUME IInv, NEW k, AdminOps # {}, ForceRemove(k), ClearIdle'
    PROVE  IInv'
<1>1. /\ TypeOK /\ InHot(k) /\ PopKey(k) /\ DropPolicy(k)
      /\ UNCHANGED <<mode, keysInRequest, pc, todo, held, pinned, touchFailed>>
  BY DEF IInv, PolicyInSync, ForceRemove
<1>2. k \in Keys
  BY <1>1, RangeOfSeq DEF InHot, TypeOK
<1>3. pc' \in [Threads -> {"idle", "alloc", "evict", "put", "drop", "contains", "get"}]
      /\ \A u \in Threads : pc[u] = "contains" => pc'[u] = "contains"
  BY <1>1 DEF TypeOK
<1>4. ListsOK' /\ RequestsShape'
  BY <1>1, ShapeAside DEF IInv, ListsOK, RequestsShape
<1> QED BY <1>1, <1>2, <1>3, <1>4, PopIInv DEF IInv

\* remove and clear.
LEMMA AdminIInv ==
    ASSUME IInv, (\E k \in Keys : RemoveKey(k)) \/ ClearBegin \/ ClearRemove
    PROVE  IInv'
<1>1. CASE \E k \in Keys : RemoveKey(k)
  <2>1. PICK k \in Keys : RemoveKey(k)
    BY <1>1
  <2>2. AdminOps # {} /\ ForceRemove(k) /\ ClearIdle'
    BY <2>1 DEF RemoveKey, ForceRemove, IInv, ClearIdle, AdminOps
  <2> QED BY <2>2, ForceRemoveIInv
<1>2. CASE ClearBegin
  <2>1. ClearIdle'
    BY <1>2 DEF ClearBegin, ClearIdle, AdminOps
  <2> QED BY <1>2, <2>1, AllAside DEF ClearBegin, IInv
<1>3. CASE ClearRemove
  <2>1. AdminOps # {} /\ mode' = mode /\ ClearIdle'
    BY <1>3 DEF ClearRemove, IInv, ClearIdle, AdminOps, ForceRemove
  <2>2. CASE ForceRemove(Head(clearKeys))
    BY <2>1, <2>2, ForceRemoveIInv
  <2>3. CASE UNCHANGED <<mode, cacheVars, memVars, pc, todo, held, pinned, touchFailed>>
    BY <2>1, <2>3, AllAside DEF IInv
  <2> QED BY <1>3, <2>2, <2>3 DEF ClearRemove
<1> QED BY <1>1, <1>2, <1>3

\* Every step keeps the inductive invariant.
LEMMA NextIInv == PeersUndisturbed /\ IInv /\ [Next]_vars => IInv'
<1> SUFFICES ASSUME PeersUndisturbed, IInv, [Next]_vars PROVE IInv'
  OBVIOUS
<1>1. CASE UNCHANGED vars
  <2>1. ClearIdle'
    BY <1>1 DEF vars, IInv, ClearIdle, AdminOps
  <2> QED BY <1>1, <2>1, AllAside DEF vars, IInv
<1>2. ASSUME NEW t \in Threads,
             \/ \E ks \in Requests : BeginAlloc(t, ks) \/ BeginLookup(t, ks)
             \/ PutDone(t) \/ GetDone(t) \/ Finish(t)
      PROVE  IInv'
  BY <1>2, PointsIInv
<1>3. ASSUME NEW t \in Threads, AllocTry(t) PROVE IInv'
  BY <1>3, AllocTryIInv
<1>4. ASSUME NEW t \in Threads, EvictRound(t) PROVE IInv'
  BY <1>4, EvictRoundIInv
<1>5. ASSUME NEW t \in Threads, NEW i \in 1..Len(held[t]), SubmitPut(t, i) PROVE IInv'
  BY <1>5, SubmitPutIInv
<1>6. ASSUME NEW t \in Threads, DropRef(t) PROVE IInv'
  BY <1>6, DropRefIInv
<1>7. ASSUME NEW t \in Threads, ContainsPin(t) PROVE IInv'
  BY <1>7, ContainsPinIInv
<1>8. ASSUME NEW t \in Threads, TouchCache(t) PROVE IInv'
  BY <1>8, TouchCacheIInv
<1>9. ASSUME NEW t \in Threads, GetBlocking(t) PROVE IInv'
  BY <1>9, GetBlockingIInv
<1>10. ASSUME NEW t \in Threads, UnpinKey(t) \/ UnpinPeer(t) PROVE IInv'
  BY <1>10, UnpinsIInv
<1>11. ASSUME NEW t \in Threads, NEW ks \in Requests, AsyncContains(t, ks) PROVE IInv'
  BY <1>11, AsyncContainsIInv
<1>12. ASSUME NEW t \in Threads, GetNonBlocking(t) PROVE IInv'
  BY <1>12, GetNonBlockingIInv
<1>13. ASSUME (\E k \in Keys : RemoveKey(k)) \/ ClearBegin \/ ClearRemove PROVE IInv'
  BY <1>13, AdminIInv
<1> QED BY <1>1, <1>2, <1>3, <1>4, <1>5, <1>6, <1>7, <1>8, <1>9, <1>10, <1>11, <1>12, <1>13 DEF Next

-----------------------------------------------------------------------------
(* The theorems. *)

\* The inductive invariant holds in every reachable state.
THEOREM Invariant == Spec /\ PeersUndisturbed => []IInv
<1> SUFFICES ASSUME PeersUndisturbed PROVE Spec => []IInv
  OBVIOUS
<1>1. IInv /\ [Next]_vars => IInv'
  BY NextIInv
<1> QED BY InitIInv, <1>1, PTL DEF Spec

\* The dictionary, the objects and the LFU bookkeeping describe the same keys after
\* every critical section, so no eviction raises and no chunk drops out of every bucket.
THEOREM PolicyKept == Spec /\ PeersUndisturbed => []PolicyInSync
<1>1. IInv => PolicyInSync
  BY DEF IInv
<1> QED BY Invariant, <1>1, PTL

\* A chunk's reference count is the number of its users, and exactly the unused and
\* unpinned buffers are free: nothing is freed under a reader and nothing leaks.
THEOREM ReferencesExact == Spec /\ PeersUndisturbed => []RefsExact
<1>1. IInv => RefsExact
  BY DEF IInv
<1> QED BY Invariant, <1>1, PTL

\* What contains(pin=True) promises to a lookup, against every other request.
THEOREM PinsKept == Spec /\ PeersUndisturbed => []PinsHold
<1>1. IInv => PinsHold
  BY DEF IInv, PinsHold
<1> QED BY Invariant, <1>1, PTL
=============================================================================
