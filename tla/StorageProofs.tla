---------------------------- MODULE StorageProofs ----------------------------
(***************************************************************************)
(* Proofs about the local disk backend, for any sets of keys, puts, gets   *)
(* and prefetches, any disk and buffer sizes and any number of workers;    *)
(* and about the NIXL and GDS backends, for any jobs, pages, descriptors   *)
(* and failures.                                                           *)
(***************************************************************************)
EXTENDS MCStorage, DictionaryProofs

\* A key is not stored again while one thread stores and nothing is removed by
\* force: Storage_reput shows what happens otherwise.
NotReput == \A m \in Disks : ~m.many /\ ~m.remove => ~m.reput

PutPCs == {"idle", "insert", "reserve", "queued", "write", "insert_key", "finish"}
GetPCs == {"idle", "get", "alloc", "read", "meta", "use", "unpin"}
PrefetchPCs == {"idle", "get", "next", "alloc", "queued", "read", "meta", "unpin", "use"}

\* What is under way: each operation has a key while it runs, and a prefetch is at
\* one of its keys until it has read them all.
PutsOK ==
    /\ putting \in [Puts -> [pc: PutPCs, key: DiskKeys \cup {LD!NoKey}, linked: BOOLEAN]]
    /\ \A p \in Puts : putting[p].pc # "idle" => putting[p].key \in DiskKeys
GetsOK ==
    /\ getting \in [Gets -> [pc: GetPCs, key: DiskKeys \cup {LD!NoKey}]]
    /\ \A g \in Gets : getting[g].pc # "idle" => getting[g].key \in DiskKeys
PrefetchOK(r) ==
    /\ r.done <= Len(r.keys)
    /\ r.pc \notin {"idle", "use"} => r.done < Len(r.keys)
    /\ r.pc \in {"idle", "get", "queued"} => r.done = 0
    /\ r.pc = "idle" => r.keys = <<>>
    /\ r.pc = "use" => r.done = Len(r.keys)
PrefetchesOK ==
    /\ prefetch \in [Prefetches -> [pc: PrefetchPCs, keys: Seq(DiskKeys), done: Nat]]
    /\ \A f \in Prefetches : /\ PrefetchOK(prefetch[f])
                             /\ f \notin disk.prefetches => prefetch[f].pc = "idle"

\* The budget covers the keys of the dictionary and the chunks on their way to disk;
\* with one writer it is their number.
OnItsWay == LD!PutPhase({"queued", "write", "insert_key"})
SizeCovers ==
    /\ LD!IsInjective(dict)
    /\ cacheSize >= Len(dict) + Cardinality(OnItsWay)
    /\ LD!OneWriter => cacheSize = Len(dict) + Cardinality(OnItsWay)

\* A file is that of a key of the dictionary or is being written.
FilesCounted ==
    \A k \in DiskKeys : file[k] # "absent" =>
        LD!InDict(k) \/ \E p \in Puts : putting[p].pc \in {"write", "insert_key"} /\ putting[p].key = k

\* The puts of one writer are of different keys, none of which is in the dictionary
\* before its file is written.
PutsApart == LD!OneWriter =>
    /\ \A p \in Puts : putting[p].pc \notin {"idle", "finish"} => ~LD!InDict(putting[p].key)
    /\ \A p \in Puts : putting[p].pc \notin {"idle", "insert"} => diskPuts[putting[p].key] > 0
    /\ \A p, q \in Puts :
          putting[p].pc # "idle" /\ putting[q].pc # "idle" /\ putting[p].key = putting[q].key => p = q
    /\ \A p, q \in LD!PutPhase({"insert", "reserve"}) : p = q
    /\ \A p \in Puts : putting[p].pc = "write" => putting[p].linked
    /\ \A p \in Puts : putting[p].pc = "insert_key" => file[putting[p].key] = "whole"

\* The pins on a key: of a get, of the lookup of a prefetch, and of the places of a
\* prefetch that are being loaded.
GetPins(k) == {g \in Gets : getting[g].pc # "idle" /\ getting[g].key = k}
FoundPins(k) == {f \in Prefetches : k \in LD!Range(prefetch[f].keys)}
Holds(r, i) == IF r.pc \in {"get", "next", "alloc"} THEN i <= r.done ELSE i > r.done
HoldsOf(r, k) == {i \in DOMAIN r.keys : r.keys[i] = k /\ Holds(r, i)}
LoadPins(k) == UNION {{<<f, i>> : i \in HoldsOf(prefetch[f], k)} : f \in Prefetches}
Uses(k) == Cardinality(GetPins(k)) + Cardinality(FoundPins(k)) + Cardinality(LoadPins(k))
PinsFinite == \A k \in DiskKeys : IsFiniteSet(LoadPins(k))

\* With one writer each of these is counted and its key stays in the dictionary.
PinsHeld == LD!OneWriter =>
    \A k \in DiskKeys : /\ pinCount[k] >= Uses(k)
                        /\ disk.prefetches = {} => pinCount[k] = Uses(k)
                        /\ Uses(k) > 0 => LD!InDict(k)

OpsOK == LD!TypeOK /\ PutsOK /\ GetsOK /\ PrefetchesOK
StoreOK == SizeCovers /\ FilesCounted /\ PutsApart /\ LD!FileBacked
PinsOK == PinsFinite /\ PinsHeld
IInv == OpsOK /\ StoreOK /\ PinsOK /\ LD!ReadsWhole

-----------------------------------------------------------------------------
(* The dictionary, and counting puts and pins. *)

\* The operators of Dictionary, as LocalDiskBackend has them.
LEMMA SameOperators ==
    /\ \A s : LD!Range(s) = Range(s)
    /\ \A s, k : LD!Without(s, k) = Without(s, k)
    /\ \A s : LD!IsInjective(s) <=> IsInjective(s)
<1>1. \A s : LD!Range(s) = Range(s)
  BY DEF LD!Range, Range
<1>2. \A s, k : LD!Place(s, k) = Place(s, k)
  BY DEF LD!Place, Place
<1>3. \A s, k : LD!RemoveAt(s, k) = RemoveAt(s, k)
  BY DEF LD!RemoveAt, RemoveAt
<1>4. \A s, k : LD!Without(s, k) = Without(s, k)
  BY <1>1, <1>2, <1>3 DEF LD!Without, Without
<1> QED BY <1>1, <1>4 DEF LD!IsInjective, IsInjective

\* So is the number of elements of a set.
LEMMA SameCardinality == \A S : LD!Cardinality(S) = Cardinality(S)
<1>1. \A S : LD!IsFiniteSet(S) <=> IsFiniteSet(S)
  BY DEF LD!IsFiniteSet, IsFiniteSet
<1> QED BY <1>1 DEF LD!Cardinality, Cardinality

\* A key that leaves the dictionary.
LEMMA DictPop ==
    ASSUME dict \in Seq(DiskKeys), LD!IsInjective(dict), NEW k, dict' = LD!Without(dict, k)
    PROVE  /\ dict' \in Seq(DiskKeys) /\ LD!IsInjective(dict') /\ Len(dict') \in Nat /\ Len(dict) \in Nat
           /\ \A j : LD!InDict(j)' <=> LD!InDict(j) /\ j # k
           /\ Len(dict') = IF LD!InDict(k) THEN Len(dict) - 1 ELSE Len(dict)
           /\ LD!InDict(k) => Len(dict) > 0
<1>1. dict' = Without(dict, k) /\ IsInjective(dict)
  BY SameOperators
<1>2. /\ dict' \in Seq(DiskKeys) /\ Range(dict') = Range(dict) \ {k} /\ IsInjective(dict')
      /\ Len(dict') = IF k \in Range(dict) THEN Len(dict) - 1 ELSE Len(dict)
  BY <1>1, WithoutIs
<1>3. Len(dict') \in Nat /\ Len(dict) \in Nat
  BY <1>2, LenProperties
<1>4. \A j : (LD!InDict(j) <=> j \in Range(dict)) /\ (LD!InDict(j)' <=> j \in Range(dict'))
  BY SameOperators DEF LD!InDict
<1> QED BY <1>2, <1>3, <1>4, SameOperators

\* A key that is hit or inserted.
LEMMA DictHit ==
    ASSUME dict \in Seq(DiskKeys), LD!IsInjective(dict), NEW k \in DiskKeys, dict' = LD!UpdateOnHit(k)
    PROVE  /\ dict' \in Seq(DiskKeys) /\ LD!IsInjective(dict') /\ Len(dict') \in Nat /\ Len(dict) \in Nat
           /\ \A j : LD!InDict(j)' <=> LD!InDict(j) \/ j = k
           /\ Len(dict') = IF LD!InDict(k) THEN Len(dict) ELSE Len(dict) + 1
<1> DEFINE w == Without(dict, k)
<1>1. dict' = Append(w, k) /\ IsInjective(dict)
  BY SameOperators DEF LD!UpdateOnHit
<1>2. /\ w \in Seq(DiskKeys) /\ Range(w) = Range(dict) \ {k} /\ IsInjective(w)
      /\ Len(w) = IF k \in Range(dict) THEN Len(dict) - 1 ELSE Len(dict)
  BY <1>1, WithoutIs
<1> HIDE DEF w
<1>3. /\ dict' \in Seq(DiskKeys) /\ Len(dict') = Len(w) + 1 /\ Range(dict') = Range(w) \cup {k}
      /\ IsInjective(dict')
  BY <1>1, <1>2, AppendIs
<1>4. Len(dict') \in Nat /\ Len(dict) \in Nat
  BY <1>3, LenProperties
<1>5. \A j : (LD!InDict(j) <=> j \in Range(dict)) /\ (LD!InDict(j)' <=> j \in Range(dict'))
  BY SameOperators DEF LD!InDict
<1>6. Len(dict') = IF LD!InDict(k) THEN Len(dict) ELSE Len(dict) + 1
  BY <1>2, <1>3, <1>4, <1>5
<1> QED BY <1>2, <1>3, <1>4, <1>5, <1>6, SameOperators

\* One put that moves on changes the number on their way by itself.
LEMMA PutMoves ==
    ASSUME NEW p \in Puts, \A q \in Puts : q # p => putting'[q].pc = putting[q].pc
    PROVE  /\ Cardinality(OnItsWay) \in Nat /\ Cardinality(OnItsWay') \in Nat
           /\ Cardinality(OnItsWay') = Cardinality(OnItsWay)
                + (IF p \in OnItsWay' THEN 1 ELSE 0) - (IF p \in OnItsWay THEN 1 ELSE 0)
<1>1. IsFiniteSet(OnItsWay) /\ IsFiniteSet(OnItsWay')
  <2>1. OnItsWay \subseteq Puts /\ OnItsWay' \subseteq Puts
    BY DEF OnItsWay, LD!PutPhase
  <2> QED BY <2>1, DiskAssumption, FS_Subset
<1>2. Cardinality(OnItsWay) \in Nat /\ Cardinality(OnItsWay') \in Nat
  BY <1>1, FS_CardinalityType
<1>3. \A q \in Puts : q # p => (q \in OnItsWay' <=> q \in OnItsWay)
  BY DEF OnItsWay, LD!PutPhase
<1>4. OnItsWay \subseteq Puts /\ OnItsWay' \subseteq Puts
  BY DEF OnItsWay, LD!PutPhase
<1>5. CASE p \in OnItsWay' <=> p \in OnItsWay
  <2>1. OnItsWay' = OnItsWay
    BY <1>3, <1>4, <1>5
  <2> QED BY ONLY <1>2, <1>5, <2>1
<1>6. CASE p \in OnItsWay' /\ p \notin OnItsWay
  <2>1. OnItsWay' = OnItsWay \cup {p}
    BY <1>3, <1>4, <1>6
  <2>2. Cardinality(OnItsWay \cup {p}) = Cardinality(OnItsWay) + 1
    BY ONLY <1>1, <1>6, FS_AddElement
  <2> QED BY ONLY <1>2, <1>6, <2>1, <2>2
<1>7. CASE p \notin OnItsWay' /\ p \in OnItsWay
  <2>1. OnItsWay' = OnItsWay \ {p}
    BY <1>3, <1>4, <1>7
  <2>2. Cardinality(OnItsWay \ {p}) = Cardinality(OnItsWay) - 1
    BY ONLY <1>1, <1>7, FS_RemoveElement
  <2> QED BY ONLY <1>2, <1>7, <2>1, <2>2
<1> QED BY <1>5, <1>6, <1>7

\* The uses of a key are counted, each of them.
LEMMA UsesIs ==
    ASSUME PinsFinite, NEW k \in DiskKeys
    PROVE  /\ Cardinality(GetPins(k)) \in Nat /\ Cardinality(FoundPins(k)) \in Nat
           /\ Cardinality(LoadPins(k)) \in Nat /\ Uses(k) \in Nat
           /\ IsFiniteSet(GetPins(k)) /\ IsFiniteSet(FoundPins(k)) /\ IsFiniteSet(LoadPins(k))
           /\ GetPins(k) # {} \/ FoundPins(k) # {} => Uses(k) > 0
<1>1. IsFiniteSet(GetPins(k)) /\ IsFiniteSet(FoundPins(k)) /\ IsFiniteSet(LoadPins(k))
  <2>1. GetPins(k) \subseteq Gets /\ FoundPins(k) \subseteq Prefetches
    BY DEF GetPins, FoundPins
  <2>2. IsFiniteSet(Gets) /\ IsFiniteSet(Prefetches)
    BY DiskAssumption
  <2>3. IsFiniteSet(GetPins(k)) /\ IsFiniteSet(FoundPins(k))
    BY ONLY <2>1, <2>2, FS_Subset
  <2> QED BY <2>3 DEF PinsFinite
<1>2. /\ Cardinality(GetPins(k)) \in Nat /\ Cardinality(FoundPins(k)) \in Nat
      /\ Cardinality(LoadPins(k)) \in Nat
      /\ GetPins(k) # {} => Cardinality(GetPins(k)) # 0
      /\ FoundPins(k) # {} => Cardinality(FoundPins(k)) # 0
  BY ONLY <1>1, FS_CardinalityType, FS_EmptySet
<1> QED BY <1>1, <1>2 DEF Uses

\* A get that starts or ends on k is one use of k more or less.
LEMMA GetMoves ==
    ASSUME PinsFinite, NEW g \in Gets, \A h \in Gets : h # g => getting'[h] = getting[h],
           UNCHANGED prefetch
    PROVE  /\ PinsFinite'
           /\ \A k \in DiskKeys : Uses(k)' = Uses(k) + (IF g \in GetPins(k)' THEN 1 ELSE 0)
                                                     - (IF g \in GetPins(k) THEN 1 ELSE 0)
<1>1. \A k \in DiskKeys : LoadPins(k)' = LoadPins(k) /\ FoundPins(k)' = FoundPins(k)
  BY DEF LoadPins, FoundPins
<1>2. ASSUME NEW k \in DiskKeys
      PROVE  Uses(k)' = Uses(k) + (IF g \in GetPins(k)' THEN 1 ELSE 0)
                                - (IF g \in GetPins(k) THEN 1 ELSE 0)
  <2>1. GetPins(k) \subseteq Gets /\ GetPins(k)' \subseteq Gets
        /\ \A h \in Gets : h # g => (h \in GetPins(k)' <=> h \in GetPins(k))
    BY DEF GetPins
  <2>2. /\ Cardinality(GetPins(k)) \in Nat /\ IsFiniteSet(GetPins(k)) /\ Uses(k) \in Nat
        /\ Cardinality(FoundPins(k)) \in Nat /\ Cardinality(LoadPins(k)) \in Nat
    BY UsesIs
  <2>3. Cardinality(GetPins(k)') = Cardinality(GetPins(k)) + (IF g \in GetPins(k)' THEN 1 ELSE 0)
                                                           - (IF g \in GetPins(k) THEN 1 ELSE 0)
    <3>1. CASE g \in GetPins(k)' <=> g \in GetPins(k)
      <4>1. GetPins(k)' = GetPins(k)
        BY <2>1, <3>1
      <4> QED BY ONLY <2>2, <3>1, <4>1
    <3>2. CASE g \in GetPins(k)' /\ g \notin GetPins(k)
      <4>1. GetPins(k)' = GetPins(k) \cup {g}
        BY <2>1, <3>2
      <4>2. Cardinality(GetPins(k) \cup {g}) = Cardinality(GetPins(k)) + 1
        BY ONLY <2>2, <3>2, FS_AddElement
      <4> QED BY ONLY <2>2, <3>2, <4>1, <4>2
    <3>3. CASE g \notin GetPins(k)' /\ g \in GetPins(k)
      <4>1. GetPins(k)' = GetPins(k) \ {g}
        BY <2>1, <3>3
      <4>2. Cardinality(GetPins(k) \ {g}) = Cardinality(GetPins(k)) - 1
        BY ONLY <2>2, <3>3, FS_RemoveElement
      <4> QED BY ONLY <2>2, <3>3, <4>1, <4>2
    <3> QED BY <3>1, <3>2, <3>3
  <2>4. Uses(k)' = Cardinality(GetPins(k)') + Cardinality(FoundPins(k)) + Cardinality(LoadPins(k))
    BY <1>1 DEF Uses
  <2> QED BY <2>2, <2>3, <2>4 DEF Uses
<1>3. PinsFinite'
  BY <1>1 DEF PinsFinite
<1> QED BY <1>2, <1>3

\* So is a prefetch whose lookup finds k or that is done with it, and each place of
\* it that is taken or given back.
LEMMA PrefetchMoves ==
    ASSUME PinsFinite, NEW f \in Prefetches, \A h \in Prefetches : h # f => prefetch'[h] = prefetch[h],
           UNCHANGED getting, NEW k \in DiskKeys, NEW i,
           \/ HoldsOf(prefetch'[f], k) = HoldsOf(prefetch[f], k)
           \/ i \notin HoldsOf(prefetch[f], k)
              /\ HoldsOf(prefetch'[f], k) = HoldsOf(prefetch[f], k) \cup {i}
           \/ i \in HoldsOf(prefetch[f], k)
              /\ HoldsOf(prefetch'[f], k) = HoldsOf(prefetch[f], k) \ {i}
    PROVE  /\ IsFiniteSet(LoadPins(k)')
           /\ Uses(k)' = Uses(k)
                + (IF f \in FoundPins(k)' THEN 1 ELSE 0) - (IF f \in FoundPins(k) THEN 1 ELSE 0)
                + (IF i \in HoldsOf(prefetch'[f], k) THEN 1 ELSE 0)
                - (IF i \in HoldsOf(prefetch[f], k) THEN 1 ELSE 0)
<1>1. GetPins(k)' = GetPins(k)
  BY DEF GetPins
<1>2. /\ Cardinality(GetPins(k)) \in Nat /\ Cardinality(FoundPins(k)) \in Nat
      /\ Cardinality(LoadPins(k)) \in Nat /\ Uses(k) \in Nat
      /\ IsFiniteSet(FoundPins(k)) /\ IsFiniteSet(LoadPins(k))
  BY UsesIs
<1>3. /\ Cardinality(FoundPins(k)') = Cardinality(FoundPins(k))
            + (IF f \in FoundPins(k)' THEN 1 ELSE 0) - (IF f \in FoundPins(k) THEN 1 ELSE 0)
      /\ Cardinality(FoundPins(k)') \in Nat
  <2>1. FoundPins(k) \subseteq Prefetches /\ FoundPins(k)' \subseteq Prefetches
        /\ \A h \in Prefetches : h # f => (h \in FoundPins(k)' <=> h \in FoundPins(k))
    BY DEF FoundPins
  <2>2. CASE f \in FoundPins(k)' <=> f \in FoundPins(k)
    <3>1. FoundPins(k)' = FoundPins(k)
      BY <2>1, <2>2
    <3> QED BY ONLY <1>2, <2>2, <3>1
  <2>3. CASE f \in FoundPins(k)' /\ f \notin FoundPins(k)
    <3>1. FoundPins(k)' = FoundPins(k) \cup {f}
      BY <2>1, <2>3
    <3>2. Cardinality(FoundPins(k) \cup {f}) = Cardinality(FoundPins(k)) + 1
      BY ONLY <1>2, <2>3, FS_AddElement
    <3> QED BY ONLY <1>2, <2>3, <3>1, <3>2
  <2>4. CASE f \notin FoundPins(k)' /\ f \in FoundPins(k)
    <3>1. FoundPins(k)' = FoundPins(k) \ {f}
      BY <2>1, <2>4
    <3>2. Cardinality(FoundPins(k) \ {f}) = Cardinality(FoundPins(k)) - 1
          /\ Cardinality(FoundPins(k) \ {f}) \in Nat
      BY ONLY <1>2, <2>4, FS_RemoveElement, FS_CardinalityType
    <3> QED BY ONLY <1>2, <2>4, <3>1, <3>2
  <2> QED BY <2>2, <2>3, <2>4
<1>4. /\ IsFiniteSet(LoadPins(k)')
      /\ Cardinality(LoadPins(k)') = Cardinality(LoadPins(k))
            + (IF i \in HoldsOf(prefetch'[f], k) THEN 1 ELSE 0)
            - (IF i \in HoldsOf(prefetch[f], k) THEN 1 ELSE 0)
      /\ Cardinality(LoadPins(k)') \in Nat
  <2>0. /\ \A h, j : <<h, j>> \in LoadPins(k) <=> h \in Prefetches /\ j \in HoldsOf(prefetch[h], k)
        /\ \A u \in LoadPins(k) : u = <<u[1], u[2]>>
        /\ \A h, j : <<h, j>> \in LoadPins(k)' <=> h \in Prefetches /\ j \in HoldsOf(prefetch'[h], k)
        /\ \A u \in LoadPins(k)' : u = <<u[1], u[2]>>
        /\ \A h \in Prefetches : h # f => HoldsOf(prefetch'[h], k) = HoldsOf(prefetch[h], k)
    BY DEF LoadPins
  <2>1. CASE HoldsOf(prefetch'[f], k) = HoldsOf(prefetch[f], k)
    <3>1. LoadPins(k)' = LoadPins(k)
      BY <2>1 DEF LoadPins
    <3> QED BY ONLY <1>2, <2>1, <3>1
  <2>2. CASE i \notin HoldsOf(prefetch[f], k)
              /\ HoldsOf(prefetch'[f], k) = HoldsOf(prefetch[f], k) \cup {i}
    <3>1. <<f, i>> \notin LoadPins(k)
      BY <2>0, <2>2
    <3>2. LoadPins(k)' = LoadPins(k) \cup {<<f, i>>}
      <4>1. \A u \in LoadPins(k) : u \in LoadPins(k)'
        BY <2>0, <2>2
      <4>2. <<f, i>> \in LoadPins(k)'
        BY <2>0, <2>2
      <4>3. \A u \in LoadPins(k)' : u \in LoadPins(k) \/ u = <<f, i>>
        <5>1. ASSUME NEW u \in LoadPins(k)', u # <<f, i>> PROVE u \in LoadPins(k)
          <6>1. u = <<u[1], u[2]>> /\ u[1] \in Prefetches /\ u[2] \in HoldsOf(prefetch'[u[1]], k)
            BY <2>0
          <6>2. u[2] \in HoldsOf(prefetch[u[1]], k)
            BY <2>0, <2>2, <5>1, <6>1
          <6>3. <<u[1], u[2]>> \in LoadPins(k)
            BY <2>0, <6>1, <6>2
          <6> QED BY <6>1, <6>3
        <5> QED BY <5>1
      <4> QED BY <4>1, <4>2, <4>3
    <3>3. IsFiniteSet(LoadPins(k) \cup {<<f, i>>})
          /\ Cardinality(LoadPins(k) \cup {<<f, i>>}) = Cardinality(LoadPins(k)) + 1
      BY ONLY <1>2, <3>1, FS_AddElement
    <3> QED BY <1>2, <2>2, <3>2, <3>3
  <2>3. CASE i \in HoldsOf(prefetch[f], k)
              /\ HoldsOf(prefetch'[f], k) = HoldsOf(prefetch[f], k) \ {i}
    <3>1. <<f, i>> \in LoadPins(k)
      BY <2>0, <2>3
    <3>2. LoadPins(k)' = LoadPins(k) \ {<<f, i>>}
      <4>1. ASSUME NEW u \in LoadPins(k)' PROVE u \in LoadPins(k) /\ u # <<f, i>>
        <5>1. u = <<u[1], u[2]>> /\ u[1] \in Prefetches /\ u[2] \in HoldsOf(prefetch'[u[1]], k)
          BY <2>0
        <5>2. u[2] \in HoldsOf(prefetch[u[1]], k) /\ ~(u[1] = f /\ u[2] = i)
          BY <2>0, <2>3, <5>1
        <5>3. <<u[1], u[2]>> \in LoadPins(k)
          BY <2>0, <5>1, <5>2
        <5> QED BY <5>1, <5>2, <5>3
      <4>2. ASSUME NEW u \in LoadPins(k), u # <<f, i>> PROVE u \in LoadPins(k)'
        <5>1. u = <<u[1], u[2]>> /\ u[1] \in Prefetches /\ u[2] \in HoldsOf(prefetch[u[1]], k)
          BY <2>0
        <5>2. ~(u[1] = f /\ u[2] = i)
          BY <4>2, <5>1
        <5>3. u[2] \in HoldsOf(prefetch'[u[1]], k)
          BY <2>0, <2>3, <5>1, <5>2
        <5>4. <<u[1], u[2]>> \in LoadPins(k)'
          BY <2>0, <5>1, <5>3
        <5> QED BY <5>1, <5>4
      <4> QED BY <4>1, <4>2
    <3>3. IsFiniteSet(LoadPins(k) \ {<<f, i>>})
          /\ Cardinality(LoadPins(k) \ {<<f, i>>}) = Cardinality(LoadPins(k)) - 1
      BY ONLY <1>2, <3>1, FS_RemoveElement
    <3>4. Cardinality(LoadPins(k) \ {<<f, i>>}) \in Nat
      BY <3>3, FS_CardinalityType
    <3> QED BY <1>2, <2>3, <3>2, <3>3, <3>4
  <2> QED BY <2>1, <2>2, <2>3
<1>5. Uses(k)' = Cardinality(GetPins(k)) + Cardinality(FoundPins(k)') + Cardinality(LoadPins(k)')
  BY <1>1 DEF Uses
<1>6. Uses(k) = Cardinality(GetPins(k)) + Cardinality(FoundPins(k)) + Cardinality(LoadPins(k))
  BY DEF Uses
<1> QED BY <1>2, <1>3, <1>4, <1>5, <1>6

-----------------------------------------------------------------------------
(* What an action leaves as it was. *)

\* The types that the steps below start from.
LEMMA Types ==
    ASSUME IInv
    PROVE  /\ disk \in Disks /\ disk.puts \subseteq Puts /\ disk.gets \subseteq Gets
           /\ disk.prefetches \subseteq Prefetches /\ disk.keys \subseteq DiskKeys
           /\ disk.requests \subseteq Seq(DiskKeys) /\ disk.maxCacheSize \in Nat
           /\ dict \in Seq(DiskKeys) /\ Len(dict) \in Nat /\ cacheSize \in 0..disk.maxCacheSize
           /\ pinCount \in [DiskKeys -> Int] /\ file \in [DiskKeys -> {"absent", "partial", "whole"}]
           /\ diskPuts \in [DiskKeys -> Nat] /\ leaked \in Nat /\ badRead \in BOOLEAN
           /\ lock \in {"free", "lost"} \cup Prefetches
<1>1. LD!TypeOK
  BY DEF IInv, OpsOK
<1>2. disk \in LD!ModeType
  BY <1>1, DiskAssumption DEF LD!TypeOK
<1>3. /\ disk.puts \subseteq Puts /\ disk.gets \subseteq Gets /\ disk.prefetches \subseteq Prefetches
      /\ disk.keys \subseteq DiskKeys /\ disk.requests \subseteq Seq(DiskKeys) /\ disk.maxCacheSize \in Nat
  BY <1>2 DEF LD!ModeType
<1>4. Len(dict) \in Nat
  BY <1>1, LenProperties DEF LD!TypeOK
<1> QED BY <1>1, <1>3, <1>4 DEF LD!TypeOK

\* The order of the dictionary does not matter to what is stored ...
LEMMA StoreAside ==
    ASSUME StoreOK, UNCHANGED <<disk, putting, file, cacheSize, diskPuts>>,
           LD!IsInjective(dict'), Len(dict') = Len(dict), \A k : LD!InDict(k)' <=> LD!InDict(k)
    PROVE  StoreOK'
<1>1. OnItsWay' = OnItsWay /\ (LD!OneWriter' <=> LD!OneWriter)
      /\ \A S : LD!PutPhase(S)' = LD!PutPhase(S)
  BY DEF OnItsWay, LD!PutPhase, LD!OneWriter
<1>2. SizeCovers'
  BY <1>1 DEF StoreOK, SizeCovers
<1>3. FilesCounted'
  BY DEF StoreOK, FilesCounted
<1>4. PutsApart'
  BY <1>1 DEF StoreOK, PutsApart
<1>5. LD!FileBacked'
  BY <1>1 DEF StoreOK, LD!FileBacked
<1> QED BY <1>2, <1>3, <1>4, <1>5 DEF StoreOK

\* ... and that keys are added to it does not matter to the pins.
LEMMA PinsAside ==
    ASSUME PinsOK, UNCHANGED <<disk, pinCount, getting, prefetch>>,
           \A k \in DiskKeys : LD!InDict(k) => LD!InDict(k)'
    PROVE  PinsOK'
<1>1. \A k : LoadPins(k)' = LoadPins(k) /\ Uses(k)' = Uses(k)
  BY DEF GetPins, FoundPins, LoadPins, Uses
<1>2. LD!OneWriter' <=> LD!OneWriter
  BY DEF LD!OneWriter
<1> QED BY <1>1, <1>2 DEF PinsOK, PinsFinite, PinsHeld

\* Nothing is stored, in use or pinned at first.
LEMMA InitIInv == LD!Init => IInv
<1> SUFFICES ASSUME LD!Init PROVE IInv
  OBVIOUS
<1> USE DEF LD!Init
<1>1. disk \in LD!ModeType
  BY DiskAssumption
<1>2. disk.maxCacheSize \in Nat
  BY <1>1 DEF LD!ModeType
<1>3. LD!TypeOK
  <2>1. dict \in Seq(DiskKeys) /\ cacheSize \in 0..disk.maxCacheSize
    BY <1>2
  <2>2. /\ pinCount \in [DiskKeys -> Int] /\ diskPuts \in [DiskKeys -> Nat]
        /\ file \in [DiskKeys -> {"absent", "partial", "whole"}]
    OBVIOUS
  <2>3. leaked \in Nat /\ lock \in {"free", "lost"} \cup Prefetches /\ badRead \in BOOLEAN /\ disk \in Disks
    OBVIOUS
  <2> QED BY ONLY <2>1, <2>2, <2>3 DEF LD!TypeOK
<1>4. PutsOK /\ GetsOK
  BY DEF PutsOK, GetsOK, LD!IdlePut, LD!IdleGet, PutPCs, GetPCs
<1>5. PrefetchesOK
  BY DEF PrefetchesOK, PrefetchOK, LD!IdlePrefetch, PrefetchPCs
<1>6. OnItsWay = {} /\ \A k : ~LD!InDict(k)
  BY DEF OnItsWay, LD!PutPhase, LD!IdlePut, LD!InDict, LD!Range
<1>7. Len(dict) = 0 /\ Cardinality(OnItsWay) = 0 /\ LD!IsInjective(dict)
  BY <1>6, FS_EmptySet DEF LD!IsInjective
<1>8. SizeCovers
  BY <1>7 DEF SizeCovers
<1>9. FilesCounted /\ LD!FileBacked
  BY <1>6 DEF FilesCounted, LD!FileBacked
<1>10. PutsApart
  BY DEF PutsApart, LD!PutPhase, LD!IdlePut
<1>11. \A k : GetPins(k) = {} /\ FoundPins(k) = {} /\ LoadPins(k) = {}
  BY DEF GetPins, FoundPins, LoadPins, HoldsOf, LD!IdleGet, LD!IdlePrefetch, LD!Range
<1>12. Cardinality({}) = 0 /\ IsFiniteSet({})
  BY ONLY FS_EmptySet
<1>13. \A k : Uses(k) = 0 /\ IsFiniteSet(LoadPins(k))
  BY ONLY <1>11, <1>12 DEF Uses
<1>14. PinsOK
  BY <1>13 DEF PinsOK, PinsFinite, PinsHeld
<1> QED BY <1>3, <1>4, <1>5, <1>8, <1>9, <1>10, <1>14 DEF IInv, OpsOK, StoreOK, LD!ReadsWhole

-----------------------------------------------------------------------------
(* submit_put_task *)

\* One put of one writer, and none that is stored already.
LEMMA CheckPutTasksIInv ==
    ASSUME IInv, NotReput, NEW p \in disk.puts, NEW k \in disk.keys, LD!CheckPutTasks(p, k)
    PROVE  IInv'
<1>0. p \in Puts /\ k \in DiskKeys /\ disk \in Disks
  BY Types
<1>1. /\ putting[p].pc = "idle"
      /\ disk.reput \/ ~LD!InDict(k)
      /\ disk.many \/ LD!PutPhase({"insert", "reserve"}) = {}
      /\ diskPuts[k] = 0
      /\ putting' = [putting EXCEPT ![p] = [pc |-> "insert", key |-> k, linked |-> FALSE]]
      /\ UNCHANGED <<disk, dict, pinCount, file, cacheSize, diskPuts, getting, prefetch, lock, leaked, badRead>>
  BY DEF LD!CheckPutTasks, LD!cacheVars
<1>2. PutsOK /\ StoreOK /\ PinsOK /\ LD!TypeOK /\ GetsOK /\ PrefetchesOK /\ LD!ReadsWhole
  BY DEF IInv, OpsOK
<1>3. putting'[p] = [pc |-> "insert", key |-> k, linked |-> FALSE]
      /\ \A q \in Puts : q # p => putting'[q] = putting[q]
  BY <1>0, <1>1, <1>2 DEF PutsOK
<1>4. PutsOK'
  BY <1>0, <1>1, <1>2, <1>3 DEF PutsOK, PutPCs
<1>5. LD!TypeOK' /\ GetsOK' /\ PrefetchesOK' /\ LD!ReadsWhole' /\ LD!FileBacked'
      /\ (LD!OneWriter' <=> LD!OneWriter) /\ \A j : LD!InDict(j)' <=> LD!InDict(j)
  BY <1>1, <1>2 DEF LD!TypeOK, GetsOK, PrefetchesOK, LD!ReadsWhole, StoreOK, LD!FileBacked, LD!OneWriter, LD!InDict
<1>6. SizeCovers'
  <2>1. p \notin OnItsWay /\ p \notin OnItsWay'
    BY <1>1, <1>3 DEF OnItsWay, LD!PutPhase
  <2>2. Cardinality(OnItsWay') = Cardinality(OnItsWay)
    BY <1>0, <1>3, <2>1, PutMoves
  <2> QED BY <1>1, <1>2, <1>5, <2>2 DEF StoreOK, SizeCovers
<1>7. FilesCounted'
  BY <1>0, <1>1, <1>2, <1>3, <1>5 DEF StoreOK, FilesCounted
<1>8. PutsApart'
  <2> SUFFICES ASSUME LD!OneWriter PROVE PutsApart'
    BY <1>5 DEF PutsApart
  <2>1. ~LD!InDict(k) /\ LD!PutPhase({"insert", "reserve"}) = {}
    BY <1>0, <1>1 DEF NotReput, LD!OneWriter
  <2>2. ASSUME NEW q \in Puts, q # p, putting[q].pc # "idle" PROVE putting[q].key # k
    <3>1. putting[q].pc # "insert"
      BY <2>1, <2>2 DEF LD!PutPhase
    <3> QED BY <1>1, <1>2, <2>2, <3>1 DEF StoreOK, PutsApart
  <2>3. \A q \in LD!PutPhase({"insert", "reserve"})' : q = p
    BY <1>3, <2>1 DEF LD!PutPhase
  <2> QED BY <1>0, <1>1, <1>2, <1>3, <1>5, <2>1, <2>2, <2>3 DEF StoreOK, PutsApart
<1>9. PinsOK'
  BY <1>1, <1>2, <1>5, PinsAside
<1> QED BY <1>4, <1>5, <1>6, <1>7, <1>8, <1>9 DEF IInv, OpsOK, StoreOK

\* put_tasks remembers the key until the put is over.
LEMMA InsertPutTaskIInv ==
    ASSUME IInv, NEW p \in disk.puts, LD!InsertPutTask(p)
    PROVE  IInv'
<1>0. p \in Puts
  BY Types
<1>1. /\ putting[p].pc = "insert"
      /\ diskPuts' = [diskPuts EXCEPT ![putting[p].key] = @ + 1]
      /\ putting' = [putting EXCEPT ![p].pc = "reserve"]
      /\ UNCHANGED <<disk, dict, pinCount, file, cacheSize, getting, prefetch, lock, leaked, badRead>>
  BY DEF LD!InsertPutTask
<1>2. PutsOK /\ StoreOK /\ PinsOK /\ LD!TypeOK /\ GetsOK /\ PrefetchesOK /\ LD!ReadsWhole
  BY DEF IInv, OpsOK
<1>3. /\ putting'[p].pc = "reserve" /\ putting'[p].key = putting[p].key
      /\ putting'[p].linked = putting[p].linked
      /\ \A q \in Puts : q # p => putting'[q] = putting[q]
  BY <1>0, <1>1, <1>2 DEF PutsOK
<1>4. PutsOK'
  BY <1>0, <1>1, <1>2, <1>3 DEF PutsOK, PutPCs
<1>5. putting[p].key \in DiskKeys /\ diskPuts \in [DiskKeys -> Nat]
  BY <1>0, <1>1, <1>2, Types DEF PutsOK
<1>6. /\ diskPuts' \in [DiskKeys -> Nat] /\ diskPuts'[putting[p].key] > 0
      /\ \A j \in DiskKeys : diskPuts[j] > 0 => diskPuts'[j] > 0
  BY <1>1, <1>5
<1>7. LD!TypeOK' /\ GetsOK' /\ PrefetchesOK' /\ LD!ReadsWhole' /\ LD!FileBacked'
      /\ (LD!OneWriter' <=> LD!OneWriter) /\ \A j : LD!InDict(j)' <=> LD!InDict(j)
  BY <1>1, <1>2, <1>6 DEF LD!TypeOK, GetsOK, PrefetchesOK, LD!ReadsWhole, StoreOK, LD!FileBacked, LD!OneWriter, LD!InDict
<1>8. SizeCovers'
  <2>1. p \notin OnItsWay /\ p \notin OnItsWay'
    BY <1>1, <1>3 DEF OnItsWay, LD!PutPhase
  <2>2. Cardinality(OnItsWay') = Cardinality(OnItsWay)
    BY <1>0, <1>3, <2>1, PutMoves
  <2> QED BY <1>1, <1>2, <1>7, <2>2 DEF StoreOK, SizeCovers
<1>9. FilesCounted'
  BY <1>0, <1>1, <1>2, <1>3, <1>7 DEF StoreOK, FilesCounted
<1>10. PutsApart'
  <2> SUFFICES ASSUME LD!OneWriter PROVE PutsApart'
    BY <1>7 DEF PutsApart
  <2>1. \A q \in LD!PutPhase({"insert", "reserve"})' : q \in LD!PutPhase({"insert", "reserve"})
    BY <1>1, <1>3 DEF LD!PutPhase
  <2>2. \A q \in Puts : putting'[q].pc # "idle" => putting'[q].key \in DiskKeys
    BY <1>4 DEF PutsOK
  <2> QED BY <1>0, <1>1, <1>2, <1>3, <1>6, <1>7, <2>1, <2>2 DEF StoreOK, PutsApart
<1>11. PinsOK'
  BY <1>1, <1>2, <1>7, PinsAside
<1> QED BY <1>4, <1>7, <1>8, <1>9, <1>10, <1>11 DEF IInv, OpsOK, StoreOK

\* The reservation: the chunk is counted from here on.
LEMMA ReserveIInv ==
    ASSUME IInv, NEW p \in disk.puts, LD!Reserve(p)
    PROVE  IInv'
<1>0. p \in Puts
  BY Types
<1>1. /\ putting[p].pc = "reserve" /\ ~LD!Full
      /\ cacheSize' = cacheSize + 1
      /\ putting' = [putting EXCEPT ![p].pc = "queued"]
      /\ UNCHANGED <<disk, dict, pinCount, file, diskPuts, getting, prefetch, lock, leaked, badRead>>
  BY DEF LD!Reserve
<1>2. PutsOK /\ StoreOK /\ PinsOK /\ LD!TypeOK /\ GetsOK /\ PrefetchesOK /\ LD!ReadsWhole
  BY DEF IInv, OpsOK
<1>3. /\ putting'[p].pc = "queued" /\ putting'[p].key = putting[p].key
      /\ putting'[p].linked = putting[p].linked
      /\ \A q \in Puts : q # p => putting'[q] = putting[q]
  BY <1>0, <1>1, <1>2 DEF PutsOK
<1>4. PutsOK'
  BY <1>0, <1>1, <1>2, <1>3 DEF PutsOK, PutPCs
<1>5. cacheSize' \in 0..disk'.maxCacheSize /\ cacheSize \in Nat /\ Len(dict) \in Nat
  BY <1>1, Types DEF LD!Full
<1>7. LD!TypeOK' /\ GetsOK' /\ PrefetchesOK' /\ LD!ReadsWhole' /\ LD!FileBacked'
      /\ (LD!OneWriter' <=> LD!OneWriter) /\ \A j : LD!InDict(j)' <=> LD!InDict(j)
  BY <1>1, <1>2, <1>5 DEF LD!TypeOK, GetsOK, PrefetchesOK, LD!ReadsWhole, StoreOK, LD!FileBacked, LD!OneWriter, LD!InDict
<1>8. SizeCovers'
  <2>1. p \notin OnItsWay /\ p \in OnItsWay'
    BY <1>0, <1>1, <1>3 DEF OnItsWay, LD!PutPhase
  <2>2. Cardinality(OnItsWay') = Cardinality(OnItsWay) + 1 /\ Cardinality(OnItsWay) \in Nat
    BY <1>0, <1>3, <2>1, PutMoves
  <2> QED BY <1>1, <1>2, <1>5, <1>7, <2>2 DEF StoreOK, SizeCovers
<1>9. FilesCounted'
  BY <1>0, <1>1, <1>2, <1>3, <1>7 DEF StoreOK, FilesCounted
<1>10. PutsApart'
  <2> SUFFICES ASSUME LD!OneWriter PROVE PutsApart'
    BY <1>7 DEF PutsApart
  <2>1. \A q \in LD!PutPhase({"insert", "reserve"})' : q \in LD!PutPhase({"insert", "reserve"})
    BY <1>1, <1>3 DEF LD!PutPhase
  <2> QED BY <1>0, <1>1, <1>2, <1>3, <1>7, <2>1 DEF StoreOK, PutsApart
<1>11. PinsOK'
  BY <1>1, <1>2, <1>7, PinsAside
<1> QED BY <1>4, <1>7, <1>8, <1>9, <1>10, <1>11 DEF IInv, OpsOK, StoreOK

\* "No eviction candidates found".
LEMMA NoCandidatesIInv ==
    ASSUME IInv, NEW p \in disk.puts, LD!NoCandidates(p)
    PROVE  IInv'
<1>0. p \in Puts
  BY Types
<1>1. /\ putting[p].pc = "reserve"
      /\ putting' = [putting EXCEPT ![p] = LD!IdlePut]
      /\ UNCHANGED <<disk, dict, pinCount, file, cacheSize, diskPuts, getting, prefetch, lock, leaked, badRead>>
  BY DEF LD!NoCandidates, LD!cacheVars
<1>2. PutsOK /\ StoreOK /\ PinsOK /\ LD!TypeOK /\ GetsOK /\ PrefetchesOK /\ LD!ReadsWhole
  BY DEF IInv, OpsOK
<1>3. putting'[p] = LD!IdlePut /\ \A q \in Puts : q # p => putting'[q] = putting[q]
  BY <1>0, <1>1, <1>2 DEF PutsOK
<1>4. PutsOK'
  BY <1>0, <1>1, <1>2, <1>3 DEF PutsOK, PutPCs, LD!IdlePut
<1>7. LD!TypeOK' /\ GetsOK' /\ PrefetchesOK' /\ LD!ReadsWhole' /\ LD!FileBacked'
      /\ (LD!OneWriter' <=> LD!OneWriter) /\ \A j : LD!InDict(j)' <=> LD!InDict(j)
  BY <1>1, <1>2 DEF LD!TypeOK, GetsOK, PrefetchesOK, LD!ReadsWhole, StoreOK, LD!FileBacked, LD!OneWriter, LD!InDict
<1>8. SizeCovers'
  <2>1. p \notin OnItsWay /\ p \notin OnItsWay'
    BY <1>1, <1>3 DEF OnItsWay, LD!PutPhase, LD!IdlePut
  <2>2. Cardinality(OnItsWay') = Cardinality(OnItsWay)
    BY <1>0, <1>3, <2>1, PutMoves
  <2> QED BY <1>1, <1>2, <1>7, <2>2 DEF StoreOK, SizeCovers
<1>9. FilesCounted'
  BY <1>0, <1>1, <1>2, <1>3, <1>7 DEF StoreOK, FilesCounted
<1>10. PutsApart'
  <2> SUFFICES ASSUME LD!OneWriter PROVE PutsApart'
    BY <1>7 DEF PutsApart
  <2>1. \A q \in LD!PutPhase({"insert", "reserve"})' : q \in LD!PutPhase({"insert", "reserve"})
    BY <1>1, <1>3 DEF LD!PutPhase, LD!IdlePut
  <2>2. putting'[p].pc = "idle"
    BY <1>3 DEF LD!IdlePut
  <2> QED BY <1>0, <1>1, <1>2, <1>3, <1>7, <2>1, <2>2 DEF StoreOK, PutsApart
<1>11. PinsOK'
  BY <1>1, <1>2, <1>7, PinsAside
<1> QED BY <1>4, <1>7, <1>8, <1>9, <1>10, <1>11 DEF IInv, OpsOK, StoreOK

\* remove: the open files of k are no longer linked.
LEMMA UnlinkedIs ==
    ASSUME PutsOK, NEW k
    PROVE  \A p \in Puts : /\ LD!Unlinked(putting, k)[p].pc = putting[p].pc
                           /\ LD!Unlinked(putting, k)[p].key = putting[p].key
                           /\ LD!Unlinked(putting, k)[p].linked
                               = (putting[p].linked /\ putting[p].key # k)
                          /\ LD!Unlinked(putting, k)[p]
                               \in [pc: PutPCs, key: DiskKeys \cup {LD!NoKey}, linked: BOOLEAN]
<1> SUFFICES ASSUME NEW p \in Puts
             PROVE  /\ LD!Unlinked(putting, k)[p].pc = putting[p].pc
                    /\ LD!Unlinked(putting, k)[p].key = putting[p].key
                    /\ LD!Unlinked(putting, k)[p].linked = (putting[p].linked /\ putting[p].key # k)
                    /\ LD!Unlinked(putting, k)[p]
                         \in [pc: PutPCs, key: DiskKeys \cup {LD!NoKey}, linked: BOOLEAN]
  OBVIOUS
<1>1. putting[p] \in [pc: PutPCs, key: DiskKeys \cup {LD!NoKey}, linked: BOOLEAN]
  BY DEF PutsOK
<1>2. CASE putting[p].key = k
  <2>1. LD!Unlinked(putting, k)[p] = [putting[p] EXCEPT !.linked = FALSE]
    BY <1>2 DEF LD!Unlinked
  <2> QED BY <1>1, <1>2, <2>1
<1>3. CASE putting[p].key # k
  <2>1. LD!Unlinked(putting, k)[p] = putting[p]
    BY <1>3 DEF LD!Unlinked
  <2> QED BY <1>1, <1>3, <2>1
<1> QED BY <1>2, <1>3

\* The key that is evicted is one of the dictionary that nobody has pinned.
LEMMA Candidate ==
    ASSUME IInv, LD!Candidates # {}, NEW k, k = dict[LD!Min(LD!Candidates)]
    PROVE  k \in DiskKeys /\ LD!InDict(k) /\ pinCount[k] <= 0
<1>1. dict \in Seq(DiskKeys) /\ Len(dict) \in Nat
  BY Types
<1>2. LD!Candidates \in SUBSET Nat
  BY <1>1 DEF LD!Candidates
<1>3. PICK i \in LD!Candidates : \A j \in LD!Candidates : i <= j
  BY <1>2, LeastNat
<1>4. LD!Min(LD!Candidates) \in LD!Candidates
  BY <1>3 DEF LD!Min
<1>5. k \in DiskKeys /\ pinCount[k] <= 0
  BY <1>1, <1>4, ElementOfSeq DEF LD!Candidates, LD!CanEvict
<1>6. LD!Min(LD!Candidates) \in DOMAIN dict
  BY <1>1, <1>4, LenProperties DEF LD!Candidates
<1>7. LD!InDict(k)
  BY <1>6 DEF LD!InDict, LD!Range
<1> QED BY <1>5, <1>7

\* An eviction takes nothing that is in use: had k uses, it would be pinned.
LEMMA PinsEvict ==
    ASSUME PinsOK, UNCHANGED <<disk, getting, prefetch>>, NEW k \in DiskKeys, pinCount[k] <= 0,
           pinCount \in [DiskKeys -> Int], pinCount' = [pinCount EXCEPT ![k] = 0],
           \A j : LD!InDict(j)' <=> LD!InDict(j) /\ j # k
    PROVE  PinsOK'
<1>1. \A j : LoadPins(j)' = LoadPins(j) /\ Uses(j)' = Uses(j)
  BY DEF GetPins, FoundPins, LoadPins, Uses
<1>2. LD!OneWriter' <=> LD!OneWriter
  BY DEF LD!OneWriter
<1>3. PinsFinite' /\ PinsFinite
  BY <1>1 DEF PinsOK, PinsFinite
<1>4. PinsHeld'
  <2> SUFFICES ASSUME LD!OneWriter, NEW j \in DiskKeys
               PROVE  /\ pinCount'[j] >= Uses(j)
                      /\ disk.prefetches = {} => pinCount'[j] = Uses(j)
                      /\ Uses(j) > 0 => LD!InDict(j)'
    BY <1>1, <1>2 DEF PinsHeld
  <2>1. /\ pinCount[j] >= Uses(j)
        /\ disk.prefetches = {} => pinCount[j] = Uses(j)
        /\ Uses(j) > 0 => LD!InDict(j)
    BY DEF PinsOK, PinsHeld
  <2>2. Uses(j) \in Nat /\ pinCount[j] \in Int
    BY <1>3, UsesIs
  <2>3. j = k => Uses(j) = 0 /\ pinCount'[j] = 0
    BY <2>1, <2>2
  <2>4. j # k => pinCount'[j] = pinCount[j]
    OBVIOUS
  <2> QED BY <2>1, <2>3, <2>4
<1> QED BY <1>3, <1>4 DEF PinsOK

\* An eviction makes room: one chunk leaves and one is on its way, unless the file
\* that it unlinks is not there.
LEMMA EvictAndReserveIInv ==
    ASSUME IInv, NEW p \in disk.puts, LD!EvictAndReserve(p)
    PROVE  IInv'
<1>18. PICK k : k = dict[LD!Min(LD!Candidates)]
  OBVIOUS
<1>0. p \in Puts
  BY Types
<1>1. /\ putting[p].pc = "reserve" /\ LD!Candidates # {}
      /\ dict' = LD!Without(dict, k) /\ pinCount' = [pinCount EXCEPT ![k] = 0]
      /\ file' = [file EXCEPT ![k] = "absent"]
      /\ IF file[k] = "absent"
         THEN /\ cacheSize' = cacheSize - 1
              /\ putting' = [putting EXCEPT ![p] = LD!IdlePut]
              /\ leaked' = leaked + 1
         ELSE /\ putting' = [LD!Unlinked(putting, k) EXCEPT ![p].pc = "queued"]
              /\ UNCHANGED <<cacheSize, leaked>>
      /\ UNCHANGED <<disk, diskPuts, getting, prefetch, lock, badRead>>
  BY <1>18 DEF LD!EvictAndReserve, LD!RemoveKey
<1>2. PutsOK /\ StoreOK /\ PinsOK /\ LD!TypeOK /\ GetsOK /\ PrefetchesOK /\ LD!ReadsWhole
  BY DEF IInv, OpsOK
<1>3. k \in DiskKeys /\ LD!InDict(k) /\ pinCount[k] <= 0
  BY <1>1, <1>18, Candidate
<1>4. /\ dict' \in Seq(DiskKeys) /\ LD!IsInjective(dict') /\ Len(dict) \in Nat /\ Len(dict) > 0
      /\ \A j : LD!InDict(j)' <=> LD!InDict(j) /\ j # k
      /\ Len(dict') = Len(dict) - 1
  BY <1>1, <1>2, <1>3, Types, DictPop DEF StoreOK, SizeCovers
<1>5. /\ pinCount \in [DiskKeys -> Int] /\ file \in [DiskKeys -> {"absent", "partial", "whole"}]
      /\ cacheSize \in 0..disk.maxCacheSize /\ leaked \in Nat /\ disk.maxCacheSize \in Nat
  BY Types
<1>6. LD!OneWriter' <=> LD!OneWriter
  BY <1>1 DEF LD!OneWriter
<1>7. LD!OneWriter => file[k] = "whole"
  BY <1>2, <1>3 DEF StoreOK, LD!FileBacked
<1>15. putting[p].pc = "reserve" /\ UNCHANGED <<disk, diskPuts, getting, prefetch, lock, badRead>>
  BY ONLY <1>1
<1>16. \A j \in DiskKeys : file'[j] = IF j = k THEN "absent" ELSE file[j]
  BY <1>1, <1>5
<1>8. /\ \A q \in Puts : q # p => /\ putting'[q].pc = putting[q].pc
                                  /\ putting'[q].key = putting[q].key
                                  /\ (putting[q].linked /\ putting[q].key # k => putting'[q].linked)
      /\ putting'[p].pc = (IF file[k] = "absent" THEN "idle" ELSE "queued")
      /\ file[k] # "absent" => putting'[p].key = putting[p].key
      /\ PutsOK'
  <2>1. CASE file[k] = "absent"
    <3>1. putting' = [putting EXCEPT ![p] = LD!IdlePut]
      BY <1>1, <2>1
    <3>2. putting'[p] = LD!IdlePut /\ \A q \in Puts : q # p => putting'[q] = putting[q]
      BY <1>0, <1>2, <3>1 DEF PutsOK
    <3>3. putting' \in [Puts -> [pc: PutPCs, key: DiskKeys \cup {LD!NoKey}, linked: BOOLEAN]]
      BY <1>0, <1>2, <3>1 DEF PutsOK, LD!IdlePut, PutPCs
    <3>4. PutsOK' /\ putting'[p].pc = "idle"
      BY <1>0, <1>2, <3>2, <3>3 DEF PutsOK, LD!IdlePut
    <3> QED BY <2>1, <3>2, <3>4
  <2>2. CASE file[k] # "absent"
    <3> DEFINE u == LD!Unlinked(putting, k)
    <3>0. putting' = [u EXCEPT ![p].pc = "queued"]
      BY ONLY <1>1, <2>2
    <3>1. \A q \in Puts : /\ u[q].pc = putting[q].pc /\ u[q].key = putting[q].key
                          /\ u[q].linked = (putting[q].linked /\ putting[q].key # k)
                          /\ u[q] \in [pc: PutPCs, key: DiskKeys \cup {LD!NoKey}, linked: BOOLEAN]
      BY <1>2, UnlinkedIs
    <3>2. u = [q \in Puts |-> u[q]]
      BY DEF LD!Unlinked
    <3> HIDE DEF u
    <3>3. /\ putting'[p] = [u[p] EXCEPT !.pc = "queued"]
          /\ \A q \in Puts : q # p => putting'[q] = u[q]
          /\ putting' = [q \in Puts |-> putting'[q]]
      BY ONLY <1>0, <3>0, <3>2
    <3>4. /\ putting'[p].pc = "queued" /\ putting'[p].key = putting[p].key
          /\ putting'[p] \in [pc: PutPCs, key: DiskKeys \cup {LD!NoKey}, linked: BOOLEAN]
      BY ONLY <1>0, <3>1, <3>3 DEF PutPCs
    <3>5. putting' \in [Puts -> [pc: PutPCs, key: DiskKeys \cup {LD!NoKey}, linked: BOOLEAN]]
      BY ONLY <3>1, <3>3, <3>4
    <3>6. \A q \in Puts : putting'[q].pc # "idle" => putting'[q].key \in DiskKeys
      BY <1>0, <1>15, <1>2, <3>1, <3>3, <3>4 DEF PutsOK
    <3> QED BY <2>2, <3>1, <3>3, <3>4, <3>5, <3>6 DEF PutsOK
  <2> QED BY <2>1, <2>2
<1>9. SizeCovers' /\ cacheSize' \in 0..disk'.maxCacheSize /\ leaked' \in Nat
  <2>1. p \notin OnItsWay /\ (p \in OnItsWay' <=> file[k] # "absent")
    BY <1>0, <1>15, <1>8 DEF OnItsWay, LD!PutPhase
  <2>2. \A q \in Puts : q # p => putting'[q].pc = putting[q].pc
    BY <1>8
  <2>3. /\ Cardinality(OnItsWay') = Cardinality(OnItsWay) + (IF file[k] = "absent" THEN 0 ELSE 1)
        /\ Cardinality(OnItsWay) \in Nat
    <3>1. /\ Cardinality(OnItsWay) \in Nat /\ Cardinality(OnItsWay') \in Nat
          /\ Cardinality(OnItsWay') = Cardinality(OnItsWay)
                + (IF p \in OnItsWay' THEN 1 ELSE 0) - (IF p \in OnItsWay THEN 1 ELSE 0)
      BY ONLY <1>0, <2>2, DiskAssumption, PutMoves
    <3> QED BY ONLY <2>1, <3>1
  <2>4. /\ cacheSize >= Len(dict) + Cardinality(OnItsWay)
        /\ LD!OneWriter => cacheSize = Len(dict) + Cardinality(OnItsWay)
    BY <1>2 DEF StoreOK, SizeCovers
  <2>5. /\ cacheSize' = cacheSize - (IF file[k] = "absent" THEN 1 ELSE 0)
        /\ leaked' = leaked + (IF file[k] = "absent" THEN 1 ELSE 0) /\ disk' = disk
    BY <1>1, <1>5
  <2>6. cacheSize' \in 0..disk'.maxCacheSize /\ leaked' \in Nat
    BY <1>4, <1>5, <2>3, <2>4, <2>5
  <2>7. /\ cacheSize' >= Len(dict') + Cardinality(OnItsWay')
        /\ LD!OneWriter => cacheSize' = Len(dict') + Cardinality(OnItsWay')
    <3>1. Len(dict) \in Nat /\ Len(dict') = Len(dict) - 1 /\ cacheSize \in Int
      BY <1>4, <1>5
    <3>2. CASE file[k] = "absent"
      <4>1. cacheSize' = cacheSize - 1 /\ Cardinality(OnItsWay') = Cardinality(OnItsWay)
        BY <2>3, <2>5, <3>1, <3>2
      <4> QED BY ONLY <2>3, <2>4, <3>1, <4>1
    <3>3. CASE file[k] # "absent"
      <4>1. cacheSize' = cacheSize /\ Cardinality(OnItsWay') = Cardinality(OnItsWay) + 1
        BY <2>3, <2>5, <3>1, <3>3
      <4> QED BY ONLY <2>3, <2>4, <3>1, <4>1
    <3> QED BY <3>2, <3>3
  <2> QED BY <1>4, <1>6, <2>6, <2>7 DEF SizeCovers
<1>10. LD!TypeOK'
  <2>1. pinCount' \in [DiskKeys -> Int]
    <3>1. pinCount' = [pinCount EXCEPT ![k] = 0]
      BY ONLY <1>1
    <3>2. pinCount \in [DiskKeys -> Int] /\ k \in DiskKeys
      BY <1>3, <1>5
    <3> QED BY ONLY <3>1, <3>2
  <2>2. file' \in [DiskKeys -> {"absent", "partial", "whole"}]
    <3>1. file' = [file EXCEPT ![k] = "absent"]
      BY ONLY <1>1
    <3> QED BY ONLY <1>5, <3>1
  <2> QED BY <1>15, <1>2, <1>4, <1>9, <2>1, <2>2 DEF LD!TypeOK
<1>11. GetsOK' /\ PrefetchesOK' /\ LD!ReadsWhole'
  BY <1>15, <1>2, <1>6 DEF GetsOK, PrefetchesOK, LD!ReadsWhole
<1>12. LD!FileBacked'
  BY <1>2, <1>4, <1>6, <1>16 DEF StoreOK, LD!FileBacked
<1>13. FilesCounted'
  <2> SUFFICES ASSUME NEW j \in DiskKeys, file'[j] # "absent"
               PROVE  \/ LD!InDict(j)'
                      \/ \E q \in Puts : putting'[q].pc \in {"write", "insert_key"} /\ putting'[q].key = j
    BY DEF FilesCounted
  <2>1. j # k /\ file[j] # "absent"
    BY <1>16
  <2>2. CASE LD!InDict(j)
    BY <1>4, <2>1, <2>2
  <2>3. CASE \E q \in Puts : putting[q].pc \in {"write", "insert_key"} /\ putting[q].key = j
    <3>1. PICK q \in Puts : putting[q].pc \in {"write", "insert_key"} /\ putting[q].key = j
      BY <2>3
    <3>2. q # p
      BY <1>15, <3>1
    <3> QED BY <1>8, <3>1, <3>2
  <2> QED BY <1>2, <2>1, <2>2, <2>3 DEF StoreOK, FilesCounted
<1>14. PutsApart'
  <2> SUFFICES ASSUME LD!OneWriter PROVE PutsApart'
    BY <1>6 DEF PutsApart
  <2>1. putting'[p].pc = "queued" /\ putting'[p].key = putting[p].key
    BY <1>7, <1>8
  <2>2. \A q \in Puts : putting'[q].key = putting[q].key
    BY <1>8, <2>1
  <2>3. \A q \in Puts : \/ q = p /\ putting[q].pc = "reserve" /\ putting'[q].pc = "queued"
                        \/ q # p /\ putting'[q].pc = putting[q].pc
    BY <1>15, <1>8, <2>1
  <2>4. \A q \in LD!PutPhase({"insert", "reserve"})' : q \in LD!PutPhase({"insert", "reserve"})
    BY <2>3 DEF LD!PutPhase
  <2>5. \A q \in Puts : putting[q].pc \in {"write", "insert_key"} => putting[q].key # k /\ putting[q].key \in DiskKeys
    BY <1>2, <1>3 DEF StoreOK, PutsApart, PutsOK
  <2>6. \A q \in Puts : putting'[q].pc \in {"write", "insert_key"} => putting'[q].pc = putting[q].pc /\ q # p
    BY <2>3
  <2>7. \A q \in Puts : /\ putting'[q].pc = "write" => putting'[q].linked
                        /\ putting'[q].pc = "insert_key" => file'[putting'[q].key] = "whole"
    BY <1>2, <1>8, <1>16, <2>2, <2>5, <2>6 DEF StoreOK, PutsApart
  <2>8. \A q \in Puts : putting'[q].pc \notin {"idle", "finish"} => ~LD!InDict(putting[q].key)'
    <3>1. \A q \in Puts : LD!InDict(putting[q].key)' => LD!InDict(putting'[q].key)
      BY <1>4 DEF LD!InDict
    <3> QED BY <1>2, <2>2, <2>3, <3>1 DEF StoreOK, PutsApart
  <2>9. \A q \in Puts : putting'[q].pc \notin {"idle", "insert"} => diskPuts'[putting'[q].key] > 0
    BY <1>15, <1>2, <2>2, <2>3 DEF StoreOK, PutsApart
  <2>10. \A q, r \in Puts : putting'[q].pc # "idle" /\ putting'[r].pc # "idle"
                               /\ putting'[q].key = putting'[r].key => q = r
    BY <1>2, <2>2, <2>3 DEF StoreOK, PutsApart
  <2>11. \A q, r \in LD!PutPhase({"insert", "reserve"})' : q = r
    BY <1>2, <2>4 DEF StoreOK, PutsApart
  <2> QED BY <2>7, <2>8, <2>9, <2>10, <2>11 DEF PutsApart
<1>17. PinsOK'
  <2>1. pinCount' = [pinCount EXCEPT ![k] = 0] /\ UNCHANGED <<disk, getting, prefetch>>
    BY ONLY <1>1
  <2> QED BY <1>2, <1>3, <1>4, <1>5, <2>1, PinsEvict
<1> QED BY <1>8, <1>9, <1>10, <1>11, <1>12, <1>13, <1>14, <1>17 DEF IInv, OpsOK, StoreOK

\* A file that is opened is that of a put on its way.
LEMMA OpenFileIInv ==
    ASSUME IInv, NEW p \in disk.puts, LD!OpenFile(p)
    PROVE  IInv'
<1>0. p \in Puts
  BY Types
<1>1. /\ putting[p].pc = "queued"
      /\ file' = [file EXCEPT ![putting[p].key] = "partial"]
      /\ putting' = [putting EXCEPT ![p].pc = "write", ![p].linked = TRUE]
      /\ UNCHANGED <<disk, dict, pinCount, cacheSize, diskPuts, getting, prefetch, lock, leaked, badRead>>
  BY DEF LD!OpenFile
<1>2. PutsOK /\ StoreOK /\ PinsOK /\ LD!TypeOK /\ GetsOK /\ PrefetchesOK /\ LD!ReadsWhole
  BY DEF IInv, OpsOK
<1>3. /\ putting'[p].pc = "write" /\ putting'[p].key = putting[p].key /\ putting'[p].linked
      /\ \A q \in Puts : q # p => putting'[q] = putting[q]
  BY <1>0, <1>1, <1>2 DEF PutsOK
<1>4. PutsOK'
  BY <1>0, <1>1, <1>2, <1>3 DEF PutsOK, PutPCs
<1>5. putting[p].key \in DiskKeys /\ file \in [DiskKeys -> {"absent", "partial", "whole"}]
  BY <1>0, <1>1, <1>2, Types DEF PutsOK
<1>6. /\ file' \in [DiskKeys -> {"absent", "partial", "whole"}]
      /\ \A j \in DiskKeys : j # putting[p].key => file'[j] = file[j]
  BY <1>1, <1>5
<1>7. LD!TypeOK' /\ GetsOK' /\ PrefetchesOK' /\ LD!ReadsWhole'
      /\ (LD!OneWriter' <=> LD!OneWriter) /\ \A j : LD!InDict(j)' <=> LD!InDict(j)
  BY <1>1, <1>2, <1>6 DEF LD!TypeOK, GetsOK, PrefetchesOK, LD!ReadsWhole, LD!OneWriter, LD!InDict
<1>8. LD!OneWriter => ~LD!InDict(putting[p].key)
  BY <1>0, <1>1, <1>2 DEF StoreOK, PutsApart
<1>9. LD!FileBacked'
  BY <1>2, <1>6, <1>7, <1>8 DEF StoreOK, LD!FileBacked
<1>10. SizeCovers'
  <2>1. p \in OnItsWay /\ p \in OnItsWay'
    BY <1>0, <1>1, <1>3 DEF OnItsWay, LD!PutPhase
  <2>2. Cardinality(OnItsWay') = Cardinality(OnItsWay)
    BY <1>0, <1>3, <2>1, PutMoves
  <2> QED BY <1>1, <1>2, <1>7, <2>2 DEF StoreOK, SizeCovers
<1>11. FilesCounted'
  <2> SUFFICES ASSUME NEW j \in DiskKeys, file'[j] # "absent"
               PROVE  \/ LD!InDict(j)
                      \/ \E q \in Puts : putting'[q].pc \in {"write", "insert_key"} /\ putting'[q].key = j
    BY <1>7 DEF FilesCounted
  <2>1. CASE j = putting[p].key
    BY <1>0, <1>3, <2>1
  <2>2. CASE j # putting[p].key
    <3>1. \/ LD!InDict(j)
          \/ \E q \in Puts : putting[q].pc \in {"write", "insert_key"} /\ putting[q].key = j
      BY <1>2, <1>6, <2>2 DEF StoreOK, FilesCounted
    <3> QED BY <1>3, <2>2, <3>1
  <2> QED BY <2>1, <2>2
<1>12. PutsApart'
  <2> SUFFICES ASSUME LD!OneWriter PROVE PutsApart'
    BY <1>7 DEF PutsApart
  <2>1. \A q \in LD!PutPhase({"insert", "reserve"})' : q \in LD!PutPhase({"insert", "reserve"})
    BY <1>1, <1>3 DEF LD!PutPhase
  <2>2. \A q \in Puts : q # p /\ putting[q].pc # "idle" =>
           putting[q].key # putting[p].key /\ putting[q].key \in DiskKeys
    BY <1>0, <1>1, <1>2 DEF StoreOK, PutsApart, PutsOK
  <2>3. /\ UNCHANGED diskPuts /\ putting[p].pc = "queued"
        /\ \A q \in Puts : putting'[q].key = putting[q].key
    BY <1>1, <1>3
  <2>4. \A q \in Puts : putting'[q].pc = "insert_key" => file'[putting'[q].key] = "whole"
    BY <1>2, <1>3, <1>6, <2>2, <2>3 DEF StoreOK, PutsApart
  <2>5. \A q \in Puts : putting'[q].pc \notin {"idle", "finish"} => ~LD!InDict(putting[q].key)'
    BY <1>2, <1>3, <1>7, <2>3 DEF StoreOK, PutsApart, LD!InDict
  <2>6. \A q \in Puts : putting'[q].pc \notin {"idle", "insert"} => diskPuts'[putting'[q].key] > 0
    BY <1>2, <1>3, <2>3 DEF StoreOK, PutsApart
  <2>7. \A q, r \in Puts : putting'[q].pc # "idle" /\ putting'[r].pc # "idle"
                             /\ putting'[q].key = putting'[r].key => q = r
    BY <1>2, <1>3, <2>3 DEF StoreOK, PutsApart
  <2>8. \A q, r \in LD!PutPhase({"insert", "reserve"})' : q = r
    BY <1>2, <2>1 DEF StoreOK, PutsApart
  <2>9. \A q \in Puts : putting'[q].pc = "write" => putting'[q].linked
    BY <1>2, <1>3 DEF StoreOK, PutsApart
  <2> QED BY <2>4, <2>5, <2>6, <2>7, <2>8, <2>9 DEF PutsApart
<1>13. PinsOK'
  BY <1>1, <1>2, <1>7, PinsAside
<1> QED BY <1>4, <1>7, <1>9, <1>10, <1>11, <1>12, <1>13 DEF IInv, OpsOK, StoreOK

\* With one writer no other put writes the file, and it is still linked.
LEMMA WriteFileIInv ==
    ASSUME IInv, NEW p \in disk.puts, LD!WriteFile(p)
    PROVE  IInv'
<1>0. p \in Puts
  BY Types
<1>1. /\ putting[p].pc = "write"
      /\ file' = (IF putting[p].linked
                     /\ \A q \in LD!PutPhase({"write"}) \ {p} : putting[q].key # putting[p].key
                  THEN [file EXCEPT ![putting[p].key] = "whole"] ELSE file)
      /\ putting' = [putting EXCEPT ![p].pc = "insert_key"]
      /\ UNCHANGED <<disk, dict, pinCount, cacheSize, diskPuts, getting, prefetch, lock, leaked, badRead>>
  BY DEF LD!WriteFile
<1>2. PutsOK /\ StoreOK /\ PinsOK /\ LD!TypeOK /\ GetsOK /\ PrefetchesOK /\ LD!ReadsWhole
  BY DEF IInv, OpsOK
<1>3. /\ putting'[p].pc = "insert_key" /\ putting'[p].key = putting[p].key
      /\ putting'[p].linked = putting[p].linked
      /\ \A q \in Puts : q # p => putting'[q] = putting[q]
  BY <1>0, <1>1, <1>2 DEF PutsOK
<1>4. PutsOK'
  BY <1>0, <1>1, <1>2, <1>3 DEF PutsOK, PutPCs
<1>5. putting[p].key \in DiskKeys /\ file \in [DiskKeys -> {"absent", "partial", "whole"}]
  BY <1>0, <1>1, <1>2, Types DEF PutsOK
<1>6. /\ file' \in [DiskKeys -> {"absent", "partial", "whole"}]
      /\ \A j \in DiskKeys : j # putting[p].key => file'[j] = file[j]
  BY <1>1, <1>5
<1>7. LD!TypeOK' /\ GetsOK' /\ PrefetchesOK' /\ LD!ReadsWhole'
      /\ (LD!OneWriter' <=> LD!OneWriter) /\ \A j : LD!InDict(j)' <=> LD!InDict(j)
  BY <1>1, <1>2, <1>6 DEF LD!TypeOK, GetsOK, PrefetchesOK, LD!ReadsWhole, LD!OneWriter, LD!InDict
<1>8. LD!OneWriter => ~LD!InDict(putting[p].key)
  BY <1>0, <1>1, <1>2 DEF StoreOK, PutsApart
<1>9. LD!FileBacked'
  BY <1>2, <1>6, <1>7, <1>8 DEF StoreOK, LD!FileBacked
<1>10. SizeCovers'
  <2>1. p \in OnItsWay /\ p \in OnItsWay'
    BY <1>0, <1>1, <1>3 DEF OnItsWay, LD!PutPhase
  <2>2. Cardinality(OnItsWay') = Cardinality(OnItsWay)
    BY <1>0, <1>3, <2>1, PutMoves
  <2> QED BY <1>1, <1>2, <1>7, <2>2 DEF StoreOK, SizeCovers
<1>11. FilesCounted'
  BY <1>0, <1>1, <1>2, <1>3, <1>6, <1>7 DEF StoreOK, FilesCounted
<1>12. PutsApart'
  <2> SUFFICES ASSUME LD!OneWriter PROVE PutsApart'
    BY <1>7 DEF PutsApart
  <2>1. \A q \in LD!PutPhase({"insert", "reserve"})' : q \in LD!PutPhase({"insert", "reserve"})
    BY <1>1, <1>3 DEF LD!PutPhase
  <2>2. \A q \in Puts : q # p /\ putting[q].pc # "idle" =>
           putting[q].key # putting[p].key /\ putting[q].key \in DiskKeys
    BY <1>0, <1>1, <1>2 DEF StoreOK, PutsApart, PutsOK
  <2>3. file'[putting[p].key] = "whole"
    <3>1. putting[p].linked
      BY <1>0, <1>1, <1>2 DEF StoreOK, PutsApart
    <3>2. \A q \in LD!PutPhase({"write"}) \ {p} : putting[q].key # putting[p].key
      BY <2>2 DEF LD!PutPhase
    <3>3. file' = [file EXCEPT ![putting[p].key] = "whole"]
      BY ONLY <1>1, <3>1, <3>2
    <3> QED BY <1>5, <3>3
  <2> QED BY <1>0, <1>1, <1>2, <1>3, <1>6, <1>7, <2>1, <2>2, <2>3 DEF StoreOK, PutsApart
<1>13. PinsOK'
  BY <1>1, <1>2, <1>7, PinsAside
<1> QED BY <1>4, <1>7, <1>9, <1>10, <1>11, <1>12, <1>13 DEF IInv, OpsOK, StoreOK

\* The chunk moves from the put to the dictionary; a key that is there already keeps
\* its pins.
LEMMA InsertKeyIInv ==
    ASSUME IInv, NEW p \in disk.puts, LD!InsertKey(p)
    PROVE  IInv'
<1>0. p \in Puts
  BY Types
<1>18. PICK k : k = putting[p].key
  OBVIOUS
<1>1. /\ putting[p].pc = "insert_key"
      /\ dict' = LD!UpdateOnHit(k)
      /\ pinCount' = (IF LD!InDict(k) THEN pinCount ELSE [pinCount EXCEPT ![k] = 0])
      /\ putting' = [putting EXCEPT ![p].pc = "finish"]
      /\ UNCHANGED <<disk, file, cacheSize, diskPuts, getting, prefetch, lock, leaked, badRead>>
  BY <1>18 DEF LD!InsertKey
<1>2. PutsOK /\ StoreOK /\ PinsOK /\ LD!TypeOK /\ GetsOK /\ PrefetchesOK /\ LD!ReadsWhole
  BY DEF IInv, OpsOK
<1>3. /\ putting'[p].pc = "finish" /\ putting'[p].key = k /\ putting[p].key = k
      /\ putting'[p].linked = putting[p].linked
      /\ \A q \in Puts : q # p => putting'[q] = putting[q]
  BY <1>0, <1>1, <1>18, <1>2 DEF PutsOK
<1>4. PutsOK'
  BY <1>0, <1>1, <1>2, <1>3 DEF PutsOK, PutPCs
<1>5. k \in DiskKeys /\ pinCount \in [DiskKeys -> Int] /\ cacheSize \in Nat
  BY <1>0, <1>1, <1>18, <1>2, Types DEF PutsOK
<1>6. /\ dict' \in Seq(DiskKeys) /\ LD!IsInjective(dict') /\ Len(dict) \in Nat
      /\ \A j : LD!InDict(j)' <=> LD!InDict(j) \/ j = k
      /\ Len(dict') = IF LD!InDict(k) THEN Len(dict) ELSE Len(dict) + 1
  BY <1>1, <1>2, <1>5, Types, DictHit DEF StoreOK, SizeCovers
<1>7. pinCount' \in [DiskKeys -> Int] /\ \A j \in DiskKeys : j # k => pinCount'[j] = pinCount[j]
  BY <1>1, <1>5
<1>8. LD!TypeOK' /\ GetsOK' /\ PrefetchesOK' /\ LD!ReadsWhole' /\ (LD!OneWriter' <=> LD!OneWriter)
  BY <1>1, <1>2, <1>6, <1>7 DEF LD!TypeOK, GetsOK, PrefetchesOK, LD!ReadsWhole, LD!OneWriter
<1>9. LD!OneWriter => ~LD!InDict(k) /\ file[k] = "whole"
  BY <1>0, <1>1, <1>2, <1>3 DEF StoreOK, PutsApart
<1>10. LD!FileBacked'
  BY <1>1, <1>2, <1>6, <1>8, <1>9 DEF StoreOK, LD!FileBacked
<1>11. SizeCovers'
  <2>1. p \in OnItsWay /\ p \notin OnItsWay'
    BY <1>0, <1>1, <1>3 DEF OnItsWay, LD!PutPhase
  <2>2. Cardinality(OnItsWay') = Cardinality(OnItsWay) - 1 /\ Cardinality(OnItsWay) \in Nat
    BY <1>0, <1>3, <2>1, PutMoves
  <2>3. /\ cacheSize >= Len(dict) + Cardinality(OnItsWay)
        /\ LD!OneWriter => cacheSize = Len(dict) + Cardinality(OnItsWay)
    BY <1>2 DEF StoreOK, SizeCovers
  <2>4. cacheSize' = cacheSize
    BY <1>1
  <2>5. PICK n, m, v, w : n = Len(dict) /\ m = Len(dict') /\ v = Cardinality(OnItsWay)
                         /\ w = Cardinality(OnItsWay')
    OBVIOUS
  <2>6. n \in Nat /\ v \in Nat /\ cacheSize \in Nat /\ w = v - 1 /\ (m = n \/ m = n + 1)
    BY <1>5, <1>6, <2>2, <2>5
  <2>7. LD!OneWriter => m = n + 1
    BY <1>6, <1>9, <2>5
  <2>8. cacheSize >= n + v /\ (LD!OneWriter => cacheSize = n + v)
    BY <2>3, <2>5
  <2>9. cacheSize >= m + w /\ (LD!OneWriter => cacheSize = m + w)
    BY ONLY <2>6, <2>7, <2>8
  <2> QED BY <1>6, <1>8, <2>4, <2>5, <2>9 DEF SizeCovers
<1>12. FilesCounted'
  <2>1. \A j \in DiskKeys : file'[j] = file[j]
    BY <1>1
  <2> QED BY <1>0, <1>2, <1>3, <1>6, <2>1 DEF StoreOK, FilesCounted
<1>13. PutsApart'
  <2> SUFFICES ASSUME LD!OneWriter PROVE PutsApart'
    BY <1>8 DEF PutsApart
  <2>1. \A q \in LD!PutPhase({"insert", "reserve"})' : q \in LD!PutPhase({"insert", "reserve"})
    BY <1>1, <1>3 DEF LD!PutPhase
  <2>2. \A q \in Puts : q # p /\ putting[q].pc # "idle" => putting[q].key # k
    BY <1>0, <1>1, <1>2, <1>3 DEF StoreOK, PutsApart
  <2>3. \A q \in Puts : putting'[q].pc \notin {"idle", "finish"} => ~LD!InDict(putting[q].key)'
    BY <1>2, <1>3, <1>6, <2>2 DEF StoreOK, PutsApart, LD!InDict
  <2>4. UNCHANGED <<file, diskPuts>> /\ putting[p].pc = "insert_key"
    BY <1>1
  <2>5. \A q \in Puts : putting'[q].key = putting[q].key
    BY <1>3
  <2> QED BY <1>0, <1>2, <1>3, <2>1, <2>2, <2>3, <2>4, <2>5 DEF StoreOK, PutsApart
<1>14. PinsOK'
  <2>1. \A j : LoadPins(j)' = LoadPins(j) /\ Uses(j)' = Uses(j)
    BY <1>1 DEF GetPins, FoundPins, LoadPins, Uses
  <2>2. PinsFinite /\ PinsFinite' /\ disk' = disk
    BY <1>1, <1>2, <2>1 DEF PinsOK, PinsFinite
  <2>3. ASSUME LD!OneWriter, NEW j \in DiskKeys
        PROVE  /\ pinCount'[j] >= Uses(j)
               /\ disk.prefetches = {} => pinCount'[j] = Uses(j)
               /\ Uses(j) > 0 => LD!InDict(j)'
    <3>1. /\ pinCount[j] >= Uses(j)
          /\ disk.prefetches = {} => pinCount[j] = Uses(j)
          /\ Uses(j) > 0 => LD!InDict(j)
      BY <1>2, <2>3 DEF PinsOK, PinsHeld
    <3>2. Uses(j) \in Nat /\ pinCount[j] \in Int
      BY <1>5, <2>2, UsesIs
    <3>3. j = k => Uses(j) = 0 /\ pinCount'[j] = 0
      <4>1. pinCount' = [pinCount EXCEPT ![k] = 0]
        BY <1>1, <1>9, <2>3
      <4> QED BY <1>5, <1>9, <2>3, <3>1, <3>2, <4>1
    <3> QED BY <1>6, <1>7, <3>1, <3>2, <3>3
  <2> QED BY <1>8, <2>1, <2>2, <2>3 DEF PinsOK, PinsHeld
<1> QED BY <1>4, <1>8, <1>10, <1>11, <1>12, <1>13, <1>14 DEF IInv, OpsOK, StoreOK

\* A put that is over leaves put_tasks, which keeps those of others.
LEMMA RemovePutTaskIInv ==
    ASSUME IInv, NEW p \in disk.puts, LD!RemovePutTask(p)
    PROVE  IInv'
<1>0. p \in Puts
  BY Types
<1>1. /\ putting[p].pc = "finish"
      /\ diskPuts' = [diskPuts EXCEPT ![putting[p].key] = LD!Max({0, @ - 1})]
      /\ putting' = [putting EXCEPT ![p] = LD!IdlePut]
      /\ UNCHANGED <<disk, dict, pinCount, file, cacheSize, getting, prefetch, lock, leaked, badRead>>
  BY DEF LD!RemovePutTask
<1>2. PutsOK /\ StoreOK /\ PinsOK /\ LD!TypeOK /\ GetsOK /\ PrefetchesOK /\ LD!ReadsWhole
  BY DEF IInv, OpsOK
<1>3. putting'[p].pc = "idle" /\ \A q \in Puts : q # p => putting'[q] = putting[q]
  BY <1>0, <1>1, <1>2 DEF PutsOK, LD!IdlePut
<1>4. PutsOK'
  BY <1>0, <1>1, <1>2, <1>3 DEF PutsOK, PutPCs, LD!IdlePut
<1>5. putting[p].key \in DiskKeys /\ diskPuts \in [DiskKeys -> Nat]
  BY <1>0, <1>1, <1>2, Types DEF PutsOK
<1>6. /\ diskPuts' \in [DiskKeys -> Nat]
      /\ \A j \in DiskKeys : j # putting[p].key => diskPuts'[j] = diskPuts[j]
  <2>1. \A n \in Nat : LD!Max({0, n - 1}) \in Nat
    <3> SUFFICES ASSUME NEW n \in Nat PROVE LD!Max({0, n - 1}) \in Nat
      OBVIOUS
    <3>1. \E x \in {0, n - 1} : (\A y \in {0, n - 1} : x >= y) /\ x \in Nat
      BY n = 0 \/ n > 0
    <3>2. LD!Max({0, n - 1}) \in {0, n - 1} /\ LD!Max({0, n - 1}) >= 0
      BY <3>1 DEF LD!Max
    <3> QED BY <3>2
  <2>2. diskPuts[putting[p].key] \in Nat
    BY <1>5
  <2>3. LD!Max({0, diskPuts[putting[p].key] - 1}) \in Nat
    BY <2>1, <2>2
  <2> QED BY <1>1, <1>5, <2>3
<1>7. LD!TypeOK' /\ GetsOK' /\ PrefetchesOK' /\ LD!ReadsWhole' /\ LD!FileBacked'
      /\ (LD!OneWriter' <=> LD!OneWriter) /\ \A j : LD!InDict(j)' <=> LD!InDict(j)
  BY <1>1, <1>2, <1>6 DEF LD!TypeOK, GetsOK, PrefetchesOK, LD!ReadsWhole, StoreOK, LD!FileBacked, LD!OneWriter, LD!InDict
<1>8. SizeCovers'
  <2>1. p \notin OnItsWay /\ p \notin OnItsWay'
    BY <1>1, <1>3 DEF OnItsWay, LD!PutPhase
  <2>2. Cardinality(OnItsWay') = Cardinality(OnItsWay)
    BY <1>0, <1>3, <2>1, PutMoves
  <2> QED BY <1>1, <1>2, <1>7, <2>2 DEF StoreOK, SizeCovers
<1>9. FilesCounted'
  BY <1>0, <1>1, <1>2, <1>3, <1>7 DEF StoreOK, FilesCounted
<1>10. PutsApart'
  <2> SUFFICES ASSUME LD!OneWriter PROVE PutsApart'
    BY <1>7 DEF PutsApart
  <2>1. \A q \in LD!PutPhase({"insert", "reserve"})' : q \in LD!PutPhase({"insert", "reserve"})
    BY <1>1, <1>3 DEF LD!PutPhase
  <2>2. \A q \in Puts : q # p /\ putting[q].pc # "idle" =>
           putting[q].key # putting[p].key /\ putting[q].key \in DiskKeys
    BY <1>0, <1>1, <1>2 DEF StoreOK, PutsApart, PutsOK
  <2> QED BY <1>0, <1>1, <1>2, <1>3, <1>6, <1>7, <2>1, <2>2 DEF StoreOK, PutsApart
<1>11. PinsOK'
  BY <1>1, <1>2, <1>7, PinsAside
<1> QED BY <1>4, <1>7, <1>8, <1>9, <1>10, <1>11 DEF IInv, OpsOK, StoreOK

-----------------------------------------------------------------------------
(* Reading a file, and the synchronous get *)

\* Other writers, or removals by force: the key leaves with its file.
LEMMA StoreDrop ==
    ASSUME IInv, ~LD!OneWriter, NEW k, dict' = LD!Without(dict, k), UNCHANGED <<disk, cacheSize>>,
           \A p \in Puts : putting'[p].pc = putting[p].pc /\ putting'[p].key = putting[p].key,
           \A j \in DiskKeys : file'[j] # "absent" => file[j] # "absent" /\ j # k
    PROVE  StoreOK' /\ dict' \in Seq(DiskKeys)
<1>1. StoreOK /\ dict \in Seq(DiskKeys) /\ cacheSize \in Nat
  BY Types DEF IInv
<1>2. /\ dict' \in Seq(DiskKeys) /\ LD!IsInjective(dict') /\ Len(dict') \in Nat /\ Len(dict) \in Nat
      /\ \A j : LD!InDict(j)' <=> LD!InDict(j) /\ j # k
      /\ Len(dict') = IF LD!InDict(k) THEN Len(dict) - 1 ELSE Len(dict)
  BY <1>1, DictPop DEF StoreOK, SizeCovers
<1>3. ~LD!OneWriter'
  BY DEF LD!OneWriter
<1>4. OnItsWay' = OnItsWay
  BY DEF OnItsWay, LD!PutPhase
<1>5. Cardinality(OnItsWay) \in Nat
  <2>1. OnItsWay \subseteq Puts
    BY DEF OnItsWay, LD!PutPhase
  <2> QED BY <2>1, DiskAssumption, FS_Subset, FS_CardinalityType
<1>6. SizeCovers'
  <2>1. Len(dict') <= Len(dict)
    BY <1>2
  <2>2. cacheSize >= Len(dict) + Cardinality(OnItsWay)
    BY <1>1 DEF StoreOK, SizeCovers
  <2>3. cacheSize >= Len(dict') + Cardinality(OnItsWay)
    BY <1>1, <1>2, <1>5, <2>1, <2>2
  <2> QED BY <1>2, <1>3, <1>4, <2>3 DEF SizeCovers
<1>7. FilesCounted'
  BY <1>1, <1>2 DEF StoreOK, FilesCounted
<1> QED BY <1>2, <1>3, <1>6, <1>7 DEF StoreOK, PutsApart, LD!FileBacked

\* read_file: with one writer a key that is in the dictionary is read whole.
LEMMA ReadFileOK ==
    ASSUME IInv, NEW k \in DiskKeys, LD!ReadFile(k), LD!OneWriter => LD!InDict(k),
           UNCHANGED <<disk, putting, lock, leaked>>
    PROVE  /\ LD!TypeOK' /\ PutsOK' /\ StoreOK' /\ LD!ReadsWhole'
           /\ LD!OneWriter' <=> LD!OneWriter
           /\ LD!OneWriter => UNCHANGED <<dict, pinCount>>
<1>1. /\ badRead' = (badRead \/ file[k] # "whole")
      /\ dict' = (IF file[k] = "absent" THEN LD!Without(dict, k) ELSE dict)
      /\ pinCount' = (IF file[k] = "absent" THEN [pinCount EXCEPT ![k] = 0] ELSE pinCount)
      /\ UNCHANGED <<file, cacheSize, diskPuts>>
  BY DEF LD!ReadFile
<1>2. PutsOK /\ StoreOK /\ LD!TypeOK /\ LD!ReadsWhole
  BY DEF IInv, OpsOK
<1>3. LD!OneWriter' <=> LD!OneWriter
  BY DEF LD!OneWriter
<1>4. /\ pinCount \in [DiskKeys -> Int] /\ dict \in Seq(DiskKeys) /\ badRead \in BOOLEAN
  BY Types
<1>5. LD!OneWriter => file[k] = "whole"
  BY <1>2 DEF StoreOK, LD!FileBacked
<1>6. LD!OneWriter => UNCHANGED <<dict, pinCount>> /\ badRead' = badRead
  BY <1>1, <1>4, <1>5
<1>7. pinCount' \in [DiskKeys -> Int] /\ badRead' \in BOOLEAN
  <2>1. [pinCount EXCEPT ![k] = 0] \in [DiskKeys -> Int]
    BY <1>4
  <2> QED BY <1>1, <1>4, <2>1
<1>8. StoreOK' /\ dict' \in Seq(DiskKeys)
  <2>1. CASE dict' = dict
    <3>1. \A j : LD!InDict(j)' <=> LD!InDict(j)
      BY <2>1 DEF LD!InDict
    <3>2. LD!IsInjective(dict')
      BY <1>2, <2>1 DEF StoreOK, SizeCovers
    <3> QED BY <1>1, <1>2, <1>4, <2>1, <3>1, <3>2, StoreAside
  <2>2. CASE dict' # dict
    <3>1. ~LD!OneWriter /\ file[k] = "absent" /\ dict' = LD!Without(dict, k)
      BY <1>1, <1>6, <2>2
    <3> QED BY <1>1, <3>1, StoreDrop
  <2> QED BY <2>1, <2>2
<1>9. LD!TypeOK' /\ PutsOK' /\ LD!ReadsWhole'
  BY <1>1, <1>2, <1>3, <1>6, <1>7, <1>8 DEF LD!TypeOK, PutsOK, LD!ReadsWhole
<1> QED BY <1>3, <1>6, <1>8, <1>9

\* A step of a get that stores nothing.
LEMMA ReaderStore ==
    ASSUME IInv, UNCHANGED <<disk, dict, file, cacheSize, diskPuts, putting>>
    PROVE  StoreOK' /\ PutsOK' /\ dict' \in Seq(DiskKeys)
           /\ (LD!OneWriter' <=> LD!OneWriter) /\ \A k : LD!InDict(k)' <=> LD!InDict(k)
<1>1. \A k : LD!InDict(k)' <=> LD!InDict(k)
  BY DEF LD!InDict
<1>2. StoreOK /\ PutsOK /\ LD!IsInjective(dict')
  BY DEF IInv, OpsOK, StoreOK, SizeCovers
<1>3. StoreOK'
  BY <1>1, <1>2, StoreAside
<1>4. PutsOK'
  BY <1>2 DEF PutsOK
<1> QED BY <1>1, <1>3, <1>4, Types DEF LD!OneWriter

\* With one writer a key in use is in the dictionary.
LEMMA InUse ==
    ASSUME IInv, LD!OneWriter, NEW k \in DiskKeys, GetPins(k) # {} \/ FoundPins(k) # {}
    PROVE  LD!InDict(k) /\ pinCount[k] > 0
<1>1. PinsOK /\ pinCount[k] \in Int
  BY Types DEF IInv
<1>2. Uses(k) \in Nat /\ Uses(k) > 0
  BY <1>1, UsesIs DEF PinsOK
<1> QED BY <1>1, <1>2 DEF PinsOK, PinsHeld

\* A get that pins and unpins the key it uses.
LEMMA PinsGet ==
    ASSUME IInv, NEW g \in Gets, \A h \in Gets : h # g => getting'[h] = getting[h],
           UNCHANGED <<disk, prefetch>>, \A k \in DiskKeys : LD!InDict(k)' <=> LD!InDict(k),
           LD!OneWriter => \A k \in DiskKeys :
               /\ pinCount'[k] = pinCount[k] + (IF g \in GetPins(k)' THEN 1 ELSE 0)
                                             - (IF g \in GetPins(k) THEN 1 ELSE 0)
               /\ g \in GetPins(k)' => LD!InDict(k)
    PROVE  PinsOK'
<1>1. PinsOK /\ pinCount \in [DiskKeys -> Int]
  BY Types DEF IInv
<1>2. /\ PinsFinite /\ PinsFinite'
      /\ \A k \in DiskKeys : Uses(k)' = Uses(k) + (IF g \in GetPins(k)' THEN 1 ELSE 0)
                                                - (IF g \in GetPins(k) THEN 1 ELSE 0)
  BY <1>1, GetMoves DEF PinsOK
<1>3. LD!OneWriter' <=> LD!OneWriter
  BY DEF LD!OneWriter
<1>4. PinsHeld'
  <2> SUFFICES ASSUME LD!OneWriter, NEW k \in DiskKeys
               PROVE  /\ pinCount'[k] >= Uses(k)'
                      /\ disk.prefetches = {} => pinCount'[k] = Uses(k)'
                      /\ Uses(k)' > 0 => LD!InDict(k)
    BY <1>3 DEF PinsHeld
  <2>1. /\ pinCount[k] >= Uses(k)
        /\ disk.prefetches = {} => pinCount[k] = Uses(k)
        /\ Uses(k) > 0 => LD!InDict(k)
    BY <1>1 DEF PinsOK, PinsHeld
  <2>2. Uses(k) \in Nat /\ pinCount[k] \in Int
    BY <1>1, <1>2, UsesIs
  <2>3. PICK d \in {-1, 0, 1} : /\ pinCount'[k] = pinCount[k] + d /\ Uses(k)' = Uses(k) + d
                                /\ d = 1 => LD!InDict(k)
    <3>1. /\ pinCount'[k] = pinCount[k] + (IF g \in GetPins(k)' THEN 1 ELSE 0)
                                        - (IF g \in GetPins(k) THEN 1 ELSE 0)
          /\ Uses(k)' = Uses(k) + (IF g \in GetPins(k)' THEN 1 ELSE 0)
                                - (IF g \in GetPins(k) THEN 1 ELSE 0)
          /\ g \in GetPins(k)' => LD!InDict(k)
      BY <1>2
    <3>2. CASE g \in GetPins(k)' /\ g \in GetPins(k)
      BY <2>2, <3>1, <3>2
    <3>3. CASE g \in GetPins(k)' /\ g \notin GetPins(k)
      BY <2>2, <3>1, <3>3
    <3>4. CASE g \notin GetPins(k)' /\ g \in GetPins(k)
      BY <2>2, <3>1, <3>4
    <3>5. CASE g \notin GetPins(k)' /\ g \notin GetPins(k)
      BY <2>2, <3>1, <3>5
    <3> QED BY <3>2, <3>3, <3>4, <3>5
  <2> QED BY <2>1, <2>2, <2>3
<1> QED BY <1>2, <1>4 DEF PinsOK

\* A get that goes on with its key.
LEMMA GetGoesOn ==
    ASSUME IInv, NEW g \in Gets, getting[g].pc # "idle", NEW r \in GetPCs, r # "idle",
           getting' = [getting EXCEPT ![g].pc = r]
    PROVE  /\ GetsOK' /\ \A k : GetPins(k)' = GetPins(k)
           /\ getting[g].key \in DiskKeys /\ g \in GetPins(getting[g].key)
<1>1. GetsOK
  BY DEF IInv, OpsOK
<1>2. /\ getting'[g].pc = r /\ getting'[g].key = getting[g].key
      /\ \A h \in Gets : h # g => getting'[h] = getting[h]
  BY <1>1 DEF GetsOK
<1>3. GetsOK'
  BY <1>1, <1>2 DEF GetsOK
<1>4. \A k : GetPins(k)' = GetPins(k)
  BY <1>2 DEF GetPins
<1> QED BY <1>1, <1>3, <1>4 DEF GetPins, GetsOK

\* contains(key, pin=True) finds the key and pins it.
LEMMA ContainsPinIInv ==
    ASSUME IInv, NEW g \in disk.gets, NEW k \in disk.keys, LD!ContainsPin(g, k)
    PROVE  IInv'
<1>0. g \in Gets /\ k \in DiskKeys
  BY Types
<1>1. /\ getting[g].pc = "idle" /\ LD!InDict(k)
      /\ pinCount' = [pinCount EXCEPT ![k] = @ + 1]
      /\ getting' = [getting EXCEPT ![g] = [pc |-> "get", key |-> k]]
      /\ UNCHANGED <<disk, dict, file, cacheSize, diskPuts, putting, prefetch, lock, leaked, badRead>>
  BY DEF LD!ContainsPin
<1>2. GetsOK /\ PrefetchesOK /\ LD!TypeOK /\ LD!ReadsWhole /\ pinCount \in [DiskKeys -> Int]
  BY Types DEF IInv, OpsOK
<1>3. getting'[g] = [pc |-> "get", key |-> k] /\ \A h \in Gets : h # g => getting'[h] = getting[h]
  BY <1>0, <1>1, <1>2 DEF GetsOK
<1>4. GetsOK'
  BY <1>0, <1>1, <1>2, <1>3 DEF GetsOK, GetPCs
<1>5. /\ StoreOK' /\ PutsOK' /\ dict' \in Seq(DiskKeys)
      /\ (LD!OneWriter' <=> LD!OneWriter) /\ \A j : LD!InDict(j)' <=> LD!InDict(j)
  BY <1>1, ReaderStore
<1>6. pinCount' \in [DiskKeys -> Int]
  BY <1>0, <1>1, <1>2
<1>7. LD!TypeOK' /\ PrefetchesOK' /\ LD!ReadsWhole'
  BY <1>1, <1>2, <1>5, <1>6 DEF LD!TypeOK, PrefetchesOK, LD!ReadsWhole
<1>8. PinsOK'
  <2>1. \A j \in DiskKeys : g \notin GetPins(j) /\ (g \in GetPins(j)' <=> j = k)
    BY <1>0, <1>1, <1>3 DEF GetPins
  <2>2. ASSUME NEW j \in DiskKeys
        PROVE  pinCount'[j] = pinCount[j] + (IF g \in GetPins(j)' THEN 1 ELSE 0)
                                          - (IF g \in GetPins(j) THEN 1 ELSE 0)
    <3>1. CASE j = k
      BY <1>0, <1>1, <1>2, <2>1, <3>1
    <3>2. CASE j # k
      BY <1>0, <1>1, <1>2, <2>1, <3>2
    <3> QED BY <3>1, <3>2
  <2>3. \A j \in DiskKeys : g \in GetPins(j)' => LD!InDict(j)
    BY <1>1, <2>1
  <2> QED BY <1>0, <1>1, <1>3, <1>5, <2>2, <2>3, PinsGet
<1> QED BY <1>4, <1>5, <1>7, <1>8 DEF IInv, OpsOK

\* get_blocking moves a key that it finds to the end.
LEMMA GetBlockingIInv ==
    ASSUME IInv, NEW g \in disk.gets, LD!GetBlocking(g)
    PROVE  IInv'
<1>0. g \in Gets
  BY Types
<1>18. PICK k : k = getting[g].key
  OBVIOUS
<1>1. /\ getting[g].pc = "get"
      /\ dict' = (IF LD!InDict(k) THEN LD!UpdateOnHit(k) ELSE dict)
      /\ getting' = [getting EXCEPT ![g].pc = IF LD!InDict(k) THEN "alloc" ELSE "unpin"]
      /\ UNCHANGED <<disk, pinCount, file, cacheSize, diskPuts, putting, prefetch, lock, leaked, badRead>>
  BY <1>18 DEF LD!GetBlocking
<1>2. /\ PutsOK /\ StoreOK /\ PinsOK /\ LD!TypeOK /\ PrefetchesOK /\ LD!ReadsWhole
      /\ dict \in Seq(DiskKeys) /\ LD!IsInjective(dict)
  BY Types DEF IInv, OpsOK, StoreOK, SizeCovers
<1>3. PICK r \in {"alloc", "unpin"} : getting' = [getting EXCEPT ![g].pc = r]
  BY <1>1
<1>4. GetsOK' /\ k \in DiskKeys /\ \A j : GetPins(j)' = GetPins(j)
  BY <1>0, <1>1, <1>18, <1>3, GetGoesOn DEF GetPCs
<1>5. /\ dict' \in Seq(DiskKeys) /\ LD!IsInjective(dict') /\ Len(dict') = Len(dict)
      /\ \A j : LD!InDict(j)' <=> LD!InDict(j)
  <2>1. CASE LD!InDict(k)
    <3>1. dict' = LD!UpdateOnHit(k)
      BY <1>1, <2>1
    <3> QED BY <1>2, <1>4, <2>1, <3>1, DictHit
  <2>2. CASE ~LD!InDict(k)
    BY <1>1, <1>2, <2>2 DEF LD!InDict
  <2> QED BY <2>1, <2>2
<1>6. StoreOK' /\ PutsOK' /\ PrefetchesOK' /\ (LD!OneWriter' <=> LD!OneWriter)
  BY <1>1, <1>2, <1>5, StoreAside DEF PutsOK, PrefetchesOK, LD!OneWriter
<1>7. LD!TypeOK' /\ LD!ReadsWhole'
  BY <1>1, <1>2, <1>5, <1>6 DEF LD!TypeOK, LD!ReadsWhole
<1>8. PinsOK'
  <2>1. \A j : LoadPins(j)' = LoadPins(j) /\ Uses(j)' = Uses(j)
    BY <1>1, <1>4 DEF FoundPins, LoadPins, Uses
  <2> QED BY <1>1, <1>2, <1>5, <1>6, <2>1 DEF PinsOK, PinsFinite, PinsHeld
<1> QED BY <1>4, <1>6, <1>7, <1>8 DEF IInv, OpsOK

\* A get that waits for a buffer or has used its chunk.
LEMMA GetWaitsIInv ==
    ASSUME IInv, NEW g \in disk.gets, LD!GetAlloc(g) \/ LD!GetUsed(g)
    PROVE  IInv'
<1>0. g \in Gets
  BY Types
<1>1. /\ getting[g].pc # "idle"
      /\ \E r \in {"read", "unpin"} : getting' = [getting EXCEPT ![g].pc = r]
      /\ UNCHANGED <<disk, dict, pinCount, file, cacheSize, diskPuts, putting, prefetch, lock, leaked, badRead>>
  BY DEF LD!GetAlloc, LD!GetUsed, LD!cacheVars
<1>2. PICK r \in {"read", "unpin"} : getting' = [getting EXCEPT ![g].pc = r]
  BY <1>1
<1>3. PinsOK /\ LD!TypeOK /\ PrefetchesOK /\ LD!ReadsWhole
  BY DEF IInv, OpsOK
<1>4. GetsOK' /\ \A j : GetPins(j)' = GetPins(j)
  BY <1>0, <1>1, <1>2, GetGoesOn DEF GetPCs
<1>5. /\ StoreOK' /\ PutsOK' /\ dict' \in Seq(DiskKeys)
      /\ (LD!OneWriter' <=> LD!OneWriter) /\ \A j : LD!InDict(j)' <=> LD!InDict(j)
  BY <1>1, ReaderStore
<1>6. LD!TypeOK' /\ PrefetchesOK' /\ LD!ReadsWhole'
  BY <1>1, <1>3, <1>5 DEF LD!TypeOK, PrefetchesOK, LD!ReadsWhole
<1>7. PinsOK'
  <2>1. \A j : LoadPins(j)' = LoadPins(j) /\ Uses(j)' = Uses(j)
    BY <1>1, <1>4 DEF FoundPins, LoadPins, Uses
  <2> QED BY <1>1, <1>3, <1>5, <2>1 DEF PinsOK, PinsFinite, PinsHeld
<1> QED BY <1>4, <1>5, <1>6, <1>7 DEF IInv, OpsOK

\* The file of a pinned key is there and whole.
LEMMA GetReadIInv ==
    ASSUME IInv, NEW g \in disk.gets, LD!GetRead(g)
    PROVE  IInv'
<1>0. g \in Gets
  BY Types
<1>18. PICK k : k = getting[g].key
  OBVIOUS
<1>1. /\ getting[g].pc = "read" /\ LD!ReadFile(k)
      /\ getting' = [getting EXCEPT ![g].pc = "meta"]
      /\ UNCHANGED <<disk, putting, prefetch, lock, leaked>>
  BY <1>18 DEF LD!GetRead
<1>2. PinsOK /\ PrefetchesOK
  BY DEF IInv, OpsOK
<1>3. GetsOK' /\ (\A j : GetPins(j)' = GetPins(j)) /\ k \in DiskKeys /\ g \in GetPins(k)
  BY <1>0, <1>1, <1>18, GetGoesOn DEF GetPCs
<1>4. LD!OneWriter => LD!InDict(k)
  BY <1>3, InUse
<1>5. /\ LD!TypeOK' /\ PutsOK' /\ StoreOK' /\ LD!ReadsWhole'
      /\ LD!OneWriter' <=> LD!OneWriter
      /\ LD!OneWriter => UNCHANGED <<dict, pinCount>>
  BY <1>1, <1>3, <1>4, ReadFileOK
<1>6. PrefetchesOK'
  BY <1>1, <1>2 DEF PrefetchesOK
<1>7. PinsOK'
  <2>1. \A j : LoadPins(j)' = LoadPins(j) /\ Uses(j)' = Uses(j)
    BY <1>1, <1>3 DEF FoundPins, LoadPins, Uses
  <2>2. LD!OneWriter => \A j : LD!InDict(j)' <=> LD!InDict(j)
    BY <1>5 DEF LD!InDict
  <2> QED BY <1>1, <1>2, <1>5, <2>1, <2>2 DEF PinsOK, PinsFinite, PinsHeld
<1> QED BY <1>3, <1>5, <1>6, <1>7 DEF IInv, OpsOK

\* So is its metadata.
LEMMA GetMetaIInv ==
    ASSUME IInv, NEW g \in disk.gets, LD!GetMeta(g)
    PROVE  IInv'
<1>0. g \in Gets
  BY Types
<1>1. /\ getting[g].pc = "meta"
      /\ \E r \in {"use", "unpin"} : getting' = [getting EXCEPT ![g].pc = r]
      /\ leaked' \in {leaked, leaked + 1}
      /\ LD!InDict(getting[g].key) => badRead' = badRead
      /\ badRead' \in {badRead, TRUE}
      /\ UNCHANGED <<disk, dict, pinCount, file, cacheSize, diskPuts, putting, prefetch, lock>>
  BY DEF LD!GetMeta, LD!cacheVars
<1>2. PICK r \in {"use", "unpin"} : getting' = [getting EXCEPT ![g].pc = r]
  BY <1>1
<1>3. PinsOK /\ LD!TypeOK /\ PrefetchesOK /\ LD!ReadsWhole /\ badRead \in BOOLEAN /\ leaked \in Nat
  BY Types DEF IInv, OpsOK
<1>4. /\ GetsOK' /\ \A j : GetPins(j)' = GetPins(j)
      /\ getting[g].key \in DiskKeys /\ g \in GetPins(getting[g].key)
  BY <1>0, <1>1, <1>2, GetGoesOn DEF GetPCs
<1>5. /\ StoreOK' /\ PutsOK' /\ dict' \in Seq(DiskKeys)
      /\ (LD!OneWriter' <=> LD!OneWriter) /\ \A j : LD!InDict(j)' <=> LD!InDict(j)
  BY <1>1, ReaderStore
<1>6. LD!OneWriter => badRead' = badRead
  BY <1>1, <1>4, InUse
<1>7. leaked' \in Nat /\ badRead' \in BOOLEAN
  <2>1. leaked' = leaked \/ leaked' = leaked + 1
    BY ONLY <1>1
  <2>2. badRead' = badRead \/ badRead' = TRUE
    BY ONLY <1>1
  <2>3. leaked' \in Nat
    BY ONLY <1>3, <2>1
  <2> QED BY ONLY <1>3, <2>2, <2>3
<1>8. LD!TypeOK' /\ PrefetchesOK' /\ LD!ReadsWhole'
  BY <1>1, <1>3, <1>5, <1>6, <1>7 DEF LD!TypeOK, PrefetchesOK, LD!ReadsWhole
<1>9. PinsOK'
  <2>1. \A j : LoadPins(j)' = LoadPins(j) /\ Uses(j)' = Uses(j)
    BY <1>1, <1>4 DEF FoundPins, LoadPins, Uses
  <2> QED BY <1>1, <1>3, <1>5, <2>1 DEF PinsOK, PinsFinite, PinsHeld
<1> QED BY <1>4, <1>5, <1>8, <1>9 DEF IInv, OpsOK

\* lookup_unpin gives back the pin of a key that is still there.
LEMMA UnpinKeyIInv ==
    ASSUME IInv, NEW g \in disk.gets, LD!UnpinKey(g)
    PROVE  IInv'
<1>0. g \in Gets
  BY Types
<1>18. PICK k : k = getting[g].key
  OBVIOUS
<1>1. /\ getting[g].pc = "unpin"
      /\ pinCount' = (IF LD!InDict(k) THEN [pinCount EXCEPT ![k] = @ - 1] ELSE pinCount)
      /\ getting' = [getting EXCEPT ![g] = LD!IdleGet]
      /\ UNCHANGED <<disk, dict, file, cacheSize, diskPuts, putting, prefetch, lock, leaked, badRead>>
  BY <1>18 DEF LD!UnpinKey
<1>2. /\ GetsOK /\ PrefetchesOK /\ LD!TypeOK /\ LD!ReadsWhole /\ pinCount \in [DiskKeys -> Int]
      /\ k \in DiskKeys
  BY <1>0, <1>1, <1>18, Types DEF IInv, OpsOK, GetsOK
<1>3. getting'[g] = LD!IdleGet /\ \A h \in Gets : h # g => getting'[h] = getting[h]
  BY <1>0, <1>1, <1>2 DEF GetsOK
<1>4. GetsOK'
  BY <1>0, <1>1, <1>2, <1>3 DEF GetsOK, GetPCs, LD!IdleGet
<1>5. /\ StoreOK' /\ PutsOK' /\ dict' \in Seq(DiskKeys)
      /\ (LD!OneWriter' <=> LD!OneWriter) /\ \A j : LD!InDict(j)' <=> LD!InDict(j)
  BY <1>1, ReaderStore
<1>6. pinCount' \in [DiskKeys -> Int]
  BY <1>1, <1>2
<1>7. LD!TypeOK' /\ PrefetchesOK' /\ LD!ReadsWhole'
  BY <1>1, <1>2, <1>5, <1>6 DEF LD!TypeOK, PrefetchesOK, LD!ReadsWhole
<1>8. PinsOK'
  <2>1. \A j \in DiskKeys : g \notin GetPins(j)' /\ (g \in GetPins(j) <=> j = k)
    BY <1>0, <1>1, <1>18, <1>3 DEF GetPins, LD!IdleGet
  <2>2. ASSUME LD!OneWriter, NEW j \in DiskKeys
        PROVE  pinCount'[j] = pinCount[j] + (IF g \in GetPins(j)' THEN 1 ELSE 0)
                                          - (IF g \in GetPins(j) THEN 1 ELSE 0)
    <3>0. pinCount' = [pinCount EXCEPT ![k] = @ - 1]
      BY <1>1, <1>2, <2>1, <2>2, InUse
    <3>1. CASE j = k
      BY <1>2, <2>1, <3>0, <3>1
    <3>2. CASE j # k
      BY <1>2, <2>1, <3>0, <3>2
    <3> QED BY <3>1, <3>2
  <2> QED BY <1>0, <1>1, <1>3, <1>5, <2>1, <2>2, PinsGet
<1> QED BY <1>4, <1>5, <1>7, <1>8 DEF IInv, OpsOK

\* remove(force=True) is not called with one writer.
LEMMA ForceRemoveIInv ==
    ASSUME IInv, NEW k \in disk.keys, LD!ForceRemove(k)
    PROVE  IInv'
<1>0. k \in DiskKeys
  BY Types
<1>1. /\ disk.remove
      /\ dict' = LD!Without(dict, k) /\ pinCount' = [pinCount EXCEPT ![k] = 0]
      /\ file' = [file EXCEPT ![k] = "absent"]
      /\ putting' = LD!Unlinked(putting, k)
      /\ lock' \in {"lost", "free"}
      /\ UNCHANGED <<disk, cacheSize, diskPuts, getting, prefetch, leaked, badRead>>
  BY DEF LD!ForceRemove, LD!RemoveKey
<1>2. PutsOK /\ GetsOK /\ PrefetchesOK /\ PinsOK /\ LD!TypeOK
  BY DEF IInv, OpsOK
<1>3. ~LD!OneWriter /\ ~LD!OneWriter'
  BY <1>1 DEF LD!OneWriter
<1>4. /\ \A p \in Puts : putting'[p].pc = putting[p].pc /\ putting'[p].key = putting[p].key
      /\ PutsOK'
  <2> DEFINE u == LD!Unlinked(putting, k)
  <2>1. \A p \in Puts : /\ u[p].pc = putting[p].pc /\ u[p].key = putting[p].key
                        /\ u[p] \in [pc: PutPCs, key: DiskKeys \cup {LD!NoKey}, linked: BOOLEAN]
    BY <1>2, UnlinkedIs
  <2>2. u = [p \in Puts |-> u[p]]
    BY DEF LD!Unlinked
  <2> HIDE DEF u
  <2>3. putting' = u
    BY <1>1 DEF u
  <2> QED BY <1>2, <2>1, <2>2, <2>3 DEF PutsOK
<1>5. file \in [DiskKeys -> {"absent", "partial", "whole"}] /\ pinCount \in [DiskKeys -> Int]
  BY Types
<1>6. \A j \in DiskKeys : file'[j] # "absent" => file[j] # "absent" /\ j # k
  BY <1>0, <1>1, <1>5
<1>7. StoreOK' /\ dict' \in Seq(DiskKeys)
  BY <1>1, <1>3, <1>4, <1>6, StoreDrop
<1>8. file' \in [DiskKeys -> {"absent", "partial", "whole"}] /\ pinCount' \in [DiskKeys -> Int]
  <2>1. pinCount' = [pinCount EXCEPT ![k] = 0] /\ file' = [file EXCEPT ![k] = "absent"]
    BY <1>1
  <2> QED BY ONLY <1>0, <1>5, <2>1
<1>9. LD!TypeOK' /\ GetsOK' /\ PrefetchesOK' /\ LD!ReadsWhole'
  BY <1>1, <1>2, <1>3, <1>7, <1>8 DEF LD!TypeOK, GetsOK, PrefetchesOK, LD!ReadsWhole
<1>10. PinsOK'
  <2>1. \A j : LoadPins(j)' = LoadPins(j)
    BY <1>1 DEF LoadPins
  <2> QED BY <1>2, <1>3, <2>1 DEF PinsOK, PinsFinite, PinsHeld
<1> QED BY <1>4, <1>7, <1>9, <1>10 DEF IInv, OpsOK

-----------------------------------------------------------------------------
(* The asynchronous prefetch *)

\* The next state of a prefetch, field by field.
LEMMA PrefetchFields ==
    ASSUME PrefetchesOK, NEW f \in Prefetches, NEW r \in PrefetchPCs, NEW n \in Nat,
           \/ prefetch' = [prefetch EXCEPT ![f].pc = r] /\ n = prefetch[f].done
           \/ prefetch' = [prefetch EXCEPT ![f].pc = r, ![f].done = n]
    PROVE  /\ prefetch'[f].pc = r /\ prefetch'[f].keys = prefetch[f].keys /\ prefetch'[f].done = n
           /\ \A h \in Prefetches : h # f => prefetch'[h] = prefetch[h]
           /\ prefetch' \in [Prefetches -> [pc: PrefetchPCs, keys: Seq(DiskKeys), done: Nat]]
<1>1. prefetch \in [Prefetches -> [pc: PrefetchPCs, keys: Seq(DiskKeys), done: Nat]]
  BY DEF PrefetchesOK
<1>2. CASE prefetch' = [prefetch EXCEPT ![f].pc = r] /\ n = prefetch[f].done
  <2>1. prefetch'[f] = [prefetch[f] EXCEPT !.pc = r] /\ prefetch[f] \in [pc: PrefetchPCs, keys: Seq(DiskKeys), done: Nat]
    BY <1>1, <1>2
  <2>2. /\ prefetch'[f].pc = r /\ prefetch'[f].keys = prefetch[f].keys /\ prefetch'[f].done = n
        /\ prefetch'[f] \in [pc: PrefetchPCs, keys: Seq(DiskKeys), done: Nat]
    BY <1>2, <2>1
  <2> QED BY <1>1, <1>2, <2>2
<1>3. CASE prefetch' = [prefetch EXCEPT ![f].pc = r, ![f].done = n]
  <2>1. /\ prefetch'[f] = [prefetch[f] EXCEPT !.pc = r, !.done = n]
        /\ prefetch[f] \in [pc: PrefetchPCs, keys: Seq(DiskKeys), done: Nat]
    BY <1>1, <1>3
  <2>2. /\ prefetch'[f].pc = r /\ prefetch'[f].keys = prefetch[f].keys /\ prefetch'[f].done = n
        /\ prefetch'[f] \in [pc: PrefetchPCs, keys: Seq(DiskKeys), done: Nat]
    BY <2>1
  <2> QED BY <1>1, <1>3, <2>2
<1> QED BY <1>2, <1>3

\* The key that a prefetch is at is one that its lookup pinned.
LEMMA Current ==
    ASSUME IInv, NEW f \in disk.prefetches, prefetch[f].pc \notin {"idle", "use"},
           NEW k, k = LD!CurrentKey(f)
    PROVE  /\ f \in Prefetches /\ k \in DiskKeys /\ f \in FoundPins(k)
           /\ prefetch[f].keys \in Seq(DiskKeys) /\ Len(prefetch[f].keys) \in Nat
           /\ prefetch[f].done \in Nat /\ prefetch[f].done < Len(prefetch[f].keys)
           /\ DOMAIN prefetch[f].keys = 1..Len(prefetch[f].keys)
           /\ k = prefetch[f].keys[prefetch[f].done + 1]
           /\ LD!OneWriter => LD!InDict(k)
<1>1. PrefetchesOK /\ f \in Prefetches
  BY Types DEF IInv, OpsOK
<1>2. prefetch[f].keys \in Seq(DiskKeys) /\ prefetch[f].done \in Nat /\ prefetch[f].done < Len(prefetch[f].keys)
  BY <1>1 DEF PrefetchesOK, PrefetchOK
<1>3. Len(prefetch[f].keys) \in Nat /\ DOMAIN prefetch[f].keys = 1..Len(prefetch[f].keys)
  BY <1>2, LenProperties
<1>4. prefetch[f].done + 1 \in 1..Len(prefetch[f].keys) /\ k = prefetch[f].keys[prefetch[f].done + 1]
  BY <1>2, <1>3 DEF LD!CurrentKey
<1>5. k \in DiskKeys
  BY <1>2, <1>4, ElementOfSeq
<1>6. k \in LD!Range(prefetch[f].keys)
  BY <1>3, <1>4 DEF LD!Range
<1>7. f \in FoundPins(k)
  BY <1>1, <1>6 DEF FoundPins
<1> QED BY <1>1, <1>2, <1>3, <1>4, <1>5, <1>7, InUse

\* A prefetch that pins and unpins one of its places, or is done.
LEMMA PinsPrefetch ==
    ASSUME IInv, NEW f \in disk.prefetches, \A h \in Prefetches : h # f => prefetch'[h] = prefetch[h],
           UNCHANGED <<disk, getting>>, NEW i,
           \A k \in DiskKeys :
              \/ HoldsOf(prefetch'[f], k) = HoldsOf(prefetch[f], k)
              \/ i \notin HoldsOf(prefetch[f], k)
                 /\ HoldsOf(prefetch'[f], k) = HoldsOf(prefetch[f], k) \cup {i}
              \/ i \in HoldsOf(prefetch[f], k)
                 /\ HoldsOf(prefetch'[f], k) = HoldsOf(prefetch[f], k) \ {i},
           LD!OneWriter => \A k \in DiskKeys :
              /\ LD!InDict(k)' <=> LD!InDict(k)
              /\ pinCount'[k] \in Int
              /\ pinCount'[k] >= pinCount[k]
                   + (IF f \in FoundPins(k)' THEN 1 ELSE 0) - (IF f \in FoundPins(k) THEN 1 ELSE 0)
                   + (IF i \in HoldsOf(prefetch'[f], k) THEN 1 ELSE 0)
                   - (IF i \in HoldsOf(prefetch[f], k) THEN 1 ELSE 0)
              /\ f \in FoundPins(k)' \/ i \in HoldsOf(prefetch'[f], k) => LD!InDict(k)
    PROVE  PinsOK'
<1>1. PinsOK /\ PinsFinite /\ f \in Prefetches /\ pinCount \in [DiskKeys -> Int]
  BY Types DEF IInv, PinsOK
<1>2. ASSUME NEW k \in DiskKeys
      PROVE  /\ IsFiniteSet(LoadPins(k)')
             /\ Uses(k)' = Uses(k)
                  + (IF f \in FoundPins(k)' THEN 1 ELSE 0) - (IF f \in FoundPins(k) THEN 1 ELSE 0)
                  + (IF i \in HoldsOf(prefetch'[f], k) THEN 1 ELSE 0)
                  - (IF i \in HoldsOf(prefetch[f], k) THEN 1 ELSE 0)
  BY <1>1, PrefetchMoves
<1>3. PinsFinite'
  BY <1>2 DEF PinsFinite
<1>4. LD!OneWriter' <=> LD!OneWriter
  BY DEF LD!OneWriter
<1>5. PinsHeld'
  <2> SUFFICES ASSUME LD!OneWriter, NEW k \in DiskKeys
               PROVE  /\ pinCount'[k] >= Uses(k)'
                      /\ Uses(k)' > 0 => LD!InDict(k)
    BY <1>4 DEF PinsHeld
  <2>1. /\ pinCount[k] >= Uses(k)
        /\ Uses(k) > 0 => LD!InDict(k)
    BY <1>1 DEF PinsOK, PinsHeld
  <2>2. Uses(k) \in Nat /\ pinCount[k] \in Int /\ pinCount'[k] \in Int
    BY <1>1, UsesIs
  <2>3. PICK a \in {0, 1} : a = (IF f \in FoundPins(k)' THEN 1 ELSE 0)
    OBVIOUS
  <2>4. PICK b \in {0, 1} : b = (IF f \in FoundPins(k) THEN 1 ELSE 0)
    OBVIOUS
  <2>5. PICK c \in {0, 1} : c = (IF i \in HoldsOf(prefetch'[f], k) THEN 1 ELSE 0)
    OBVIOUS
  <2>6. PICK d \in {0, 1} : d = (IF i \in HoldsOf(prefetch[f], k) THEN 1 ELSE 0)
    OBVIOUS
  <2>7. Uses(k)' = Uses(k) + a - b + c - d
    BY <1>2, <2>3, <2>4, <2>5, <2>6
  <2>8. pinCount'[k] >= pinCount[k] + a - b + c - d
    BY <2>3, <2>4, <2>5, <2>6
  <2>9. a = 1 \/ c = 1 => LD!InDict(k)
    BY <2>3, <2>5
  <2> QED BY ONLY <2>1, <2>2, <2>7, <2>8, <2>9
<1> QED BY <1>3, <1>5 DEF PinsOK

\* Its places that are pinned do not change while it waits or reads.
LEMMA HoldsSame ==
    ASSUME NEW r, NEW s, s.keys = r.keys, \A i \in DOMAIN r.keys : Holds(s, i) <=> Holds(r, i)
    PROVE  \A k : HoldsOf(s, k) = HoldsOf(r, k)
BY DEF HoldsOf

\* A prefetch that ends leaves no place pinned.
LEMMA PrefetchEnded ==
    ASSUME IInv, NEW f \in disk.prefetches, prefetch' = [prefetch EXCEPT ![f] = LD!IdlePrefetch],
           UNCHANGED disk
    PROVE  PrefetchesOK' /\ PinsFinite' /\ prefetch'[f] = LD!IdlePrefetch
           /\ \A h \in Prefetches : h # f => prefetch'[h] = prefetch[h]
<1>1. PrefetchesOK /\ PinsFinite /\ f \in Prefetches
  BY Types DEF IInv, OpsOK, PinsOK
<1>2. prefetch'[f] = LD!IdlePrefetch /\ \A h \in Prefetches : h # f => prefetch'[h] = prefetch[h]
  BY <1>1 DEF PrefetchesOK
<1>3. PrefetchesOK'
  <2>1. LD!IdlePrefetch \in [pc: PrefetchPCs, keys: Seq(DiskKeys), done: Nat]
    BY DEF LD!IdlePrefetch, PrefetchPCs
  <2>2. PrefetchOK(LD!IdlePrefetch)
    BY DEF LD!IdlePrefetch, PrefetchOK
  <2>3. prefetch' \in [Prefetches -> [pc: PrefetchPCs, keys: Seq(DiskKeys), done: Nat]]
    BY <1>1, <2>1 DEF PrefetchesOK
  <2>4. \A h \in Prefetches : PrefetchOK(prefetch'[h])
    BY <1>1, <1>2, <2>2 DEF PrefetchesOK
  <2> QED BY <1>1, <1>2, <2>3, <2>4 DEF PrefetchesOK
<1>4. ASSUME NEW k \in DiskKeys PROVE IsFiniteSet(LoadPins(k)')
  <2>1. HoldsOf(LD!IdlePrefetch, k) = {}
    BY DEF HoldsOf, LD!IdlePrefetch
  <2>2. LoadPins(k)' \subseteq LoadPins(k)
    BY <1>2, <2>1 DEF LoadPins
  <2> QED BY <1>1, <2>2, FS_Subset DEF PinsFinite
<1> QED BY <1>2, <1>3, <1>4 DEF PinsFinite

\* One that goes on without pinning anything.
LEMMA PinsSame ==
    ASSUME IInv, NEW f \in disk.prefetches, \A h \in Prefetches : h # f => prefetch'[h] = prefetch[h],
           prefetch'[f].keys = prefetch[f].keys,
           \A i \in DOMAIN prefetch[f].keys : Holds(prefetch'[f], i) <=> Holds(prefetch[f], i),
           UNCHANGED <<disk, getting>>,
           LD!OneWriter => UNCHANGED pinCount /\ \A k \in DiskKeys : LD!InDict(k)' <=> LD!InDict(k)
    PROVE  PinsOK'
<1>1. PinsOK
  BY DEF IInv
<1>2. \A h \in Prefetches : \A k : HoldsOf(prefetch'[h], k) = HoldsOf(prefetch[h], k)
  <2>1. \A k : HoldsOf(prefetch'[f], k) = HoldsOf(prefetch[f], k)
    BY HoldsSame
  <2> QED BY <2>1
<1>3. \A k : LoadPins(k)' = LoadPins(k)
  BY <1>2 DEF LoadPins
<1>4. \A k : FoundPins(k)' = FoundPins(k) /\ GetPins(k)' = GetPins(k)
  BY DEF FoundPins, GetPins
<1>5. \A k : Uses(k)' = Uses(k)
  BY <1>3, <1>4 DEF Uses
<1>6. LD!OneWriter' <=> LD!OneWriter
  BY DEF LD!OneWriter
<1> QED BY <1>1, <1>3, <1>5, <1>6 DEF PinsOK, PinsFinite, PinsHeld

\* With other writers or removals by force a prefetch may raise.
LEMMA RaiseIInv ==
    ASSUME IInv, NEW f \in disk.prefetches, ~LD!OneWriter, NEW n \in Nat, LD!PrefetchRaises(f, n),
           lock' \in {lock, "lost"},
           UNCHANGED <<disk, dict, pinCount, file, cacheSize, diskPuts, putting, getting>>
    PROVE  IInv'
<1>1. /\ prefetch' = [prefetch EXCEPT ![f] = LD!IdlePrefetch]
      /\ leaked' = leaked + n /\ badRead' = TRUE
  BY DEF LD!PrefetchRaises
<1>2. PrefetchesOK' /\ PinsFinite' /\ f \in Prefetches
  BY <1>1, PrefetchEnded, Types
<1>3. /\ StoreOK' /\ PutsOK' /\ dict' \in Seq(DiskKeys)
      /\ (LD!OneWriter' <=> LD!OneWriter) /\ \A j : LD!InDict(j)' <=> LD!InDict(j)
  BY ReaderStore
<1>4. LD!TypeOK /\ GetsOK /\ leaked \in Nat
  BY Types DEF IInv, OpsOK
<1>5. leaked' \in Nat
  BY <1>1, <1>4
<1>6. LD!TypeOK' /\ GetsOK' /\ LD!ReadsWhole'
  BY <1>1, <1>3, <1>4, <1>5 DEF LD!TypeOK, GetsOK, LD!ReadsWhole
<1> QED BY <1>2, <1>3, <1>6 DEF IInv, OpsOK, PinsOK, PinsHeld

\* batched_get_non_blocking holds disk_lock for the key it is at.
LEMMA PrefetchLockIInv ==
    ASSUME IInv, NEW f \in disk.prefetches, LD!PrefetchLock(f)
    PROVE  IInv'
<1>18. PICK k : k = LD!CurrentKey(f)
  OBVIOUS
<1>1. /\ prefetch[f].pc \in {"get", "next"}
      /\ \/ /\ LD!InDict(k) /\ lock' = f /\ prefetch' = [prefetch EXCEPT ![f].pc = "alloc"]
            /\ UNCHANGED <<leaked, badRead>>
         \/ ~LD!InDict(k) /\ lock' = "lost" /\ LD!PrefetchRaises(f, prefetch[f].done)
      /\ UNCHANGED <<disk, dict, pinCount, file, cacheSize, diskPuts, putting, getting>>
  BY <1>18 DEF LD!PrefetchLock, LD!cacheVars
<1>2. /\ f \in Prefetches /\ prefetch[f].done \in Nat /\ prefetch[f].done < Len(prefetch[f].keys)
      /\ LD!OneWriter => LD!InDict(k)
  BY <1>1, <1>18, Current
<1>3. LD!TypeOK /\ GetsOK /\ PrefetchesOK /\ LD!ReadsWhole
  BY DEF IInv, OpsOK
<1>4. CASE prefetch' = [prefetch EXCEPT ![f].pc = "alloc"] /\ lock' = f /\ UNCHANGED <<leaked, badRead>>
  <2>1. /\ prefetch'[f].pc = "alloc" /\ prefetch'[f].keys = prefetch[f].keys
        /\ prefetch'[f].done = prefetch[f].done
        /\ \A h \in Prefetches : h # f => prefetch'[h] = prefetch[h]
        /\ prefetch' \in [Prefetches -> [pc: PrefetchPCs, keys: Seq(DiskKeys), done: Nat]]
    <3>1. "alloc" \in PrefetchPCs
      BY DEF PrefetchPCs
    <3> QED BY <1>2, <1>3, <1>4, <3>1, PrefetchFields
  <2>2. PrefetchesOK'
    <3>1. PrefetchOK(prefetch'[f])
      BY <1>2, <2>1 DEF PrefetchOK
    <3> QED BY <1>1, <1>3, <2>1, <3>1 DEF PrefetchesOK
  <2>3. /\ StoreOK' /\ PutsOK' /\ dict' \in Seq(DiskKeys)
        /\ (LD!OneWriter' <=> LD!OneWriter) /\ \A j : LD!InDict(j)' <=> LD!InDict(j)
    BY <1>1, ReaderStore
  <2>4. LD!TypeOK' /\ GetsOK' /\ LD!ReadsWhole'
    BY <1>1, <1>2, <1>3, <1>4, <2>3 DEF LD!TypeOK, GetsOK, LD!ReadsWhole
  <2>5. \A i \in DOMAIN prefetch[f].keys : Holds(prefetch'[f], i) <=> Holds(prefetch[f], i)
    BY <1>1, <2>1 DEF Holds
  <2>6. PinsOK'
    BY <1>1, <2>1, <2>3, <2>5, PinsSame
  <2> QED BY <2>2, <2>3, <2>4, <2>6 DEF IInv, OpsOK
<1>5. CASE ~LD!InDict(k) /\ lock' = "lost" /\ LD!PrefetchRaises(f, prefetch[f].done)
  BY <1>1, <1>2, <1>5, RaiseIInv
<1> QED BY <1>1, <1>4, <1>5

\* The places of one that is pinned while it allocates: those before it, then it.
LEMMA PrefetchAllocIInv ==
    ASSUME IInv, NEW f \in disk.prefetches, LD!PrefetchAlloc(f)
    PROVE  IInv'
<1>18. PICK k : k = LD!CurrentKey(f)
  OBVIOUS
<1>19. PICK last \in BOOLEAN : last = LD!LastKey(f)
  BY DEF LD!LastKey
<1>1. /\ prefetch[f].pc = "alloc"
      /\ \/ /\ LD!InDict(k)
            /\ pinCount' = [pinCount EXCEPT ![k] = @ + 1]
            /\ dict' = LD!UpdateOnHit(k)
            /\ lock' = "free"
            /\ prefetch' = [prefetch EXCEPT ![f].pc = IF last THEN "queued" ELSE "next",
                                            ![f].done = IF last THEN 0 ELSE @ + 1]
            /\ UNCHANGED <<leaked, badRead>>
         \/ /\ ~LD!InDict(k) /\ lock' = "lost" /\ LD!PrefetchRaises(f, prefetch[f].done + 1)
            /\ UNCHANGED <<dict, pinCount>>
      /\ UNCHANGED <<disk, file, cacheSize, diskPuts, putting, getting>>
  BY <1>18, <1>19 DEF LD!PrefetchAlloc
<1>2. /\ f \in Prefetches /\ prefetch[f].done \in Nat /\ prefetch[f].done < Len(prefetch[f].keys)
      /\ LD!OneWriter => LD!InDict(k)
      /\ k \in DiskKeys /\ f \in FoundPins(k) /\ Len(prefetch[f].keys) \in Nat
      /\ DOMAIN prefetch[f].keys = 1..Len(prefetch[f].keys)
      /\ k = prefetch[f].keys[prefetch[f].done + 1]
  BY <1>1, <1>18, Current
<1>3. /\ LD!TypeOK /\ GetsOK /\ PutsOK /\ PrefetchesOK /\ LD!ReadsWhole /\ pinCount \in [DiskKeys -> Int]
      /\ dict \in Seq(DiskKeys) /\ StoreOK /\ LD!IsInjective(dict)
  BY Types DEF IInv, OpsOK, StoreOK, SizeCovers
<1>4. CASE /\ LD!InDict(k)
           /\ pinCount' = [pinCount EXCEPT ![k] = @ + 1]
           /\ dict' = LD!UpdateOnHit(k)
           /\ lock' = "free"
           /\ prefetch' = [prefetch EXCEPT ![f].pc = IF last THEN "queued" ELSE "next",
                                           ![f].done = IF last THEN 0 ELSE @ + 1]
           /\ UNCHANGED <<leaked, badRead>>
  <2>1. PICK r \in {"queued", "next"}, n \in Nat :
            /\ r = (IF last THEN "queued" ELSE "next")
            /\ n = (IF last THEN 0 ELSE prefetch[f].done + 1)
    BY <1>2
  <2>2. prefetch' = [prefetch EXCEPT ![f].pc = r, ![f].done = n]
    BY <1>4, <2>1
  <2>3. /\ prefetch'[f].pc = r /\ prefetch'[f].keys = prefetch[f].keys
        /\ prefetch'[f].done = n
        /\ \A h \in Prefetches : h # f => prefetch'[h] = prefetch[h]
        /\ prefetch' \in [Prefetches -> [pc: PrefetchPCs, keys: Seq(DiskKeys), done: Nat]]
    <3>1. r \in PrefetchPCs
      BY <2>1 DEF PrefetchPCs
    <3> QED BY <1>2, <1>3, <2>1, <2>2, <3>1, PrefetchFields
  <2>4. last <=> prefetch[f].done + 1 = Len(prefetch[f].keys)
    BY <1>19 DEF LD!LastKey
  <2>5. PrefetchesOK'
    <3>1. PrefetchOK(prefetch'[f])
      BY <1>2, <2>1, <2>3, <2>4 DEF PrefetchOK
    <3> QED BY <1>1, <1>3, <2>3, <3>1 DEF PrefetchesOK
  <2>6. /\ dict' \in Seq(DiskKeys) /\ LD!IsInjective(dict') /\ Len(dict') = Len(dict)
        /\ \A j : LD!InDict(j)' <=> LD!InDict(j)
    BY <1>2, <1>3, <1>4, DictHit
  <2>7. StoreOK' /\ PutsOK' /\ (LD!OneWriter' <=> LD!OneWriter)
    BY <1>1, <1>3, <2>6, StoreAside DEF PutsOK, LD!OneWriter
  <2>8. pinCount' \in [DiskKeys -> Int] /\ pinCount'[k] = pinCount[k] + 1 /\ pinCount[k] \in Int
        /\ \A j \in DiskKeys : j # k => pinCount'[j] = pinCount[j]
    BY <1>2, <1>3, <1>4
  <2>9. LD!TypeOK' /\ GetsOK' /\ LD!ReadsWhole'
    BY <1>1, <1>2, <1>3, <1>4, <2>6, <2>7, <2>8 DEF LD!TypeOK, GetsOK, LD!ReadsWhole
  <2>10. PICK i : i = prefetch[f].done + 1
    OBVIOUS
  <2>11. \A j \in DOMAIN prefetch[f].keys : Holds(prefetch'[f], j) <=> Holds(prefetch[f], j) \/ j = i
    BY <1>1, <1>2, <2>1, <2>3, <2>4, <2>10 DEF Holds
  <2>12. i \in DOMAIN prefetch[f].keys /\ ~Holds(prefetch[f], i) /\ prefetch[f].keys[i] = k
    BY <1>1, <1>2, <2>10 DEF Holds
  <2>13. /\ i \notin HoldsOf(prefetch[f], k) /\ HoldsOf(prefetch'[f], k) = HoldsOf(prefetch[f], k) \cup {i}
         /\ \A j \in DiskKeys : j # k => HoldsOf(prefetch'[f], j) = HoldsOf(prefetch[f], j)
                                         /\ i \notin HoldsOf(prefetch[f], j)
    BY <2>3, <2>11, <2>12 DEF HoldsOf
  <2>14. \A j : f \in FoundPins(j)' <=> f \in FoundPins(j)
    BY <1>2, <2>3 DEF FoundPins
  <2>15. ASSUME LD!OneWriter, NEW j \in DiskKeys
         PROVE  /\ LD!InDict(j)' <=> LD!InDict(j)
                /\ pinCount'[j] \in Int
                /\ pinCount'[j] >= pinCount[j]
                     + (IF f \in FoundPins(j)' THEN 1 ELSE 0) - (IF f \in FoundPins(j) THEN 1 ELSE 0)
                     + (IF i \in HoldsOf(prefetch'[f], j) THEN 1 ELSE 0)
                     - (IF i \in HoldsOf(prefetch[f], j) THEN 1 ELSE 0)
                /\ f \in FoundPins(j)' \/ i \in HoldsOf(prefetch'[f], j) => LD!InDict(j)
    <3>1. CASE j = k
      BY <1>2, <2>6, <2>8, <2>13, <2>14, <2>15, <3>1
    <3>2. CASE j # k
      <4>1. f \in FoundPins(j) => LD!InDict(j)
        BY <2>15, InUse
      <4>2. pinCount'[j] = pinCount[j] /\ pinCount[j] \in Int
        BY <1>3, <2>8, <3>2
      <4> QED BY <2>6, <2>13, <2>14, <3>2, <4>1, <4>2
    <3> QED BY <3>1, <3>2
  <2>16. PinsOK'
    <3>1. UNCHANGED <<disk, getting>>
      BY <1>1
    <3>2. \A j \in DiskKeys :
              \/ HoldsOf(prefetch'[f], j) = HoldsOf(prefetch[f], j)
              \/ i \notin HoldsOf(prefetch[f], j)
                 /\ HoldsOf(prefetch'[f], j) = HoldsOf(prefetch[f], j) \cup {i}
              \/ i \in HoldsOf(prefetch[f], j)
                 /\ HoldsOf(prefetch'[f], j) = HoldsOf(prefetch[f], j) \ {i}
      BY <2>13
    <3> QED BY <2>3, <2>15, <3>1, <3>2, PinsPrefetch
  <2> QED BY <2>5, <2>7, <2>9, <2>16 DEF IInv, OpsOK
<1>5. CASE /\ ~LD!InDict(k) /\ lock' = "lost" /\ LD!PrefetchRaises(f, prefetch[f].done + 1)
           /\ UNCHANGED <<dict, pinCount>>
  <2>1. prefetch[f].done + 1 \in Nat
    BY <1>2
  <2> QED BY <1>1, <1>2, <1>5, <2>1, RaiseIInv
<1> QED BY <1>1, <1>4, <1>5

\* A thread of the pool takes the job: all its places are pinned.
LEMMA PrefetchStartIInv ==
    ASSUME IInv, NEW f \in disk.prefetches, LD!PrefetchStart(f)
    PROVE  IInv'
<1>1. /\ prefetch[f].pc = "queued"
      /\ prefetch' = [prefetch EXCEPT ![f].pc = "read"]
      /\ UNCHANGED <<disk, dict, pinCount, file, cacheSize, diskPuts, putting, getting, lock, leaked, badRead>>
  BY DEF LD!PrefetchStart, LD!cacheVars
<1>2. /\ LD!TypeOK /\ GetsOK /\ PrefetchesOK /\ LD!ReadsWhole
      /\ f \in Prefetches /\ prefetch[f].done \in Nat /\ prefetch[f].done < Len(prefetch[f].keys)
  BY <1>1, Current DEF IInv, OpsOK
<1>3. /\ prefetch'[f].pc = "read" /\ prefetch'[f].keys = prefetch[f].keys
      /\ prefetch'[f].done = prefetch[f].done
      /\ \A h \in Prefetches : h # f => prefetch'[h] = prefetch[h]
      /\ prefetch' \in [Prefetches -> [pc: PrefetchPCs, keys: Seq(DiskKeys), done: Nat]]
  <2>1. "read" \in PrefetchPCs
    BY DEF PrefetchPCs
  <2> QED BY <1>1, <1>2, <2>1, PrefetchFields
<1>4. PrefetchesOK'
  <2>1. PrefetchOK(prefetch'[f])
    BY <1>2, <1>3 DEF PrefetchOK
  <2> QED BY <1>1, <1>2, <1>3, <2>1 DEF PrefetchesOK
<1>5. /\ StoreOK' /\ PutsOK' /\ dict' \in Seq(DiskKeys)
      /\ (LD!OneWriter' <=> LD!OneWriter) /\ \A j : LD!InDict(j)' <=> LD!InDict(j)
  BY <1>1, ReaderStore
<1>6. LD!TypeOK' /\ GetsOK' /\ LD!ReadsWhole'
  BY <1>1, <1>2, <1>5 DEF LD!TypeOK, GetsOK, LD!ReadsWhole
<1>7. PinsOK'
  <2>1. \A i \in DOMAIN prefetch[f].keys : Holds(prefetch'[f], i) <=> Holds(prefetch[f], i)
    BY <1>1, <1>3 DEF Holds
  <2> QED BY <1>1, <1>3, <1>5, <2>1, PinsSame
<1> QED BY <1>4, <1>5, <1>6, <1>7 DEF IInv, OpsOK

\* The file of the key it is at is there and whole.
LEMMA PrefetchReadIInv ==
    ASSUME IInv, NEW f \in disk.prefetches, LD!PrefetchRead(f)
    PROVE  IInv'
<1>18. PICK k : k = LD!CurrentKey(f)
  OBVIOUS
<1>1. /\ prefetch[f].pc = "read" /\ LD!ReadFile(k)
      /\ prefetch' = [prefetch EXCEPT ![f].pc = "meta"]
      /\ UNCHANGED <<disk, putting, getting, lock, leaked>>
  BY <1>18 DEF LD!PrefetchRead
<1>2. /\ GetsOK /\ PrefetchesOK /\ k \in DiskKeys
      /\ LD!OneWriter => LD!InDict(k)
  BY <1>1, <1>18, Current DEF IInv, OpsOK
<1>3. f \in Prefetches /\ prefetch[f].done \in Nat /\ prefetch[f].done < Len(prefetch[f].keys)
  BY <1>1, Current
<1>4. /\ prefetch'[f].pc = "meta" /\ prefetch'[f].keys = prefetch[f].keys
      /\ prefetch'[f].done = prefetch[f].done
      /\ \A h \in Prefetches : h # f => prefetch'[h] = prefetch[h]
      /\ prefetch' \in [Prefetches -> [pc: PrefetchPCs, keys: Seq(DiskKeys), done: Nat]]
  <2>1. "meta" \in PrefetchPCs
    BY DEF PrefetchPCs
  <2> QED BY <1>1, <1>2, <1>3, <2>1, PrefetchFields
<1>5. PrefetchesOK' /\ GetsOK'
  <2>1. PrefetchOK(prefetch'[f])
    BY <1>3, <1>4 DEF PrefetchOK
  <2> QED BY <1>1, <1>2, <1>4, <2>1 DEF PrefetchesOK, GetsOK
<1>6. /\ LD!TypeOK' /\ PutsOK' /\ StoreOK' /\ LD!ReadsWhole'
      /\ LD!OneWriter' <=> LD!OneWriter
      /\ LD!OneWriter => UNCHANGED <<dict, pinCount>>
  BY <1>1, <1>2, ReadFileOK
<1>7. PinsOK'
  <2>1. \A i \in DOMAIN prefetch[f].keys : Holds(prefetch'[f], i) <=> Holds(prefetch[f], i)
    BY <1>1, <1>4 DEF Holds
  <2>2. LD!OneWriter => UNCHANGED pinCount /\ \A j \in DiskKeys : LD!InDict(j)' <=> LD!InDict(j)
    BY <1>6 DEF LD!InDict
  <2> QED BY <1>1, <1>4, <2>1, <2>2, PinsSame
<1> QED BY <1>5, <1>6, <1>7 DEF IInv, OpsOK

\* So is its metadata, without the lock.
LEMMA PrefetchMetaIInv ==
    ASSUME IInv, NEW f \in disk.prefetches, LD!PrefetchMeta(f)
    PROVE  IInv'
<1>18. PICK k : k = LD!CurrentKey(f)
  OBVIOUS
<1>1. /\ prefetch[f].pc = "meta"
      /\ \/ /\ LD!InDict(k) /\ prefetch' = [prefetch EXCEPT ![f].pc = "unpin"]
            /\ UNCHANGED <<leaked, badRead>>
         \/ ~LD!InDict(k) /\ LD!PrefetchRaises(f, Len(prefetch[f].keys))
      /\ UNCHANGED <<disk, dict, pinCount, file, cacheSize, diskPuts, putting, getting, lock>>
  BY <1>18 DEF LD!PrefetchMeta, LD!PrefetchBuffers, LD!cacheVars
<1>2. /\ f \in Prefetches /\ prefetch[f].done \in Nat /\ prefetch[f].done < Len(prefetch[f].keys)
      /\ Len(prefetch[f].keys) \in Nat
      /\ LD!OneWriter => LD!InDict(k)
  BY <1>1, <1>18, Current
<1>3. LD!TypeOK /\ GetsOK /\ PrefetchesOK /\ LD!ReadsWhole
  BY DEF IInv, OpsOK
<1>4. CASE LD!InDict(k) /\ prefetch' = [prefetch EXCEPT ![f].pc = "unpin"] /\ UNCHANGED <<leaked, badRead>>
  <2>1. /\ prefetch'[f].pc = "unpin" /\ prefetch'[f].keys = prefetch[f].keys
        /\ prefetch'[f].done = prefetch[f].done
        /\ \A h \in Prefetches : h # f => prefetch'[h] = prefetch[h]
        /\ prefetch' \in [Prefetches -> [pc: PrefetchPCs, keys: Seq(DiskKeys), done: Nat]]
    <3>1. "unpin" \in PrefetchPCs
      BY DEF PrefetchPCs
    <3> QED BY <1>2, <1>3, <1>4, <3>1, PrefetchFields
  <2>2. PrefetchesOK'
    <3>1. PrefetchOK(prefetch'[f])
      BY <1>2, <2>1 DEF PrefetchOK
    <3> QED BY <1>1, <1>3, <2>1, <3>1 DEF PrefetchesOK
  <2>3. /\ StoreOK' /\ PutsOK' /\ dict' \in Seq(DiskKeys)
        /\ (LD!OneWriter' <=> LD!OneWriter) /\ \A j : LD!InDict(j)' <=> LD!InDict(j)
    BY <1>1, ReaderStore
  <2>4. LD!TypeOK' /\ GetsOK' /\ LD!ReadsWhole'
    BY <1>1, <1>3, <1>4, <2>3 DEF LD!TypeOK, GetsOK, LD!ReadsWhole
  <2>5. \A i \in DOMAIN prefetch[f].keys : Holds(prefetch'[f], i) <=> Holds(prefetch[f], i)
    BY <1>1, <2>1 DEF Holds
  <2>6. PinsOK'
    BY <1>1, <2>1, <2>3, <2>5, PinsSame
  <2> QED BY <2>2, <2>3, <2>4, <2>6 DEF IInv, OpsOK
<1>5. CASE ~LD!InDict(k) /\ LD!PrefetchRaises(f, Len(prefetch[f].keys))
  BY <1>1, <1>2, <1>5, RaiseIInv
<1> QED BY <1>1, <1>4, <1>5

\* It drops the pin it took on this place; that of its lookup stays.
LEMMA PrefetchUnpinIInv ==
    ASSUME IInv, NEW f \in disk.prefetches, LD!PrefetchUnpin(f)
    PROVE  IInv'
<1>18. PICK k : k = LD!CurrentKey(f)
  OBVIOUS
<1>19. PICK last \in BOOLEAN : last = LD!LastKey(f)
  BY DEF LD!LastKey
<1>1. /\ prefetch[f].pc = "unpin"
      /\ \/ /\ LD!InDict(k)
            /\ pinCount' = [pinCount EXCEPT ![k] = @ - 1]
            /\ prefetch' = [prefetch EXCEPT ![f].pc = IF last THEN "use" ELSE "read",
                                            ![f].done = @ + 1]
            /\ UNCHANGED <<lock, leaked, badRead>>
         \/ /\ ~LD!InDict(k) /\ lock' = "lost" /\ LD!PrefetchRaises(f, Len(prefetch[f].keys))
            /\ UNCHANGED pinCount
      /\ UNCHANGED <<disk, dict, file, cacheSize, diskPuts, putting, getting>>
  BY <1>18, <1>19 DEF LD!PrefetchUnpin, LD!PrefetchBuffers
<1>2. /\ f \in Prefetches /\ prefetch[f].done \in Nat /\ prefetch[f].done < Len(prefetch[f].keys)
      /\ LD!OneWriter => LD!InDict(k)
      /\ k \in DiskKeys /\ f \in FoundPins(k) /\ Len(prefetch[f].keys) \in Nat
      /\ DOMAIN prefetch[f].keys = 1..Len(prefetch[f].keys)
      /\ k = prefetch[f].keys[prefetch[f].done + 1]
  BY <1>1, <1>18, Current
<1>3. /\ LD!TypeOK /\ GetsOK /\ PrefetchesOK /\ LD!ReadsWhole /\ pinCount \in [DiskKeys -> Int]
  BY Types DEF IInv, OpsOK
<1>4. CASE /\ LD!InDict(k)
           /\ pinCount' = [pinCount EXCEPT ![k] = @ - 1]
           /\ prefetch' = [prefetch EXCEPT ![f].pc = IF last THEN "use" ELSE "read",
                                           ![f].done = @ + 1]
           /\ UNCHANGED <<lock, leaked, badRead>>
  <2>1. PICK r \in {"use", "read"}, n \in Nat :
            r = (IF last THEN "use" ELSE "read") /\ n = prefetch[f].done + 1
    BY <1>2
  <2>2. prefetch' = [prefetch EXCEPT ![f].pc = r, ![f].done = n]
    BY <1>4, <2>1
  <2>3. /\ prefetch'[f].pc = r /\ prefetch'[f].keys = prefetch[f].keys
        /\ prefetch'[f].done = n
        /\ \A h \in Prefetches : h # f => prefetch'[h] = prefetch[h]
        /\ prefetch' \in [Prefetches -> [pc: PrefetchPCs, keys: Seq(DiskKeys), done: Nat]]
    <3>1. r \in PrefetchPCs
      BY <2>1 DEF PrefetchPCs
    <3> QED BY <1>2, <1>3, <2>1, <2>2, <3>1, PrefetchFields
  <2>4. last <=> prefetch[f].done + 1 = Len(prefetch[f].keys)
    BY <1>19 DEF LD!LastKey
  <2>5. PrefetchesOK'
    <3>1. PrefetchOK(prefetch'[f])
      BY <1>2, <2>1, <2>3, <2>4 DEF PrefetchOK
    <3> QED BY <1>1, <1>3, <2>3, <3>1 DEF PrefetchesOK
  <2>6. /\ StoreOK' /\ PutsOK' /\ dict' \in Seq(DiskKeys)
        /\ (LD!OneWriter' <=> LD!OneWriter) /\ \A j : LD!InDict(j)' <=> LD!InDict(j)
    BY <1>1, ReaderStore
  <2>8. pinCount' \in [DiskKeys -> Int] /\ pinCount'[k] = pinCount[k] - 1 /\ pinCount[k] \in Int
        /\ \A j \in DiskKeys : j # k => pinCount'[j] = pinCount[j]
    BY <1>2, <1>3, <1>4
  <2>9. LD!TypeOK' /\ GetsOK' /\ LD!ReadsWhole'
    BY <1>1, <1>3, <1>4, <2>6, <2>8 DEF LD!TypeOK, GetsOK, LD!ReadsWhole
  <2>10. PICK i : i = prefetch[f].done + 1
    OBVIOUS
  <2>11. \A j \in DOMAIN prefetch[f].keys : Holds(prefetch'[f], j) <=> Holds(prefetch[f], j) /\ j # i
    BY <1>1, <1>2, <2>1, <2>3, <2>10 DEF Holds
  <2>12. i \in DOMAIN prefetch[f].keys /\ Holds(prefetch[f], i) /\ prefetch[f].keys[i] = k
    BY <1>1, <1>2, <2>10 DEF Holds
  <2>13. /\ i \in HoldsOf(prefetch[f], k) /\ HoldsOf(prefetch'[f], k) = HoldsOf(prefetch[f], k) \ {i}
         /\ \A j \in DiskKeys : j # k => HoldsOf(prefetch'[f], j) = HoldsOf(prefetch[f], j)
                                         /\ i \notin HoldsOf(prefetch[f], j)
    BY <2>3, <2>11, <2>12 DEF HoldsOf
  <2>14. \A j : f \in FoundPins(j)' <=> f \in FoundPins(j)
    BY <1>2, <2>3 DEF FoundPins
  <2>15. ASSUME LD!OneWriter, NEW j \in DiskKeys
         PROVE  /\ LD!InDict(j)' <=> LD!InDict(j)
                /\ pinCount'[j] \in Int
                /\ pinCount'[j] >= pinCount[j]
                     + (IF f \in FoundPins(j)' THEN 1 ELSE 0) - (IF f \in FoundPins(j) THEN 1 ELSE 0)
                     + (IF i \in HoldsOf(prefetch'[f], j) THEN 1 ELSE 0)
                     - (IF i \in HoldsOf(prefetch[f], j) THEN 1 ELSE 0)
                /\ f \in FoundPins(j)' \/ i \in HoldsOf(prefetch'[f], j) => LD!InDict(j)
    <3>1. CASE j = k
      BY <1>2, <2>6, <2>8, <2>13, <2>14, <2>15, <3>1
    <3>2. CASE j # k
      <4>1. f \in FoundPins(j) => LD!InDict(j)
        BY <2>15, InUse
      <4>2. pinCount'[j] = pinCount[j] /\ pinCount[j] \in Int
        BY <1>3, <2>8, <3>2
      <4> QED BY <2>6, <2>13, <2>14, <3>2, <4>1, <4>2
    <3> QED BY <3>1, <3>2
  <2>16. PinsOK'
    <3>1. UNCHANGED <<disk, getting>>
      BY <1>1
    <3>2. \A j \in DiskKeys :
              \/ HoldsOf(prefetch'[f], j) = HoldsOf(prefetch[f], j)
              \/ i \notin HoldsOf(prefetch[f], j)
                 /\ HoldsOf(prefetch'[f], j) = HoldsOf(prefetch[f], j) \cup {i}
              \/ i \in HoldsOf(prefetch[f], j)
                 /\ HoldsOf(prefetch'[f], j) = HoldsOf(prefetch[f], j) \ {i}
      BY <2>13
    <3> QED BY <2>3, <2>15, <3>1, <3>2, PinsPrefetch
  <2> QED BY <2>5, <2>6, <2>9, <2>16 DEF IInv, OpsOK
<1>5. CASE /\ ~LD!InDict(k) /\ lock' = "lost" /\ LD!PrefetchRaises(f, Len(prefetch[f].keys))
           /\ UNCHANGED pinCount
  BY <1>1, <1>2, <1>5, RaiseIInv
<1> QED BY <1>1, <1>4, <1>5

\* Its chunks have been used: the pins of its lookup stay.
LEMMA PrefetchUsedIInv ==
    ASSUME IInv, NEW f \in disk.prefetches, LD!PrefetchUsed(f)
    PROVE  IInv'
<1>1. /\ prefetch[f].pc = "use"
      /\ prefetch' = [prefetch EXCEPT ![f] = LD!IdlePrefetch]
      /\ UNCHANGED <<disk, dict, pinCount, file, cacheSize, diskPuts, putting, getting, lock, leaked, badRead>>
  BY DEF LD!PrefetchUsed, LD!cacheVars
<1>2. /\ LD!TypeOK /\ GetsOK /\ PrefetchesOK /\ LD!ReadsWhole /\ f \in Prefetches
      /\ pinCount \in [DiskKeys -> Int]
  BY Types DEF IInv, OpsOK
<1>3. PrefetchesOK' /\ prefetch'[f] = LD!IdlePrefetch
      /\ \A h \in Prefetches : h # f => prefetch'[h] = prefetch[h]
  BY <1>1, PrefetchEnded
<1>4. /\ StoreOK' /\ PutsOK' /\ dict' \in Seq(DiskKeys)
      /\ (LD!OneWriter' <=> LD!OneWriter) /\ \A j : LD!InDict(j)' <=> LD!InDict(j)
  BY <1>1, ReaderStore
<1>5. LD!TypeOK' /\ GetsOK' /\ LD!ReadsWhole'
  BY <1>1, <1>2, <1>4 DEF LD!TypeOK, GetsOK, LD!ReadsWhole
<1>6. \A j : HoldsOf(prefetch[f], j) = {} /\ HoldsOf(prefetch'[f], j) = {} /\ f \notin FoundPins(j)'
  <2>1. prefetch[f].done = Len(prefetch[f].keys) /\ prefetch[f].keys \in Seq(DiskKeys)
    BY <1>1, <1>2 DEF PrefetchesOK, PrefetchOK
  <2>2. DOMAIN prefetch[f].keys = 1..Len(prefetch[f].keys) /\ Len(prefetch[f].keys) \in Nat
    BY <2>1, LenProperties
  <2>3. \A j : HoldsOf(prefetch[f], j) = {}
    BY <1>1, <2>1, <2>2 DEF HoldsOf, Holds
  <2>4. \A j : HoldsOf(prefetch'[f], j) = {} /\ f \notin FoundPins(j)'
    BY <1>3 DEF HoldsOf, FoundPins, LD!IdlePrefetch, LD!Range
  <2> QED BY <2>3, <2>4
<1>7. PinsOK'
  <2>1. ASSUME NEW j \in DiskKeys
        PROVE  /\ LD!InDict(j)' <=> LD!InDict(j)
               /\ pinCount'[j] \in Int
               /\ pinCount'[j] >= pinCount[j]
                    + (IF f \in FoundPins(j)' THEN 1 ELSE 0) - (IF f \in FoundPins(j) THEN 1 ELSE 0)
                    + (IF 0 \in HoldsOf(prefetch'[f], j) THEN 1 ELSE 0)
                    - (IF 0 \in HoldsOf(prefetch[f], j) THEN 1 ELSE 0)
               /\ f \in FoundPins(j)' \/ 0 \in HoldsOf(prefetch'[f], j) => LD!InDict(j)
    <3>1. pinCount'[j] = pinCount[j] /\ pinCount[j] \in Int
      BY <1>1, <1>2
    <3> QED BY <1>4, <1>6, <3>1
  <2> QED BY <1>1, <1>3, <1>6, <2>1, PinsPrefetch
<1> QED BY <1>3, <1>4, <1>5, <1>7 DEF IInv, OpsOK

\* The hit prefix ends where its definition chooses.
LEMMA HitPrefixAt ==
    ASSUME NEW s
    PROVE  LD!HitPrefix(s) = SubSeq(s, 1, CHOOSE n \in 0..Len(s) :
                                              /\ \A i \in 1..n : LD!InDict(s[i])
                                              /\ n < Len(s) => ~LD!InDict(s[n + 1]))
BY DEF LD!HitPrefix

\* The keys that batched_async_contains finds, up to the first that is missing.
LEMMA HitPrefixIs ==
    ASSUME NEW ks \in Seq(DiskKeys), NEW h, h = LD!HitPrefix(ks)
    PROVE  h \in Seq(DiskKeys) /\ \A k \in LD!Range(h) : LD!InDict(k)
<1> DEFINE OK(n) == (\A i \in 1..n : LD!InDict(ks[i])) /\ (n < Len(ks) => ~LD!InDict(ks[n + 1]))
           T == {n \in 0..Len(ks) : n < Len(ks) => ~LD!InDict(ks[n + 1])}
           N == CHOOSE n \in 0..Len(ks) : OK(n)
<1>1. Len(ks) \in Nat /\ DOMAIN ks = 1..Len(ks) /\ \A i \in 1..Len(ks) : ks[i] \in DiskKeys
  BY LenProperties, ElementOfSeq
<1>2. \E n \in 0..Len(ks) : OK(n)
  <2>1. T \in SUBSET Nat /\ Len(ks) \in T
    BY <1>1
  <2>2. PICK n \in T : \A m \in T : n <= m
    BY <2>1, LeastNat
  <2>3. ASSUME NEW i \in 1..n PROVE LD!InDict(ks[i])
    <3>1. n \in 0..Len(ks) /\ i - 1 \in 0..Len(ks) /\ i - 1 < Len(ks) /\ (i - 1) + 1 = i /\ ~(n <= i - 1)
      BY <1>1, <2>3
    <3>2. i - 1 \notin T
      BY <2>2, <3>1
    <3> QED BY <3>1, <3>2
  <2>4. n \in 0..Len(ks) /\ OK(n)
    BY <2>3
  <2> QED BY <2>4
<1>3. N \in 0..Len(ks) /\ OK(N)
  BY <1>2
<1>4. h = SubSeq(ks, 1, N)
  <2>1. N = CHOOSE n \in 0..Len(ks) : /\ \A i \in 1..n : LD!InDict(ks[i])
                                      /\ n < Len(ks) => ~LD!InDict(ks[n + 1])
    OBVIOUS
  <2> QED BY ONLY <2>1, HitPrefixAt, h = LD!HitPrefix(ks)
<1> HIDE DEF N, T
<1>5. 1 \in Int /\ N \in Int /\ \A i \in 1..N : ks[i] \in DiskKeys
  BY <1>1, <1>3
<1>6. /\ h \in Seq(DiskKeys) /\ Len(h) = IF 1 <= N THEN N - 1 + 1 ELSE 0
      /\ \A i \in 1..N - 1 + 1 : h[i] = ks[1 + i - 1]
  BY ONLY <1>4, <1>5, SubSeqProperties
<1>7. DOMAIN h = 1..N /\ \A i \in 1..N : h[i] = ks[i]
  BY <1>1, <1>3, <1>6, LenProperties
<1>8. \A k \in LD!Range(h) : LD!InDict(k)
  BY <1>3, <1>7 DEF LD!Range
<1> QED BY <1>6, <1>8

\* It pins them all, once each.
LEMMA AsyncContainsIInv ==
    ASSUME IInv, NEW f \in disk.prefetches, NEW ks \in disk.requests, LD!AsyncContains(f, ks)
    PROVE  IInv'
<1>18. PICK hit : hit = LD!HitPrefix(ks)
  OBVIOUS
<1>1. /\ prefetch[f].pc = "idle" /\ hit # <<>>
      /\ pinCount' = [k \in DiskKeys |-> pinCount[k] + (IF k \in LD!Range(hit) THEN 1 ELSE 0)]
      /\ prefetch' = [prefetch EXCEPT ![f] = [pc |-> "get", keys |-> hit, done |-> 0]]
      /\ UNCHANGED <<disk, dict, file, cacheSize, diskPuts, putting, getting, lock, leaked, badRead>>
  BY <1>18 DEF LD!AsyncContains
<1>2. /\ LD!TypeOK /\ GetsOK /\ PrefetchesOK /\ LD!ReadsWhole /\ f \in Prefetches
      /\ pinCount \in [DiskKeys -> Int] /\ ks \in Seq(DiskKeys)
  BY Types DEF IInv, OpsOK
<1>3. hit \in Seq(DiskKeys) /\ \A k \in LD!Range(hit) : LD!InDict(k)
  BY <1>18, <1>2, HitPrefixIs
<1>4. Len(hit) \in Nat /\ 0 < Len(hit) /\ DOMAIN hit = 1..Len(hit)
  BY <1>1, <1>3, LenProperties, EmptySeq
<1>5. /\ prefetch'[f] = [pc |-> "get", keys |-> hit, done |-> 0]
      /\ \A h \in Prefetches : h # f => prefetch'[h] = prefetch[h]
  BY <1>1, <1>2 DEF PrefetchesOK
<1>6. PrefetchesOK'
  <2>1. prefetch' \in [Prefetches -> [pc: PrefetchPCs, keys: Seq(DiskKeys), done: Nat]]
    BY <1>1, <1>2, <1>3 DEF PrefetchesOK, PrefetchPCs
  <2>2. PrefetchOK(prefetch'[f])
    BY <1>4, <1>5 DEF PrefetchOK
  <2> QED BY <1>1, <1>2, <1>5, <2>1, <2>2 DEF PrefetchesOK
<1>7. /\ StoreOK' /\ PutsOK' /\ dict' \in Seq(DiskKeys)
      /\ (LD!OneWriter' <=> LD!OneWriter) /\ \A j : LD!InDict(j)' <=> LD!InDict(j)
  BY <1>1, ReaderStore
<1>8. /\ pinCount' \in [DiskKeys -> Int]
      /\ \A j \in DiskKeys : pinCount'[j] = pinCount[j] + (IF j \in LD!Range(hit) THEN 1 ELSE 0)
  BY <1>1, <1>2
<1>9. LD!TypeOK' /\ GetsOK' /\ LD!ReadsWhole'
  BY <1>1, <1>2, <1>7, <1>8 DEF LD!TypeOK, GetsOK, LD!ReadsWhole
<1>10. \A j : /\ HoldsOf(prefetch[f], j) = {} /\ HoldsOf(prefetch'[f], j) = {}
              /\ f \notin FoundPins(j) /\ (f \in FoundPins(j)' <=> j \in LD!Range(hit))
  <2>1. prefetch[f].keys = <<>>
    BY <1>1, <1>2 DEF PrefetchesOK, PrefetchOK
  <2>2. \A j : HoldsOf(prefetch[f], j) = {} /\ f \notin FoundPins(j)
    BY <2>1 DEF HoldsOf, FoundPins, LD!Range
  <2>3. \A j : HoldsOf(prefetch'[f], j) = {}
    BY <1>4, <1>5 DEF HoldsOf, Holds
  <2>4. \A j : f \in FoundPins(j)' <=> j \in LD!Range(hit)
    BY <1>2, <1>5 DEF FoundPins
  <2> QED BY <2>2, <2>3, <2>4
<1>11. PinsOK'
  <2>1. ASSUME NEW j \in DiskKeys
        PROVE  /\ LD!InDict(j)' <=> LD!InDict(j)
               /\ pinCount'[j] \in Int
               /\ pinCount'[j] >= pinCount[j]
                    + (IF f \in FoundPins(j)' THEN 1 ELSE 0) - (IF f \in FoundPins(j) THEN 1 ELSE 0)
                    + (IF 0 \in HoldsOf(prefetch'[f], j) THEN 1 ELSE 0)
                    - (IF 0 \in HoldsOf(prefetch[f], j) THEN 1 ELSE 0)
               /\ f \in FoundPins(j)' \/ 0 \in HoldsOf(prefetch'[f], j) => LD!InDict(j)
    <3>1. pinCount[j] \in Int
      BY <1>2
    <3>2. CASE j \in LD!Range(hit)
      BY <1>3, <1>7, <1>8, <1>10, <3>1, <3>2
    <3>3. CASE j \notin LD!Range(hit)
      BY <1>7, <1>8, <1>10, <3>1, <3>3
    <3> QED BY <3>2, <3>3
  <2> QED BY <1>1, <1>5, <1>10, <2>1, PinsPrefetch
<1> QED BY <1>6, <1>7, <1>9, <1>11 DEF IInv, OpsOK

-----------------------------------------------------------------------------
(* The theorems. *)

\* Every step keeps the invariant.
LEMMA NextIInv == ASSUME IInv, NotReput, [LD!Next]_LD!vars PROVE IInv'
<1>1. CASE UNCHANGED LD!vars
  <2>1. UNCHANGED <<disk, dict, pinCount, file, cacheSize, diskPuts, putting, getting, prefetch, lock,
                    leaked, badRead>>
    BY <1>1 DEF LD!vars, LD!cacheVars, LD!opVars
  <2>2. LD!TypeOK /\ GetsOK /\ PrefetchesOK /\ LD!ReadsWhole /\ PinsOK
    BY DEF IInv, OpsOK
  <2>3. /\ StoreOK' /\ PutsOK' /\ dict' \in Seq(DiskKeys)
        /\ (LD!OneWriter' <=> LD!OneWriter) /\ \A j : LD!InDict(j)' <=> LD!InDict(j)
    BY <2>1, ReaderStore
  <2>4. LD!TypeOK' /\ GetsOK' /\ PrefetchesOK' /\ LD!ReadsWhole'
    BY <2>1, <2>2, <2>3 DEF LD!TypeOK, GetsOK, PrefetchesOK, LD!ReadsWhole
  <2>5. PinsOK'
    BY <2>1, <2>2, <2>3, PinsAside
  <2> QED BY <2>3, <2>4, <2>5 DEF IInv, OpsOK
<1>2. CASE \E p \in disk.puts, k \in disk.keys : LD!CheckPutTasks(p, k)
  BY <1>2, CheckPutTasksIInv
<1>3. CASE \E p \in disk.puts : \/ LD!InsertPutTask(p) \/ LD!Reserve(p) \/ LD!EvictAndReserve(p)
                                \/ LD!NoCandidates(p) \/ LD!OpenFile(p) \/ LD!WriteFile(p)
                                \/ LD!InsertKey(p) \/ LD!RemovePutTask(p)
  BY <1>3, InsertPutTaskIInv, ReserveIInv, EvictAndReserveIInv, NoCandidatesIInv, OpenFileIInv,
     WriteFileIInv, InsertKeyIInv, RemovePutTaskIInv
<1>4. CASE \E g \in disk.gets : \/ \E k \in disk.keys : LD!ContainsPin(g, k)
                                \/ LD!GetBlocking(g) \/ LD!GetAlloc(g) \/ LD!GetRead(g)
                                \/ LD!GetMeta(g) \/ LD!GetUsed(g) \/ LD!UnpinKey(g)
  BY <1>4, ContainsPinIInv, GetBlockingIInv, GetWaitsIInv, GetReadIInv, GetMetaIInv, UnpinKeyIInv
<1>5. CASE \E f \in disk.prefetches : \/ \E ks \in disk.requests : LD!AsyncContains(f, ks)
                                      \/ LD!PrefetchLock(f) \/ LD!PrefetchAlloc(f)
                                      \/ LD!PrefetchStart(f) \/ LD!PrefetchRead(f)
                                      \/ LD!PrefetchMeta(f) \/ LD!PrefetchUnpin(f)
                                      \/ LD!PrefetchUsed(f)
  BY <1>5, AsyncContainsIInv, PrefetchLockIInv, PrefetchAllocIInv, PrefetchStartIInv,
     PrefetchReadIInv, PrefetchMetaIInv, PrefetchUnpinIInv, PrefetchUsedIInv
<1>6. CASE \E k \in disk.keys : LD!ForceRemove(k)
  BY <1>6, ForceRemoveIInv
<1> QED BY <1>1, <1>2, <1>3, <1>4, <1>5, <1>6 DEF LD!Next

\* The invariant: what is stored and on its way is counted, and with one writer each
\* file that is in the dictionary is whole and each key that is read is pinned.
THEOREM Invariant == LD!Spec /\ NotReput => []IInv
<1> SUFFICES ASSUME NotReput PROVE LD!Spec => []IInv
  OBVIOUS
<1>1. LD!Init => IInv
  BY InitIInv
<1>2. IInv /\ [LD!Next]_LD!vars => IInv'
  BY NextIInv
<1> QED BY <1>1, <1>2, PTL DEF LD!Spec

\* The files are those of keys in the dictionary and of puts on their way, which the
\* budget counts.
LEMMA FilesWithin == ASSUME IInv PROVE LD!DiskBounded
<1> DEFINE F == {k \in DiskKeys : file[k] # "absent"}
           D == {dict[i] : i \in 1..Len(dict)}
           key == [p \in Puts |-> putting[p].key]
           W == {key[p] : p \in OnItsWay}
<1>1. /\ dict \in Seq(DiskKeys) /\ Len(dict) \in Nat /\ cacheSize \in 0..disk.maxCacheSize
      /\ disk.maxCacheSize \in Nat /\ FilesCounted
      /\ cacheSize >= Len(dict) + Cardinality(OnItsWay)
  BY Types DEF IInv, StoreOK, SizeCovers
<1>2. IsFiniteSet(OnItsWay) /\ OnItsWay \subseteq Puts
  <2>1. OnItsWay \subseteq Puts
    BY DEF OnItsWay, LD!PutPhase
  <2> QED BY <2>1, DiskAssumption, FS_Subset
<1>3. IsFiniteSet(1..Len(dict)) /\ Cardinality(1..Len(dict)) = Len(dict)
  <2>1. IsFiniteSet(1..Len(dict))
    BY <1>1, FS_Interval
  <2>2. Cardinality(1..Len(dict)) = IF 1 > Len(dict) THEN 0 ELSE Len(dict) - 1 + 1
    <3>1. 1 \in Int /\ Len(dict) \in Int
      BY <1>1
    <3> QED BY ONLY <3>1, FS_Interval
  <2>3. (IF 1 > Len(dict) THEN 0 ELSE Len(dict) - 1 + 1) = Len(dict)
    BY <1>1
  <2> QED BY ONLY <2>1, <2>2, <2>3
<1>4. IsFiniteSet(D) /\ Cardinality(D) <= Len(dict)
  BY <1>3, ImageSize
<1>5. IsFiniteSet(W) /\ Cardinality(W) <= Cardinality(OnItsWay)
  BY <1>2, ImageSize
<1>6. F \subseteq D \cup W
  <2> SUFFICES ASSUME NEW k \in DiskKeys, file[k] # "absent" PROVE k \in D \cup W
    OBVIOUS
  <2>1. CASE LD!InDict(k)
    BY <1>1, <2>1, LenProperties DEF LD!InDict, LD!Range
  <2>2. CASE \E p \in Puts : putting[p].pc \in {"write", "insert_key"} /\ putting[p].key = k
    <3>1. PICK p \in Puts : putting[p].pc \in {"write", "insert_key"} /\ putting[p].key = k
      BY <2>2
    <3>2. p \in OnItsWay /\ key[p] = k
      BY <3>1 DEF OnItsWay, LD!PutPhase
    <3> QED BY <3>2
  <2> QED BY <1>1, <2>1, <2>2 DEF FilesCounted
<1> HIDE DEF D, W, F
<1>7. /\ IsFiniteSet(D \cup W)
      /\ Cardinality(D \cup W) = Cardinality(D) + Cardinality(W) - Cardinality(D \cap W)
  BY <1>4, <1>5, FS_Union
<1>8. IsFiniteSet(D \cap W) /\ IsFiniteSet(F) /\ Cardinality(F) <= Cardinality(D \cup W)
  <2>1. D \cap W \subseteq D
    OBVIOUS
  <2>2. IsFiniteSet(D \cap W)
    BY <1>4, <2>1, FS_Subset
  <2> QED BY <1>6, <1>7, <2>2, FS_Subset
<1>9. /\ Cardinality(D) \in Nat /\ Cardinality(W) \in Nat /\ Cardinality(D \cap W) \in Nat
      /\ Cardinality(F) \in Nat /\ Cardinality(OnItsWay) \in Nat
  BY <1>2, <1>4, <1>5, <1>8, FS_CardinalityType
<1>10. Cardinality(F) <= disk.maxCacheSize
  <2>1. Cardinality(F) <= Cardinality(D) + Cardinality(W)
    BY <1>7, <1>8, <1>9
  <2>2. Cardinality(D) + Cardinality(W) <= Len(dict) + Cardinality(OnItsWay)
    BY <1>1, <1>4, <1>5, <1>9
  <2> QED BY <1>1, <1>9, <2>1, <2>2
<1>11. F = {k \in DiskKeys : file[k] # "absent"}
  BY DEF F
<1> QED BY ONLY <1>10, <1>11, SameCardinality DEF LD!DiskBounded

\* local_disk_backend.py: current_cache_size is that of what is on disk or on its way
\* there, and the files never exceed max_cache_size.
THEOREM Budget == LD!Spec /\ NotReput => []BudgetKept
<1>1. IInv => BudgetKept
  <2> SUFFICES ASSUME IInv PROVE BudgetKept
    OBVIOUS
  <2>1. LD!BudgetExact
    <3>1. LD!OneWriter => cacheSize = Len(dict) + Cardinality(OnItsWay)
      BY DEF IInv, StoreOK, SizeCovers
    <3> QED BY ONLY <3>1, SameCardinality DEF OnItsWay, LD!BudgetExact
  <2> QED BY <2>1, FilesWithin DEF IInv, OpsOK, BudgetKept, LD!BudgetKept
<1> QED BY <1>1, Invariant, PTL

\* local_disk_backend.py: a hit is backed by its whole file, a pinned chunk is read
\* whole, and the synchronous path gives back every pin.
THEOREM Chunks == LD!Spec /\ NotReput => []ChunksBacked
<1>1. IInv => ChunksBacked
  <2> SUFFICES ASSUME IInv PROVE ChunksBacked
    OBVIOUS
  <2>1. ASSUME LD!OneWriter, disk.prefetches = {}, \A g \in Gets : getting[g].pc = "idle",
               NEW k \in DiskKeys
        PROVE  pinCount[k] = 0
    <3>1. PrefetchesOK /\ PinsOK
      BY DEF IInv, OpsOK
    <3>2. \A f \in Prefetches : prefetch[f].keys = <<>>
      BY <2>1, <3>1 DEF PrefetchesOK, PrefetchOK
    <3>3. GetPins(k) = {} /\ FoundPins(k) = {} /\ LoadPins(k) = {}
      BY <2>1, <3>2 DEF GetPins, FoundPins, LoadPins, HoldsOf, LD!Range
    <3>4. Cardinality({}) = 0
      BY ONLY FS_EmptySet
    <3>5. Uses(k) = 0
      BY <3>3, <3>4 DEF Uses
    <3> QED BY <2>1, <3>1, <3>5 DEF PinsOK, PinsHeld
  <2>2. LD!PinsReturned
    BY <2>1 DEF LD!PinsReturned
  <2> QED BY <2>2 DEF IInv, StoreOK, ChunksBacked, LD!ChunksBacked
<1> QED BY <1>1, Invariant, PTL

-----------------------------------------------------------------------------
(* DirectStorage: the pages of the staging buffer, the descriptors of the    *)
(* static pool, the pins and what is stored.                                 *)

\* Puts that are queued or being written.
Writing == {j \in DS!Jobs : DS!Op(j) = "put" /\ j \in DS!ToSet(queue) \cup flying}

\* References of a job on each of its pages: of the caller of a put, of the backend
\* until the chunk is written, and of the engine that uses what a get returned.
Claim(j) ==
    (IF j \in held THEN 1 ELSE 0) + (IF direct.kind \in DS!SubmitRefs /\ j \in Writing THEN 1 ELSE 0)
    + (IF pc[j] = "use" THEN 1 ELSE 0)
PagesOf(j) == DS!Range(mine[j])
Clean == broken = {} /\ lost = 0

DirectTypes ==
    /\ direct \in DS!ModeType
    /\ DOMAIN page = DS!Pages /\ \A p \in DS!Pages : page[p].ref \in Nat
    /\ pc \in [DS!Jobs -> {"new", "put", "read", "use", "done"}]
    /\ mine \in [DS!Jobs -> UNION {[K -> DS!Pages] : K \in SUBSET DirectKeys}]
    /\ want \in [DS!Jobs -> SUBSET DirectKeys]
    /\ \A j \in DS!Jobs : want[j] \subseteq DS!ToSet(DS!Batch(j))
    /\ held \subseteq DS!Jobs /\ queue \in Seq(DS!Jobs) /\ flying \subseteq DS!Jobs
    /\ DS!IsInjective(queue) /\ DS!ToSet(queue) \cap flying = {}
    /\ wrong \in BOOLEAN /\ reused \in BOOLEAN /\ lost \in Nat /\ broken \subseteq DS!Jobs
    /\ DOMAIN pins = DirectKeys /\ DOMAIN desc = 1..direct.pool

\* What a job holds and where it waits, by its program counter.
JobOK(j) ==
    /\ pc[j] = "put" => DS!Op(j) = "put" /\ DOMAIN mine[j] = DS!KeysOf(j)
    /\ pc[j] \in {"read", "use"} => DS!Op(j) # "put"
    /\ j \in held => pc[j] = "put"
    /\ j \in DS!ToSet(queue) => pc[j] = "put" \/ (pc[j] = "read" /\ DS!Kind("static"))
    /\ j \in flying => pc[j] = "put" /\ ~DS!Kind("static")
    /\ DS!Kind("dynamic") /\ ~direct.async /\ j \in Writing => j \in held
JobsOK == \A j \in DS!Jobs : JobOK(j)

\* Jobs with references have different pages; while nothing has failed these are all
\* the references there are.
PagesOK ==
    /\ \A j \in DS!Jobs : Claim(j) > 0 => \A p \in PagesOf(j) : page[p].ref >= Claim(j)
    /\ \A i, j \in DS!Jobs : i # j /\ Claim(i) > 0 /\ Claim(j) > 0 => PagesOf(i) \cap PagesOf(j) = {}
    /\ Clean => \A j \in DS!Jobs : Claim(j) > 0 => \A p \in PagesOf(j) : page[p].ref = Claim(j)
    /\ Clean => \A p \in DS!Pages : page[p].ref > 0 =>
                    \E j \in DS!Jobs : Claim(j) > 0 /\ p \in PagesOf(j)

\* A page that is still to be written has the content of its key, and so has every
\* object; a metadata file never comes before its data file.
ContentsOK ==
    /\ ~DS!Kind("static") \/ ~reused =>
          \A j \in Writing : \A k \in DS!KeysOf(j) : page[mine[j][k]].has = k
    /\ ~DS!Kind("static") => \A k \in DOMAIN objects : objects[k] = k
    /\ "drop" \notin direct.may => metas \cup saving \subseteq DOMAIN objects

\* Every descriptor is in the pool or has one key, whose content it has.
PoolOK == broken = {} =>
    /\ key_dict \in [DOMAIN key_dict -> 1..direct.pool] /\ DOMAIN key_dict \subseteq DirectKeys
    /\ DS!IsInjective(key_dict)
    /\ pool \cap DS!Range(key_dict) = {} /\ pool \cup DS!Range(key_dict) = 1..direct.pool
    /\ ~reused => \A k \in DOMAIN key_dict : desc[key_dict[k]] = k

\* A key is pinned by the gets that went for it, and a pinned one is not evicted; a
\* key in progress is that of a put on its way.
Pinners(k) == {j \in DS!Jobs : DS!Kind("static") /\ pc[j] \in {"read", "use"} /\ k \in want[j]}
KeysOK == broken = {} =>
    /\ \A k \in DirectKeys : pins[k] = Cardinality(Pinners(k))
    /\ \A k \in DirectKeys : pins[k] > 0 => k \in DOMAIN key_dict
    /\ progress \subseteq UNION {DS!KeysOf(j) : j \in Writing}

DirectInv ==
    /\ DirectTypes /\ JobsOK /\ PagesOK /\ ContentsOK /\ PoolOK /\ KeysOK
    /\ DS!GotRight
-----------------------------------------------------------------------------
(* Places, pages and the queue. *)

\* The finite sets of DirectStorage.
LEMMA DirectCardinality ==
    /\ \A S : DS!IsFiniteSet(S) <=> IsFiniteSet(S)
    /\ \A S : DS!Cardinality(S) = Cardinality(S)
<1>1. \A S : DS!IsFiniteSet(S) <=> IsFiniteSet(S)
  BY DEF DS!IsFiniteSet, IsFiniteSet
<1> QED BY <1>1 DEF DS!Cardinality, Cardinality

\* A set that is large enough has a place for each member of another one.
LEMMA PlacesIs ==
    ASSUME NEW K, NEW S, IsFiniteSet(K), IsFiniteSet(S), Cardinality(K) <= Cardinality(S)
    PROVE  /\ DS!Places(K, S) \in [K -> S]
           /\ \A a, b \in K : DS!Places(K, S)[a] = DS!Places(K, S)[b] => a = b
<1> DEFINE m == Cardinality(K)
           n == Cardinality(S)
<1>1. m \in Nat /\ n \in Nat /\ ExistsBijection(1..m, K) /\ ExistsBijection(1..n, S)
  BY FS_CardinalityType
<1>2. PICK f \in Bijection(1..m, K) : TRUE
  BY <1>1 DEF ExistsBijection
<1>3. PICK g \in Bijection(1..n, S) : TRUE
  BY <1>1 DEF ExistsBijection
<1>4. /\ f \in [1..m -> K] /\ \A k \in K : \E i \in 1..m : f[i] = k
      /\ g \in [1..n -> S] /\ \A x, y \in 1..n : g[x] = g[y] => x = y
  BY <1>2, <1>3 DEF Bijection, Injection, Surjection, IsInjective
<1> DEFINE at == [k \in K |-> CHOOSE i \in 1..m : f[i] = k]
           h == [k \in K |-> g[at[k]]]
<1>5. \A k \in K : at[k] \in 1..m /\ f[at[k]] = k
  BY <1>4
<1> HIDE DEF at
<1>6. \A k \in K : at[k] \in 1..n
  BY <1>1, <1>5
<1>7. h \in [K -> S] /\ \A a, b \in K : h[a] = h[b] => a = b
  BY <1>4, <1>5, <1>6
<1> HIDE DEF h
<1>8. DS!IsInjective(h)
  BY <1>7 DEF DS!IsInjective
<1>9. DS!Places(K, S) \in [K -> S] /\ DS!IsInjective(DS!Places(K, S))
  BY <1>7, <1>8 DEF DS!Places
<1> QED BY <1>9 DEF DS!IsInjective

\* What Alloc gives for keys that fit: a page of its own for each key, which was free,
\* with one reference and the content of the key.
LEMMA AllocIs ==
    ASSUME DirectTypes, NEW content, IsFiniteSet(DOMAIN content),
           Cardinality(DOMAIN content) <= DS!Cardinality(DS!FreePages),
           NEW got, got = DS!Alloc(page, content)
    PROVE  /\ got.pages \in [DOMAIN content -> DS!FreePages]
           /\ \A a, b \in DOMAIN content : got.pages[a] = got.pages[b] => a = b
           /\ DOMAIN got.buf = DS!Pages
           /\ \A p \in DS!Pages : p \notin DS!Range(got.pages) => got.buf[p] = page[p]
           /\ \A k \in DOMAIN content :
                  got.buf[got.pages[k]].ref = 1 /\ got.buf[got.pages[k]].has = content[k]
<1> DEFINE K == DOMAIN content
           ps == DS!Places(K, DS!FreePages)
<1>1. DOMAIN page = DS!Pages /\ IsFiniteSet(DS!FreePages)
  <2>1. direct.pages \in Nat /\ DOMAIN page = DS!Pages
    BY DEF DirectTypes, DS!ModeType, DS!ModeRecord
  <2>2. IsFiniteSet(DS!Pages)
    BY <2>1, FS_Interval DEF DS!Pages
  <2>3. DS!FreePages \in SUBSET DS!Pages
    BY DEF DS!FreePages
  <2> QED BY <2>1, <2>2, <2>3, FS_Subset
<1>2. {p \in DOMAIN page : page[p].ref = 0} = DS!FreePages
  BY <1>1 DEF DS!FreePages
<1>3. ps \in [K -> DS!FreePages] /\ \A a, b \in K : ps[a] = ps[b] => a = b
  BY <1>1, DirectCardinality, PlacesIs
<1>4. /\ got.pages = ps
      /\ got.buf = [p \in DOMAIN page |->
              IF p \in DS!Range(ps)
              THEN [ref |-> 1, has |-> content[CHOOSE k \in DOMAIN ps : ps[k] = p]] ELSE page[p]]
  BY <1>2 DEF DS!Alloc
<1> HIDE DEF ps
<1>5. \A k \in K : ps[k] \in DS!Range(ps) /\ ps[k] \in DS!Pages
  BY <1>3 DEF DS!Range, DS!FreePages
<1>6. ASSUME NEW k \in K PROVE (CHOOSE x \in DOMAIN ps : ps[x] = ps[k]) = k
  <2>1. DOMAIN ps = K
    BY <1>3
  <2> DEFINE x == CHOOSE x \in DOMAIN ps : ps[x] = ps[k]
  <2>2. x \in K /\ ps[x] = ps[k]
    BY <2>1
  <2> HIDE DEF x
  <2>3. x = k
    BY <1>3, <2>2
  <2> QED BY <2>3 DEF x
<1>7. \A k \in K : got.buf[ps[k]] = [ref |-> 1, has |-> content[k]]
  BY <1>1, <1>4, <1>5, <1>6
<1>8. ASSUME NEW k \in K PROVE got.buf[ps[k]].ref = 1 /\ got.buf[ps[k]].has = content[k]
  <2>1. PICK r : r = got.buf[ps[k]]
    OBVIOUS
  <2>2. r = [ref |-> 1, has |-> content[k]]
    BY <1>7, <2>1
  <2>3. r.ref = 1 /\ r.has = content[k]
    BY ONLY <2>2
  <2> QED BY <2>1, <2>3
<1>9. /\ DOMAIN got.buf = DS!Pages
      /\ \A p \in DS!Pages : p \notin DS!Range(ps) => got.buf[p] = page[p]
  BY <1>1, <1>4
<1> QED BY <1>3, <1>4, <1>8, <1>9

\* The first coroutine of the queue starts.
LEMMA QueueTurn ==
    ASSUME DirectTypes, NEW j, DS!Turn(j)
    PROVE  /\ j \in DS!ToSet(queue) /\ j \in DS!Jobs
           /\ queue' \in Seq(DS!Jobs) /\ DS!IsInjective(queue')
           /\ DS!ToSet(queue') = DS!ToSet(queue) \ {j}
<1>1. queue \in Seq(DS!Jobs) /\ queue # <<>> /\ j = Head(queue) /\ queue' = Tail(queue)
  BY DEF DirectTypes, DS!Turn
<1>2. DOMAIN queue = 1..Len(queue) /\ Len(queue) \in Nat /\ Len(queue) > 0
  BY <1>1, LenProperties, EmptySeq
<1>3. /\ queue' \in Seq(DS!Jobs) /\ Len(queue') = Len(queue) - 1
      /\ \A i \in 1..Len(queue') : queue'[i] = queue[i + 1]
  BY <1>1, HeadTailProperties
<1>4. DOMAIN queue' = 1..Len(queue) - 1
  BY <1>3, LenProperties
<1>5. j = queue[1] /\ \A a, b \in DOMAIN queue : queue[a] = queue[b] => a = b
  BY <1>1 DEF DirectTypes, DS!IsInjective
<1>6. j \in DS!ToSet(queue) /\ j \in DS!Jobs
  BY <1>1, <1>2, <1>5 DEF DS!ToSet
<1>7. DS!IsInjective(queue')
  <2> SUFFICES ASSUME NEW a \in 1..Len(queue) - 1, NEW b \in 1..Len(queue) - 1,
                      queue'[a] = queue'[b]
               PROVE  a = b
    BY <1>4 DEF DS!IsInjective
  <2>1. queue[a + 1] = queue[b + 1] /\ a + 1 \in DOMAIN queue /\ b + 1 \in DOMAIN queue
    BY <1>2, <1>3
  <2> QED BY <1>5, <2>1
<1>8. ASSUME NEW x PROVE x \in DS!ToSet(queue') <=> x \in DS!ToSet(queue) /\ x # j
  <2>1. ASSUME NEW i \in 1..Len(queue) - 1, x = queue'[i]
        PROVE  x \in DS!ToSet(queue) /\ x # j
    <3>1. x = queue[i + 1] /\ i + 1 \in DOMAIN queue /\ 1 \in DOMAIN queue /\ i + 1 # 1
      BY <1>2, <1>3, <2>1
    <3> QED BY <1>5, <3>1 DEF DS!ToSet
  <2>2. ASSUME NEW i \in DOMAIN queue, x = queue[i], x # j
        PROVE  x \in DS!ToSet(queue')
    <3>1. i # 1 /\ i - 1 \in 1..Len(queue) - 1
      BY <1>2, <1>5, <2>2
    <3>2. queue'[i - 1] = queue[(i - 1) + 1] /\ (i - 1) + 1 = i
      BY <1>3, <3>1
    <3> QED BY <1>4, <2>2, <3>1, <3>2 DEF DS!ToSet
  <2> QED BY <1>4, <2>1, <2>2 DEF DS!ToSet
<1> QED BY <1>3, <1>6, <1>7, <1>8

\* A coroutine is submitted.
LEMMA QueueAppend ==
    ASSUME DirectTypes, NEW j \in DS!Jobs, j \notin DS!ToSet(queue), queue' = Append(queue, j)
    PROVE  /\ queue' \in Seq(DS!Jobs) /\ DS!IsInjective(queue')
           /\ DS!ToSet(queue') = DS!ToSet(queue) \cup {j}
<1>1. queue \in Seq(DS!Jobs) /\ \A a, b \in DOMAIN queue : queue[a] = queue[b] => a = b
  BY DEF DirectTypes, DS!IsInjective
<1>2. /\ queue' \in Seq(DS!Jobs) /\ Len(queue') = Len(queue) + 1 /\ queue'[Len(queue) + 1] = j
      /\ \A i \in 1..Len(queue) : queue'[i] = queue[i]
  BY <1>1, AppendProperties
<1>3. DOMAIN queue = 1..Len(queue) /\ Len(queue) \in Nat /\ DOMAIN queue' = 1..Len(queue) + 1
  BY <1>1, <1>2, LenProperties
<1>4. \A i \in DOMAIN queue : queue[i] # j
  BY DEF DS!ToSet
<1>5. DS!IsInjective(queue')
  <2> SUFFICES ASSUME NEW a \in 1..Len(queue) + 1, NEW b \in 1..Len(queue) + 1,
                      queue'[a] = queue'[b]
               PROVE  a = b
    BY <1>3 DEF DS!IsInjective
  <2> QED BY <1>1, <1>2, <1>3, <1>4
<1>6. ASSUME NEW x PROVE x \in DS!ToSet(queue') <=> x \in DS!ToSet(queue) \/ x = j
  BY <1>2, <1>3 DEF DS!ToSet
<1> QED BY <1>2, <1>5, <1>6

\* The configuration never changes.
LEMMA DirectSame ==
    ASSUME direct' = direct
    PROVE  /\ DS!Jobs' = DS!Jobs /\ DS!Pages' = DS!Pages
           /\ \A j : DS!Op(j)' = DS!Op(j) /\ DS!Batch(j)' = DS!Batch(j)
           /\ \A k : DS!Kind(k)' <=> DS!Kind(k)
BY DEF DS!Jobs, DS!Pages, DS!Op, DS!Batch, DS!Kind

\* The keys of a batch.
LEMMA BatchIs ==
    ASSUME DirectTypes, NEW j \in DS!Jobs
    PROVE  /\ DS!ToSet(DS!Batch(j)) \subseteq DirectKeys /\ IsFiniteSet(DS!ToSet(DS!Batch(j)))
           /\ DS!Op(j) \in {"put", "get"} /\ DS!KeysOf(j) \subseteq DirectKeys
           /\ IsFiniteSet(DS!KeysOf(j)) /\ IsFiniteSet(want[j])
           /\ DS!Batch(j) \in Seq(DirectKeys)
<1>1. direct.jobs \in Seq([op : {"put", "get"}, keys : DS!Batches]) /\ j \in DOMAIN direct.jobs
  <2>1. direct.jobs \in Seq([op : {"put", "get"}, keys : DS!Batches])
    BY DEF DirectTypes, DS!ModeType, DS!ModeRecord
  <2> QED BY <2>1, LenProperties DEF DS!Jobs
<1>2. direct.jobs[j] \in [op : {"put", "get"}, keys : DS!Batches]
  BY <1>1, ElementOfSeq, LenProperties
<1>3. DS!Batch(j) \in Seq(DirectKeys) /\ DS!Op(j) \in {"put", "get"}
  BY <1>2 DEF DS!Batch, DS!Op, DS!Batches
<1> DEFINE b == DS!Batch(j)
           n == Len(b)
<1>4. DOMAIN b = 1..n /\ n \in Nat /\ \A i \in 1..n : b[i] \in DirectKeys
  BY <1>3, LenProperties, ElementOfSeq
<1>5. IsFiniteSet(1..n)
  BY <1>4, FS_Interval
<1>6. IsFiniteSet(DS!ToSet(b)) /\ DS!ToSet(b) \subseteq DirectKeys
  <2>1. DS!ToSet(b) = {b[i] : i \in 1..n}
    BY <1>4 DEF DS!ToSet
  <2> HIDE DEF b, n
  <2> QED BY <1>4, <1>5, <2>1, ImageSize
<1>7. want[j] \in SUBSET DS!ToSet(b) /\ want[j] \subseteq DirectKeys
  BY DEF DirectTypes
<1>8. IsFiniteSet(want[j])
  BY <1>6, <1>7, FS_Subset
<1> QED BY <1>3, <1>6, <1>7, <1>8 DEF DS!KeysOf

-----------------------------------------------------------------------------
(* References: what a step does to them, by what it does to one job. *)

\* Claims are counted.
LEMMA ClaimIs == \A j : Claim(j) \in 0..3 /\ Claim(j)' \in 0..3
<1>1. \A j : Claim(j) \in 0..3
  BY DEF Claim
<1>2. \A j : Claim(j)' \in 0..3
  BY DEF Claim
<1> QED BY <1>1, <1>2

\* No job is given pages or gives them up.
LEMMA PagesSame ==
    ASSUME DirectTypes, PagesOK, direct' = direct, mine' = mine,
           \A p \in DS!Pages : page'[p].ref = page[p].ref,
           \A i \in DS!Jobs : Claim(i)' = Claim(i), Clean' => Clean
    PROVE  PagesOK'
<1>1. DS!Jobs' = DS!Jobs /\ DS!Pages' = DS!Pages /\ \A i : PagesOf(i)' = PagesOf(i)
  BY DirectSame DEF PagesOf
<1>2. \A i \in DS!Jobs : PagesOf(i) \subseteq DS!Pages
  BY DEF DirectTypes, PagesOf, DS!Range
<1> QED BY <1>1, <1>2 DEF PagesOK

\* A job without pages takes some that were free.
LEMMA PagesTaken ==
    ASSUME DirectTypes, PagesOK, direct' = direct, NEW j \in DS!Jobs, Claim(j) = 0,
           NEW ps, NEW K, ps \in [K -> DS!FreePages], mine' = [mine EXCEPT ![j] = ps],
           \A p \in DS!Pages : p \notin DS!Range(ps) => page'[p].ref = page[p].ref,
           \A p \in DS!Range(ps) : page'[p].ref = Claim(j)',
           \A i \in DS!Jobs : i # j => Claim(i)' = Claim(i), Clean' => Clean
    PROVE  PagesOK'
<1>1. DS!Jobs' = DS!Jobs /\ DS!Pages' = DS!Pages
  BY DirectSame
<1>2. /\ \A i \in DS!Jobs : i # j => PagesOf(i)' = PagesOf(i)
      /\ PagesOf(j)' = DS!Range(ps)
  BY DEF DirectTypes, PagesOf
<1>3. DS!Range(ps) \subseteq DS!Pages /\ \A p \in DS!Range(ps) : page[p].ref = 0
  BY DEF DS!Range, DS!FreePages
<1>4. \A i \in DS!Jobs : PagesOf(i) \subseteq DS!Pages
  BY DEF DirectTypes, PagesOf, DS!Range
<1>5. \A i : Claim(i) \in 0..3 /\ Claim(i)' \in 0..3
  BY ClaimIs
<1>6. \A p \in DS!Pages : page[p].ref \in Nat
  BY DEF DirectTypes
<1>7. \A i \in DS!Jobs : Claim(i) > 0 => \A p \in PagesOf(i) : page[p].ref >= Claim(i)
  BY DEF PagesOK
<1>8. \A i \in DS!Jobs : Claim(i) > 0 => PagesOf(i) \cap DS!Range(ps) = {}
  BY <1>3, <1>4, <1>5, <1>6, <1>7
<1>9. \A i \in DS!Jobs : Claim(i)' > 0 => \A p \in PagesOf(i)' : page'[p].ref >= Claim(i)'
  <2> SUFFICES ASSUME NEW i \in DS!Jobs, Claim(i)' > 0, NEW p \in PagesOf(i)'
               PROVE  page'[p].ref >= Claim(i)'
    OBVIOUS
  <2>1. CASE i = j
    BY <1>2, <1>5, <2>1
  <2>2. CASE i # j
    BY <1>2, <1>4, <1>7, <1>8, <2>2
  <2> QED BY <2>1, <2>2
<1>10. ASSUME NEW i \in DS!Jobs, NEW h \in DS!Jobs, i # h, Claim(i)' > 0, Claim(h)' > 0
       PROVE  PagesOf(i)' \cap PagesOf(h)' = {}
  <2>1. CASE i # j /\ h # j
    BY <1>2, <1>10, <2>1 DEF PagesOK
  <2>2. CASE i = j \/ h = j
    BY <1>2, <1>8, <1>10, <2>2
  <2> QED BY <2>1, <2>2
<1>11. ASSUME Clean', NEW i \in DS!Jobs, Claim(i)' > 0, NEW p \in PagesOf(i)'
       PROVE  page'[p].ref = Claim(i)'
  <2>1. CASE i = j
    BY <1>2, <1>11, <2>1
  <2>2. CASE i # j
    <3>1. page[p].ref = Claim(i)
      BY <1>2, <1>11, <2>2 DEF PagesOK
    <3>2. p \in DS!Pages /\ p \notin DS!Range(ps)
      BY <1>2, <1>4, <1>8, <1>11, <2>2
    <3> QED BY <2>2, <3>1, <3>2
  <2> QED BY <2>1, <2>2
<1>12. ASSUME Clean', NEW p \in DS!Pages, page'[p].ref > 0
       PROVE  \E i \in DS!Jobs : Claim(i)' > 0 /\ p \in PagesOf(i)'
  <2>1. CASE p \in DS!Range(ps)
    <3>1. Claim(j)' > 0
      BY <1>12, <2>1
    <3> QED BY <1>2, <2>1, <3>1
  <2>2. CASE p \notin DS!Range(ps)
    <3>1. PICK i \in DS!Jobs : Claim(i) > 0 /\ p \in PagesOf(i)
      BY <1>12, <2>2 DEF PagesOK
    <3> QED BY <1>2, <3>1
  <2> QED BY <2>1, <2>2
<1> QED BY <1>1, <1>9, <1>10, <1>11, <1>12 DEF PagesOK

\* A job drops one of its references.
LEMMA PagesDropped ==
    ASSUME DirectTypes, PagesOK, direct' = direct, mine' = mine, NEW j \in DS!Jobs, Claim(j) > 0,
           Claim(j)' = Claim(j) - 1, page' = DS!RefDown(page, mine[j]),
           \A i \in DS!Jobs : i # j => Claim(i)' = Claim(i), Clean' => Clean
    PROVE  PagesOK' /\ \A p \in DS!Pages : page'[p].ref \in Nat
<1>1. DS!Jobs' = DS!Jobs /\ DS!Pages' = DS!Pages /\ \A i : PagesOf(i)' = PagesOf(i)
  BY DirectSame DEF PagesOf
<1>2. \A i \in DS!Jobs : PagesOf(i) \subseteq DS!Pages
  BY DEF DirectTypes, PagesOf, DS!Range
<1>3. \A i : Claim(i) \in 0..3 /\ Claim(i)' \in 0..3
  BY ClaimIs
<1>4. \A p \in DS!Pages : page[p].ref \in Nat
  BY DEF DirectTypes
<1>5. \A p \in DS!Pages : page'[p].ref = IF p \in PagesOf(j) THEN page[p].ref - 1 ELSE page[p].ref
  BY DEF DirectTypes, PagesOf, DS!RefDown
<1>6. \A i \in DS!Jobs : Claim(i) > 0 => \A p \in PagesOf(i) : page[p].ref >= Claim(i)
  BY DEF PagesOK
<1>7. \A i \in DS!Jobs : i # j /\ Claim(i) > 0 => PagesOf(i) \cap PagesOf(j) = {}
  BY DEF PagesOK
<1>8. \A i \in DS!Jobs : Claim(i)' > 0 => \A p \in PagesOf(i)' : page'[p].ref >= Claim(i)'
  <2> SUFFICES ASSUME NEW i \in DS!Jobs, Claim(i)' > 0, NEW p \in PagesOf(i)
               PROVE  page'[p].ref >= Claim(i)'
    BY <1>1
  <2>0. p \in DS!Pages
    BY <1>2
  <2>1. CASE i = j
    BY <1>3, <1>4, <1>5, <1>6, <2>0, <2>1
  <2>2. CASE i # j
    BY <1>5, <1>6, <1>7, <2>0, <2>2
  <2> QED BY <2>1, <2>2
<1>9. ASSUME NEW i \in DS!Jobs, NEW h \in DS!Jobs, i # h, Claim(i)' > 0, Claim(h)' > 0
      PROVE  PagesOf(i)' \cap PagesOf(h)' = {}
  <2>1. Claim(i) > 0 /\ Claim(h) > 0
    BY <1>3, <1>9
  <2> QED BY <1>1, <1>9, <2>1 DEF PagesOK
<1>10. ASSUME Clean', NEW i \in DS!Jobs, Claim(i)' > 0, NEW p \in PagesOf(i)
       PROVE  page'[p].ref = Claim(i)'
  <2>1. Claim(i) > 0
    BY <1>3, <1>10
  <2>2. page[p].ref = Claim(i) /\ p \in DS!Pages
    BY <1>2, <1>10, <2>1 DEF PagesOK
  <2> QED BY <1>3, <1>5, <1>7, <1>10, <2>1, <2>2
<1>11. ASSUME Clean', NEW p \in DS!Pages, page'[p].ref > 0
       PROVE  \E i \in DS!Jobs : Claim(i)' > 0 /\ p \in PagesOf(i)
  <2>1. page[p].ref > 0
    BY <1>4, <1>5, <1>11
  <2>2. PICK i \in DS!Jobs : Claim(i) > 0 /\ p \in PagesOf(i)
    BY <1>11, <2>1 DEF PagesOK
  <2>3. page[p].ref = Claim(i)
    BY <1>11, <2>2 DEF PagesOK
  <2>4. Claim(i)' > 0
    BY <1>3, <1>5, <1>11, <2>2, <2>3
  <2> QED BY <2>2, <2>4
<1>12. \A p \in DS!Pages : page'[p].ref \in Nat
  BY <1>3, <1>4, <1>5, <1>6
<1> QED BY <1>1, <1>8, <1>9, <1>10, <1>11, <1>12 DEF PagesOK

\* References are lost: those of a job that fails stay behind.
LEMMA PagesLost ==
    ASSUME DirectTypes, PagesOK, direct' = direct, ~Clean',
           \A p \in DS!Pages : page'[p].ref \in Nat /\ page'[p].ref >= page[p].ref,
           \A i \in DS!Jobs :
               PagesOf(i)' = {} \/ (PagesOf(i)' = PagesOf(i) /\ Claim(i)' <= Claim(i))
    PROVE  PagesOK'
<1>1. DS!Jobs' = DS!Jobs /\ DS!Pages' = DS!Pages
  BY DirectSame
<1>2. \A i \in DS!Jobs : PagesOf(i) \subseteq DS!Pages
  BY DEF DirectTypes, PagesOf, DS!Range
<1>3. \A i : Claim(i) \in 0..3 /\ Claim(i)' \in 0..3
  BY ClaimIs
<1>4. \A p \in DS!Pages : page[p].ref \in Nat
  BY DEF DirectTypes
<1>5. ASSUME NEW i \in DS!Jobs, Claim(i)' > 0, NEW p \in PagesOf(i)'
      PROVE  page'[p].ref >= Claim(i)'
  <2>1. PagesOf(i)' = PagesOf(i) /\ Claim(i) > 0 /\ Claim(i)' <= Claim(i)
    BY <1>3, <1>5
  <2>2. page[p].ref >= Claim(i) /\ p \in DS!Pages
    BY <1>2, <1>5, <2>1 DEF PagesOK
  <2> QED BY <1>3, <1>4, <2>1, <2>2
<1>6. ASSUME NEW i \in DS!Jobs, NEW h \in DS!Jobs, i # h, Claim(i)' > 0, Claim(h)' > 0
      PROVE  PagesOf(i)' \cap PagesOf(h)' = {}
  <2>1. CASE PagesOf(i)' = {} \/ PagesOf(h)' = {}
    BY <2>1
  <2>2. CASE PagesOf(i)' # {} /\ PagesOf(h)' # {}
    <3>1. /\ PagesOf(i)' = PagesOf(i) /\ PagesOf(h)' = PagesOf(h)
          /\ Claim(i)' <= Claim(i) /\ Claim(h)' <= Claim(h)
      BY <2>2
    <3>2. Claim(i) > 0 /\ Claim(h) > 0
      BY <1>3, <1>6, <3>1
    <3> QED BY <1>6, <3>1, <3>2 DEF PagesOK
  <2> QED BY <2>1, <2>2
<1> QED BY <1>1, <1>5, <1>6 DEF PagesOK

-----------------------------------------------------------------------------
(* Steps of one job: what they leave as it is. *)

\* The configuration and the other jobs stay as they are.
Alone(j) ==
    /\ direct' = direct
    /\ \A i \in DS!Jobs : i # j =>
          /\ pc'[i] = pc[i] /\ mine'[i] = mine[i] /\ want'[i] = want[i]
          /\ (i \in held' <=> i \in held) /\ (i \in flying' <=> i \in flying)
          /\ (i \in DS!ToSet(queue') <=> i \in DS!ToSet(queue))

LEMMA AloneJobs ==
    ASSUME DirectTypes, JobsOK, NEW j \in DS!Jobs, Alone(j), JobOK(j)'
    PROVE  /\ JobsOK'
           /\ \A i \in DS!Jobs : i # j =>
                 /\ Claim(i)' = Claim(i) /\ (i \in Writing' <=> i \in Writing)
                 /\ DS!KeysOf(i)' = DS!KeysOf(i)
<1>1. /\ DS!Jobs' = DS!Jobs /\ \A i : DS!Op(i)' = DS!Op(i) /\ DS!Batch(i)' = DS!Batch(i)
      /\ \A k : DS!Kind(k)' <=> DS!Kind(k)
  BY DirectSame DEF Alone
<1>2. \A i \in DS!Jobs : i # j => (i \in Writing' <=> i \in Writing)
  BY <1>1 DEF Alone, Writing
<1>3. \A i \in DS!Jobs : i # j => DS!KeysOf(i)' = DS!KeysOf(i)
  BY <1>1 DEF Alone, DS!KeysOf
<1>4. \A i \in DS!Jobs : i # j => Claim(i)' = Claim(i)
  <2>1. direct' = direct /\ DS!SubmitRefs' = DS!SubmitRefs
    BY DEF Alone, DS!SubmitRefs
  <2> QED BY <1>2, <2>1 DEF Alone, Claim
<1>5. ASSUME NEW i \in DS!Jobs, i # j PROVE JobOK(i)'
  <2>1. JobOK(i) /\ direct' = direct
    BY DEF JobsOK, Alone
  <2> QED BY <1>1, <1>2, <1>3, <1>5, <2>1 DEF JobOK, Alone
<1> QED BY <1>1, <1>2, <1>3, <1>4, <1>5 DEF JobsOK

\* The pool and the dictionary of the static backend stay as they are.
LEMMA PoolSame ==
    ASSUME PoolOK, direct' = direct, UNCHANGED <<key_dict, pool, desc>>,
           broken' = {} => broken = {}, reused => reused'
    PROVE  PoolOK'
BY DEF PoolOK

\* So do the pins, and what is in progress shrinks no faster than what is written.
LEMMA KeysSame ==
    ASSUME KeysOK, direct' = direct, UNCHANGED <<key_dict, pins>>,
           \A k \in DirectKeys : Pinners(k)' = Pinners(k), broken' = {} => broken = {},
           broken' = {} => progress' \subseteq UNION {DS!KeysOf(i)' : i \in Writing'}
    PROVE  KeysOK'
BY DEF KeysOK

\* A step of one job leaves what the others write.
LEMMA WritingSame ==
    ASSUME DirectTypes, JobsOK, ContentsOK, NEW j \in DS!Jobs, Alone(j), JobOK(j)', reused => reused',
           ~DS!Kind("static") \/ ~reused' =>
               /\ j \in Writing' => \A k \in DS!KeysOf(j)' : page'[mine'[j][k]].has = k
               /\ \A i \in Writing : i # j => \A p \in PagesOf(i) : page'[p].has = page[p].has
    PROVE  ~DS!Kind("static") \/ ~reused' =>
               \A i \in Writing' : \A k \in DS!KeysOf(i)' : page'[mine'[i][k]].has = k
<1>1. direct' = direct /\ \A k : DS!Kind(k)' <=> DS!Kind(k)
  BY DirectSame DEF Alone
<1>2. \A i \in DS!Jobs : i # j =>
          (i \in Writing' <=> i \in Writing) /\ DS!KeysOf(i)' = DS!KeysOf(i)
  BY AloneJobs
<1>3. ASSUME ~DS!Kind("static") \/ ~reused', NEW i \in Writing', NEW k \in DS!KeysOf(i)'
      PROVE  page'[mine'[i][k]].has = k
  <2>1. CASE i = j
    BY <1>3, <2>1
  <2>2. CASE i # j
    <3>0. i \in DS!Jobs
      BY <1>1, DirectSame DEF Writing
    <3>1. i \in Writing /\ k \in DS!KeysOf(i) /\ mine'[i] = mine[i]
      BY <1>2, <1>3, <2>2, <3>0 DEF Alone
    <3>2. page[mine[i][k]].has = k
      BY <1>3, <3>1 DEF ContentsOK
    <3>3. DOMAIN mine[i] = DS!KeysOf(i)
      BY <3>0, <3>1 DEF JobsOK, JobOK, Writing
    <3>4. mine[i][k] \in PagesOf(i)
      BY <3>1, <3>3 DEF PagesOf, DS!Range
    <3> QED BY <1>3, <2>2, <3>1, <3>2, <3>4
  <2> QED BY <2>1, <2>2
<1> QED BY <1>3

\* A step of one job leaves the objects and the files.
LEMMA ContentsSame ==
    ASSUME DirectTypes, JobsOK, ContentsOK, NEW j \in DS!Jobs, Alone(j), JobOK(j)', reused => reused',
           UNCHANGED <<objects, metas, saving>>,
           ~DS!Kind("static") \/ ~reused' =>
               /\ j \in Writing' => \A k \in DS!KeysOf(j)' : page'[mine'[j][k]].has = k
               /\ \A i \in Writing : i # j => \A p \in PagesOf(i) : page'[p].has = page[p].has
    PROVE  ContentsOK'
<1>1. direct' = direct /\ \A k : DS!Kind(k)' <=> DS!Kind(k)
  BY DirectSame DEF Alone
<1> QED BY <1>1, WritingSame DEF ContentsOK

\* The pages that are given out are not those of a chunk that is still to be written;
\* those of the static pool may be, and then it is noted.
LEMMA WrittenKept ==
    ASSUME DirectTypes, JobsOK, PagesOK, NEW K, NEW ps \in [K -> DS!FreePages],
           ~DS!Kind("static") \/ ~DS!Reuses(ps), NEW i \in Writing
    PROVE  PagesOf(i) \cap DS!Range(ps) = {}
<1>1. i \in DS!Jobs /\ DS!Op(i) = "put" /\ i \in DS!ToSet(queue) \cup flying /\ JobOK(i)
  BY DEF Writing, JobsOK
<1>2. CASE DS!Kind("static")
  BY <1>1, <1>2 DEF JobOK, DS!Reuses, PagesOf
<1>3. CASE ~DS!Kind("static")
  <2>1. direct.kind \in {"static", "dynamic", "gds"} /\ direct.async \in BOOLEAN
    BY DEF DirectTypes, DS!ModeType, DS!ModeRecord
  <2>2. i \in held \/ direct.kind \in DS!SubmitRefs
    BY <1>1, <1>3, <2>1 DEF JobOK, DS!Kind, DS!SubmitRefs
  <2>3. Claim(i) > 0
    BY <2>2 DEF Claim
  <2>4. Claim(i) \in 0..3
    BY ClaimIs
  <2>5. \A p \in PagesOf(i) : p \in DS!Pages /\ page[p].ref > 0
    BY <1>1, <2>3, <2>4 DEF DirectTypes, PagesOf, DS!Range, PagesOK
  <2>6. \A p \in DS!Range(ps) : page[p].ref = 0
    BY DEF DS!Range, DS!FreePages
  <2> QED BY <2>5, <2>6
<1> QED BY <1>2, <1>3


\* The gets that pin a key can be counted.
LEMMA PinnersCount ==
    ASSUME DirectTypes
    PROVE  \A k : IsFiniteSet(Pinners(k)) /\ Cardinality(Pinners(k)) \in Nat
<1>1. IsFiniteSet(DS!Jobs)
  <2>1. direct.jobs \in Seq([op : {"put", "get"}, keys : DS!Batches])
    BY DEF DirectTypes, DS!ModeType, DS!ModeRecord
  <2>2. Len(direct.jobs) \in Nat
    BY <2>1, LenProperties
  <2> QED BY <2>2, FS_Interval DEF DS!Jobs
<1>2. \A k : Pinners(k) \in SUBSET DS!Jobs
  BY DEF Pinners
<1> QED BY <1>1, <1>2, FS_Subset, FS_CardinalityType
\* A put that finds no page, and one that is through, end.
LEMMA EndsInv ==
    ASSUME DirectInv, NEW j \in DS!Jobs, DS!NoPage(j) \/ DS!PutEnds(j) PROVE DirectInv'
<1>1. DirectTypes /\ JobsOK /\ PagesOK /\ ContentsOK /\ PoolOK /\ KeysOK /\ DS!GotRight /\ JobOK(j)
  BY DEF DirectInv, JobsOK
<1>2. /\ pc[j] \in {"new", "put"} /\ j \notin held /\ j \notin DS!ToSet(queue) /\ j \notin flying
      /\ pc' = [pc EXCEPT ![j] = "done"]
      /\ UNCHANGED <<direct, page, mine, want, held, queue, flying, progress, key_dict, pins,
                     pool, desc, objects, metas, saving, presence, hot, wrong, reused, broken,
                     lost, restarts>>
  BY <1>1 DEF JobOK, DS!NoPage, DS!PutEnds, DS!Set, DS!static, DS!files, DS!history
<1>3. /\ DS!Jobs' = DS!Jobs /\ DS!Pages' = DS!Pages /\ \A i : DS!Op(i)' = DS!Op(i) /\ DS!Batch(i)' = DS!Batch(i)
      /\ \A k : DS!Kind(k)' <=> DS!Kind(k)
  BY <1>2, DirectSame
<1>4. DirectTypes'
  BY <1>1, <1>2, <1>3 DEF DirectTypes
<1>5. pc'[j] = "done" /\ Alone(j)
  BY <1>1, <1>2 DEF Alone, DirectTypes
<1>6. j \notin Writing /\ j \notin Writing' /\ Claim(j) = 0 /\ Claim(j)' = 0
  BY <1>1, <1>2, <1>3, <1>5 DEF JobOK, Writing, Claim
<1>7. JobOK(j)'
  BY <1>1, <1>2, <1>3, <1>5, <1>6 DEF JobOK
<1>8. /\ JobsOK' /\ Writing' = Writing /\ \A i \in DS!Jobs : DS!KeysOf(i)' = DS!KeysOf(i)
      /\ \A i \in DS!Jobs : Claim(i)' = Claim(i)
  <2>1. DS!KeysOf(j)' = DS!KeysOf(j)
    BY <1>2, <1>3 DEF DS!KeysOf
  <2>2. Writing \subseteq DS!Jobs /\ Writing' \subseteq DS!Jobs
    BY <1>3 DEF Writing
  <2> QED BY <1>1, <1>5, <1>6, <1>7, <2>1, <2>2, AloneJobs
<1>9. PagesOK'
  BY <1>1, <1>2, <1>8, PagesSame DEF Clean
<1>10. ContentsOK'
  BY <1>1, <1>2, <1>5, <1>6, <1>7, ContentsSame
<1>11. PoolOK'
  BY <1>1, <1>2, PoolSame
<1>12. KeysOK'
  <2>1. \A k : Pinners(k)' = Pinners(k)
    BY <1>2, <1>3, <1>5 DEF Pinners, Alone
  <2>2. \A i \in Writing : DS!KeysOf(i)' = DS!KeysOf(i)
    BY <1>8 DEF Writing
  <2> QED BY <1>1, <1>2, <1>8, <2>1, <2>2, KeysSame DEF KeysOK
<1>13. DS!GotRight'
  BY <1>1, <1>2, <1>3 DEF DS!GotRight
<1> QED BY <1>4, <1>8, <1>9, <1>10, <1>11, <1>12, <1>13 DEF DirectInv

\* A coroutine starts its transfer or its thread.
LEMMA StartWriteInv == ASSUME DirectInv, NEW j \in DS!Jobs, DS!StartWrite(j) PROVE DirectInv'
<1>1. DirectTypes /\ JobsOK /\ PagesOK /\ ContentsOK /\ PoolOK /\ KeysOK /\ DS!GotRight /\ JobOK(j)
  BY DEF DirectInv, JobsOK
<1>2. /\ DS!Turn(j) /\ ~DS!Kind("static") /\ flying' = flying \cup {j}
      /\ UNCHANGED <<direct, page, pc, mine, want, held, progress, key_dict, pins, pool, desc,
                     objects, metas, saving, presence, hot, wrong, reused, broken, lost, restarts>>
  BY DEF DS!StartWrite, DS!static, DS!files, DS!history
<1>3. /\ DS!Jobs' = DS!Jobs /\ DS!Pages' = DS!Pages /\ \A i : DS!Op(i)' = DS!Op(i) /\ DS!Batch(i)' = DS!Batch(i)
      /\ \A k : DS!Kind(k)' <=> DS!Kind(k)
  BY <1>2, DirectSame
<1>4. /\ j \in DS!ToSet(queue) /\ queue' \in Seq(DS!Jobs) /\ DS!IsInjective(queue')
      /\ DS!ToSet(queue') = DS!ToSet(queue) \ {j}
  BY <1>1, <1>2, QueueTurn
<1>5. DirectTypes' /\ Alone(j)
  <2>1. DirectTypes'
    BY <1>1, <1>2, <1>3, <1>4 DEF DirectTypes
  <2> QED BY <1>2, <1>4, <2>1 DEF Alone
<1>6. Writing' = Writing /\ j \in Writing /\ pc[j] = "put"
  <2>1. pc[j] = "put" /\ DS!Op(j) = "put"
    BY <1>1, <1>2, <1>4 DEF JobOK
  <2> QED BY <1>2, <1>3, <1>4, <2>1 DEF Writing
<1>7. DS!KeysOf(j)' = DS!KeysOf(j) /\ Claim(j)' = Claim(j)
  BY <1>2, <1>3, <1>6 DEF DS!KeysOf, Claim, DS!SubmitRefs
<1>8. JobOK(j)'
  BY <1>1, <1>2, <1>3, <1>4, <1>6, <1>7 DEF JobOK
<1>9. /\ JobsOK' /\ \A i \in DS!Jobs : DS!KeysOf(i)' = DS!KeysOf(i) /\ Claim(i)' = Claim(i)
  BY <1>1, <1>5, <1>7, <1>8, AloneJobs
<1>10. PagesOK'
  BY <1>1, <1>2, <1>9, PagesSame DEF Clean
<1>11. ContentsOK'
  <2>1. ~reused \/ ~DS!Kind("static") => \A k \in DS!KeysOf(j)' : page[mine[j][k]].has = k
    BY <1>1, <1>6, <1>7 DEF ContentsOK
  <2> QED BY <1>1, <1>2, <1>5, <1>8, <2>1, ContentsSame
<1>12. PoolOK'
  BY <1>1, <1>2, PoolSame
<1>13. KeysOK'
  <2>1. \A k : Pinners(k)' = Pinners(k)
    BY <1>2, <1>3 DEF Pinners
  <2>2. \A i \in Writing : DS!KeysOf(i)' = DS!KeysOf(i)
    BY <1>9 DEF Writing
  <2> QED BY <1>1, <1>2, <1>6, <2>1, <2>2, KeysSame DEF KeysOK
<1>14. DS!GotRight'
  BY <1>1, <1>2, <1>3 DEF DS!GotRight
<1> QED BY <1>5, <1>9, <1>10, <1>11, <1>12, <1>13, <1>14 DEF DirectInv

\* The engine drops its references on the chunks of a put.
LEMMA ReleaseInv == ASSUME DirectInv, NEW j \in DS!Jobs, DS!Release(j) PROVE DirectInv'
<1>1. DirectTypes /\ JobsOK /\ PagesOK /\ ContentsOK /\ PoolOK /\ KeysOK /\ DS!GotRight /\ JobOK(j)
  BY DEF DirectInv, JobsOK
<1>2. /\ pc[j] = "put" /\ j \in held /\ ~DS!Waits(j) /\ held' = held \ {j}
      /\ UNCHANGED <<direct, pc, mine, want, queue, flying, progress, key_dict, pins, pool, desc,
                     objects, metas, saving, presence, hot, wrong, reused, broken, restarts>>
      /\ \/ /\ DS!Kind("dynamic") /\ ~direct.async /\ j \in broken
            /\ lost' = lost + DS!Cardinality(DS!KeysOf(j)) /\ page' = page
         \/ page' = DS!RefDown(page, mine[j]) /\ lost' = lost
  BY DEF DS!Release, DS!static, DS!files
<1>3. /\ DS!Jobs' = DS!Jobs /\ DS!Pages' = DS!Pages /\ \A i : DS!Op(i)' = DS!Op(i) /\ DS!Batch(i)' = DS!Batch(i)
      /\ \A k : DS!Kind(k)' <=> DS!Kind(k)
  BY <1>2, DirectSame
<1>4. Alone(j) /\ Writing' = Writing /\ DS!KeysOf(j)' = DS!KeysOf(j)
  BY <1>2, <1>3 DEF Alone, Writing, DS!KeysOf
<1>5. JobOK(j)'
  <2>1. DS!Kind("dynamic") /\ ~direct.async => j \notin Writing
    BY <1>2 DEF DS!Waits, Writing
  <2> QED BY <1>1, <1>2, <1>3, <1>4, <2>1 DEF JobOK
<1>6. /\ JobsOK' /\ \A i \in DS!Jobs : DS!KeysOf(i)' = DS!KeysOf(i)
      /\ \A i \in DS!Jobs : i # j => Claim(i)' = Claim(i)
  BY <1>1, <1>4, <1>5, AloneJobs
<1>7. Claim(j) > 0 /\ Claim(j)' = Claim(j) - 1
  BY <1>2, <1>4 DEF Claim, DS!SubmitRefs
<1>8. lost' \in Nat /\ DOMAIN page' = DS!Pages
  <2>1. DS!Cardinality(DS!KeysOf(j)) \in Nat
    BY <1>1, BatchIs, DirectCardinality, FS_CardinalityType
  <2> QED BY <1>1, <1>2, <2>1 DEF DirectTypes, DS!RefDown
<1>9. PagesOK' /\ \A p \in DS!Pages : page'[p].ref \in Nat
  <2>1. CASE page' = page /\ j \in broken
    <3>1. ~Clean'
      BY <1>2, <2>1 DEF Clean
    <3>2. \A i \in DS!Jobs : PagesOf(i)' = PagesOf(i) /\ Claim(i)' <= Claim(i)
      <4>1. \A i : Claim(i) \in 0..3
        BY ClaimIs
      <4> QED BY <1>2, <1>6, <1>7, <4>1 DEF PagesOf
    <3>3. \A p \in DS!Pages : page'[p].ref \in Nat /\ page'[p].ref >= page[p].ref
      BY <1>1, <2>1 DEF DirectTypes
    <3> QED BY <1>1, <1>2, <3>1, <3>2, <3>3, PagesLost
  <2>2. CASE page' = DS!RefDown(page, mine[j]) /\ lost' = lost
    <3>1. Clean' => Clean
      BY <1>2, <2>2 DEF Clean
    <3> QED BY <1>1, <1>2, <1>6, <1>7, <2>2, <3>1, PagesDropped
  <2> QED BY <1>2, <2>1, <2>2
<1>10. DirectTypes'
  BY <1>1, <1>2, <1>3, <1>8, <1>9 DEF DirectTypes
<1>11. ContentsOK'
  <2>1. \A p \in DS!Pages : page'[p].has = page[p].has
    BY <1>1, <1>2 DEF DirectTypes, DS!RefDown
  <2>2. \A i \in DS!Jobs : PagesOf(i) \subseteq DS!Pages
    BY <1>1 DEF DirectTypes, PagesOf, DS!Range
  <2>3. ASSUME j \in Writing, ~DS!Kind("static") \/ ~reused, NEW k \in DS!KeysOf(j)
        PROVE  page'[mine'[j][k]].has = k
    <3>1. page[mine[j][k]].has = k /\ mine[j][k] \in PagesOf(j)
      BY <1>1, <1>2, <2>3 DEF ContentsOK, JobOK, PagesOf, DS!Range
    <3> QED BY <1>2, <2>1, <2>2, <3>1
  <2>4. \A i \in Writing : \A p \in PagesOf(i) : page'[p].has = page[p].has
    BY <2>1, <2>2 DEF Writing
  <2> QED BY <1>1, <1>2, <1>4, <1>5, <2>3, <2>4, ContentsSame
<1>12. PoolOK'
  BY <1>1, <1>2, PoolSame
<1>13. KeysOK'
  <2>1. \A k : Pinners(k)' = Pinners(k)
    BY <1>2, <1>3 DEF Pinners
  <2>2. \A i \in Writing : DS!KeysOf(i)' = DS!KeysOf(i)
    BY <1>6 DEF Writing
  <2> QED BY <1>1, <1>2, <1>4, <2>1, <2>2, KeysSame DEF KeysOK
<1>14. DS!GotRight'
  BY <1>1, <1>2, <1>3 DEF DS!GotRight
<1> QED BY <1>6, <1>9, <1>10, <1>11, <1>12, <1>13, <1>14 DEF DirectInv

\* A chunk is written and its key published.
LEMMA EndWriteInv == ASSUME DirectInv, NEW j \in DS!Jobs, DS!EndWrite(j) PROVE DirectInv'
<1>1. DirectTypes /\ JobsOK /\ PagesOK /\ ContentsOK /\ PoolOK /\ KeysOK /\ DS!GotRight /\ JobOK(j)
  BY DEF DirectInv, JobsOK
<1>2. /\ j \in flying /\ flying' = flying \ {j} /\ objects' = DS!Written(j)
      /\ progress' = progress \ DS!KeysOf(j)
      /\ metas' = metas /\ (saving' = saving \cup DS!KeysOf(j) \/ saving' = saving)
      /\ page' = IF direct.kind \in DS!SubmitRefs THEN DS!RefDown(page, mine[j]) ELSE page
      /\ UNCHANGED <<direct, pc, mine, want, held, queue, key_dict, pins, pool, desc, wrong,
                     reused, broken, lost, restarts>>
  BY DEF DS!EndWrite, DS!static, DS!history
<1>3. /\ DS!Jobs' = DS!Jobs /\ DS!Pages' = DS!Pages /\ \A i : DS!Op(i)' = DS!Op(i) /\ DS!Batch(i)' = DS!Batch(i)
      /\ \A k : DS!Kind(k)' <=> DS!Kind(k)
  BY <1>2, DirectSame
<1>4. /\ pc[j] = "put" /\ ~DS!Kind("static") /\ DS!Op(j) = "put" /\ j \notin DS!ToSet(queue)
      /\ j \in Writing /\ Writing' = Writing \ {j} /\ DOMAIN mine[j] = DS!KeysOf(j)
  <2>1. /\ pc[j] = "put" /\ ~DS!Kind("static") /\ DS!Op(j) = "put" /\ j \notin DS!ToSet(queue)
        /\ DOMAIN mine[j] = DS!KeysOf(j)
    BY <1>1, <1>2 DEF JobOK, DirectTypes
  <2> QED BY <1>2, <1>3, <2>1 DEF Writing
<1>5. Alone(j) /\ DS!KeysOf(j)' = DS!KeysOf(j)
  BY <1>2, <1>3 DEF Alone, DS!KeysOf
<1>6. JobOK(j)'
  BY <1>1, <1>2, <1>3, <1>4, <1>5 DEF JobOK
<1>7. /\ JobsOK' /\ \A i \in DS!Jobs : DS!KeysOf(i)' = DS!KeysOf(i)
      /\ \A i \in DS!Jobs : i # j => Claim(i)' = Claim(i)
  BY <1>1, <1>5, <1>6, AloneJobs
<1>8. PagesOK' /\ \A p \in DS!Pages : page'[p].ref \in Nat
  <2>1. CASE direct.kind \in DS!SubmitRefs
    <3>1. Claim(j) > 0 /\ Claim(j)' = Claim(j) - 1
      BY <1>2, <1>4, <2>1 DEF Claim, DS!SubmitRefs
    <3> QED BY <1>1, <1>2, <1>7, <2>1, <3>1, PagesDropped DEF Clean
  <2>2. CASE direct.kind \notin DS!SubmitRefs
    <3>1. Claim(j)' = Claim(j)
      BY <1>2, <2>2 DEF Claim, DS!SubmitRefs
    <3>2. PagesOK'
      BY <1>1, <1>2, <1>7, <2>2, <3>1, PagesSame DEF Clean
    <3> QED BY <1>1, <1>2, <2>2, <3>2 DEF DirectTypes
  <2> QED BY <2>1, <2>2
<1>9. DOMAIN page' = DS!Pages /\ \A p \in DS!Pages : page'[p].has = page[p].has
  BY <1>1, <1>2 DEF DirectTypes, DS!RefDown
<1>10. DirectTypes'
  BY <1>1, <1>2, <1>3, <1>8, <1>9 DEF DirectTypes
<1>11. ContentsOK'
  <2>1. \A i \in Writing : \A p \in PagesOf(i) : page'[p].has = page[p].has
    BY <1>1, <1>9 DEF DirectTypes, PagesOf, DS!Range, Writing
  <2>2. \A i \in Writing' : \A k \in DS!KeysOf(i)' : page'[mine'[i][k]].has = k
    BY <1>1, <1>2, <1>4, <1>5, <1>6, <2>1, WritingSame
  <2>3. \A k \in DS!KeysOf(j) : page[mine[j][k]].has = k
    BY <1>1, <1>4 DEF ContentsOK
  <2>4. /\ DOMAIN objects' = DOMAIN objects \cup DS!KeysOf(j)
        /\ \A k \in DOMAIN objects' : objects'[k] = IF k \in DS!KeysOf(j)
                                                     THEN page[mine[j][k]].has ELSE objects[k]
    BY <1>2, <1>4 DEF DS!Written, DS!Contents
  <2>5. \A k \in DOMAIN objects' : objects'[k] = k
    BY <1>1, <1>4, <2>3, <2>4 DEF ContentsOK
  <2>6. "drop" \notin direct.may => (metas \cup saving)' \subseteq DOMAIN objects'
    BY <1>1, <1>2, <2>4 DEF ContentsOK
  <2> QED BY <1>2, <2>2, <2>5, <2>6 DEF ContentsOK
<1>12. PoolOK'
  BY <1>1, <1>2, PoolSame
<1>13. KeysOK'
  <2>1. \A k : Pinners(k)' = Pinners(k)
    BY <1>2, <1>3 DEF Pinners
  <2>2. \A i \in Writing : DS!KeysOf(i)' = DS!KeysOf(i)
    BY <1>7 DEF Writing
  <2> QED BY <1>1, <1>2, <1>4, <2>1, <2>2, KeysSame DEF KeysOK
<1>14. DS!GotRight'
  BY <1>1, <1>2, <1>3, <1>11 DEF DS!GotRight, ContentsOK
<1> QED BY <1>7, <1>8, <1>10, <1>11, <1>12, <1>13, <1>14 DEF DirectInv

\* A transfer fails.
LEMMA FailWriteInv == ASSUME DirectInv, NEW j \in DS!Jobs, DS!FailWrite(j) PROVE DirectInv'
<1>1. DirectTypes /\ JobsOK /\ PagesOK /\ ContentsOK /\ PoolOK /\ KeysOK /\ DS!GotRight /\ JobOK(j)
  BY DEF DirectInv, JobsOK
<1>2. /\ j \in flying /\ flying' = flying \ {j} /\ broken' = broken \cup {j}
      /\ UNCHANGED <<direct, pc, mine, want, held, queue, progress, key_dict, pins, pool, desc,
                     objects, metas, saving, presence, hot, wrong, reused, restarts>>
      /\ \/ /\ DS!Kind("dynamic") /\ direct.async /\ lost' = lost
            /\ page' = DS!RefDown(page, mine[j])
         \/ page' = page /\ lost' \in {lost, lost + DS!Cardinality(DS!KeysOf(j))}
  BY DEF DS!FailWrite, DS!static, DS!files
<1>3. /\ DS!Jobs' = DS!Jobs /\ DS!Pages' = DS!Pages /\ \A i : DS!Op(i)' = DS!Op(i) /\ DS!Batch(i)' = DS!Batch(i)
      /\ \A k : DS!Kind(k)' <=> DS!Kind(k)
  BY <1>2, DirectSame
<1>4. /\ pc[j] = "put" /\ ~DS!Kind("static") /\ DS!Op(j) = "put" /\ j \notin DS!ToSet(queue)
      /\ j \in Writing /\ Writing' = Writing \ {j}
  <2>1. pc[j] = "put" /\ ~DS!Kind("static") /\ DS!Op(j) = "put" /\ j \notin DS!ToSet(queue)
    BY <1>1, <1>2 DEF JobOK, DirectTypes
  <2> QED BY <1>2, <1>3, <2>1 DEF Writing
<1>5. Alone(j) /\ DS!KeysOf(j)' = DS!KeysOf(j)
  BY <1>2, <1>3 DEF Alone, DS!KeysOf
<1>6. JobOK(j)'
  BY <1>1, <1>2, <1>3, <1>4, <1>5 DEF JobOK
<1>7. /\ JobsOK' /\ \A i \in DS!Jobs : DS!KeysOf(i)' = DS!KeysOf(i)
      /\ \A i \in DS!Jobs : i # j => Claim(i)' = Claim(i)
  BY <1>1, <1>5, <1>6, AloneJobs
<1>8. PagesOK' /\ \A p \in DS!Pages : page'[p].ref \in Nat
  <2>0. ~Clean'
    BY <1>2 DEF Clean
  <2>1. CASE DS!Kind("dynamic") /\ direct.async /\ page' = DS!RefDown(page, mine[j])
    <3>1. direct.kind \in DS!SubmitRefs
      BY <2>1 DEF DS!SubmitRefs, DS!Kind
    <3>2. Claim(j) > 0 /\ Claim(j)' = Claim(j) - 1
      BY <1>2, <1>4, <3>1 DEF Claim, DS!SubmitRefs
    <3> QED BY <1>1, <1>2, <1>7, <2>0, <2>1, <3>2, PagesDropped
  <2>2. CASE page' = page
    <3>1. Claim(j)' <= Claim(j)
      BY <1>2, <1>4 DEF Claim, DS!SubmitRefs
    <3>2. \A i \in DS!Jobs : PagesOf(i)' = PagesOf(i) /\ Claim(i)' <= Claim(i)
      <4>1. \A i : Claim(i) \in 0..3
        BY ClaimIs
      <4> QED BY <1>2, <1>7, <3>1, <4>1 DEF PagesOf
    <3>3. \A p \in DS!Pages : page'[p].ref \in Nat /\ page'[p].ref >= page[p].ref
      BY <1>1, <2>2 DEF DirectTypes
    <3> QED BY <1>1, <1>2, <2>0, <3>2, <3>3, PagesLost
  <2> QED BY <1>2, <2>1, <2>2
<1>9. /\ DOMAIN page' = DS!Pages /\ \A p \in DS!Pages : page'[p].has = page[p].has
      /\ lost' \in Nat
  <2>1. DS!Cardinality(DS!KeysOf(j)) \in Nat
    BY <1>1, BatchIs, DirectCardinality, FS_CardinalityType
  <2> QED BY <1>1, <1>2, <2>1 DEF DirectTypes, DS!RefDown
<1>10. DirectTypes'
  BY <1>1, <1>2, <1>3, <1>8, <1>9 DEF DirectTypes
<1>11. ContentsOK'
  <2>1. \A i \in Writing : \A p \in PagesOf(i) : page'[p].has = page[p].has
    BY <1>1, <1>9 DEF DirectTypes, PagesOf, DS!Range, Writing
  <2> QED BY <1>1, <1>2, <1>4, <1>5, <1>6, <2>1, ContentsSame
<1>12. PoolOK' /\ KeysOK'
  BY <1>2 DEF PoolOK, KeysOK
<1>13. DS!GotRight'
  BY <1>1, <1>2, <1>3 DEF DS!GotRight
<1> QED BY <1>7, <1>8, <1>10, <1>11, <1>12, <1>13 DEF DirectInv

\* The victims of an eviction are stored and not pinned.
LEMMA VictimsIs ==
    ASSUME NEW n, NEW v \in DS!Victims(n)
    PROVE  v \subseteq {k \in DOMAIN key_dict : pins[k] <= 0}
BY DEF DS!Victims, DS!kSubset

\* Their descriptors go back to the pool.
LEMMA RemoveKeysInv ==
    ASSUME DirectTypes, PoolOK, broken = {}, broken' = {}, direct' = direct, desc' = desc,
           reused => reused', NEW v, v \subseteq DOMAIN key_dict, DS!RemoveKeys(v)
    PROVE  /\ PoolOK' /\ DOMAIN key_dict' = DOMAIN key_dict \ v
<1>1. /\ key_dict \in [DOMAIN key_dict -> 1..direct.pool] /\ DOMAIN key_dict \subseteq DirectKeys
      /\ \A a, b \in DOMAIN key_dict : key_dict[a] = key_dict[b] => a = b
      /\ pool \cap DS!Range(key_dict) = {} /\ pool \cup DS!Range(key_dict) = 1..direct.pool
      /\ ~reused => \A k \in DOMAIN key_dict : desc[key_dict[k]] = k
  BY DEF PoolOK, DS!IsInjective
<1> DEFINE D == DOMAIN key_dict \ v
<1>2. /\ key_dict' = [k \in D |-> key_dict[k]] /\ pool' = pool \cup {key_dict[k] : k \in v}
  BY DEF DS!RemoveKeys, DS!Restrict
<1>3. DOMAIN key_dict' = D /\ \A k \in D : key_dict'[k] = key_dict[k]
  BY <1>2
<1>4. DS!IsInjective(key_dict') /\ key_dict' \in [D -> 1..direct.pool] /\ D \subseteq DirectKeys
  BY <1>1, <1>2, <1>3 DEF DS!IsInjective
<1>5. DS!Range(key_dict') = {key_dict[k] : k \in D}
  BY <1>3 DEF DS!Range
<1>6. pool' \cap DS!Range(key_dict') = {}
  BY <1>1, <1>2, <1>5 DEF DS!Range
<1>7. pool' \cup DS!Range(key_dict') = 1..direct.pool
  BY <1>1, <1>2, <1>5 DEF DS!Range
<1>8. ~reused' => \A k \in D : desc'[key_dict'[k]] = k
  BY <1>1, <1>3
<1> QED BY <1>3, <1>4, <1>6, <1>7, <1>8 DEF PoolOK

LEMMA SubmitPutInv == ASSUME DirectInv, NEW j \in DS!Jobs, DS!SubmitPut(j) PROVE DirectInv'
<1>1. DirectTypes /\ JobsOK /\ PagesOK /\ ContentsOK /\ PoolOK /\ KeysOK /\ DS!GotRight /\ JobOK(j)
  BY DEF DirectInv, JobsOK
<1> DEFINE K == DS!KeysOf(j)
           ones == [k \in K |-> k]
<1>2. PICK got : got = DS!Alloc(page, ones)
  OBVIOUS
<1>3. /\ pc[j] = "new" /\ DS!Op(j) = "put" /\ DS!Cardinality(DS!FreePages) >= DS!Cardinality(K)
      /\ pc' = [pc EXCEPT ![j] = "put"] /\ mine' = [mine EXCEPT ![j] = got.pages]
      /\ held' = held \cup {j} /\ reused' = (reused \/ DS!Reuses(got.pages))
      /\ page' = IF direct.kind \in DS!SubmitRefs THEN DS!RefUp(got.buf, got.pages) ELSE got.buf
      /\ UNCHANGED <<direct, want, flying, pins, desc, objects, metas, saving, presence, hot,
                     wrong, broken, lost, restarts>>
  BY <1>2 DEF DS!SubmitPut, DS!Set, DS!files
<1>4. \/ queue' = queue /\ progress' = progress /\ DS!Kind("static")
      \/ queue' = Append(queue, j) /\ progress' = progress \cup K
  BY DEF DS!SubmitPut
<1>5. \/ DS!Kind("static") /\ \E v \in DS!Victims(DS!Cardinality(K)) : DS!RemoveKeys(v)
      \/ UNCHANGED <<key_dict, pool>>
  BY DEF DS!SubmitPut
<1>6. /\ DS!Jobs' = DS!Jobs /\ DS!Pages' = DS!Pages /\ \A i : DS!Op(i)' = DS!Op(i) /\ DS!Batch(i)' = DS!Batch(i)
      /\ \A k : DS!Kind(k)' <=> DS!Kind(k)
  BY <1>3, DirectSame
<1>7. IsFiniteSet(K) /\ K \subseteq DirectKeys /\ DS!KeysOf(j)' = K
  <2>1. DS!KeysOf(j)' = K
    BY <1>3, <1>6 DEF DS!KeysOf
  <2> QED BY <1>1, <2>1, BatchIs
<1>8. /\ got.pages \in [K -> DS!FreePages]
      /\ DOMAIN got.buf = DS!Pages
      /\ \A p \in DS!Pages : p \notin DS!Range(got.pages) => got.buf[p] = page[p]
      /\ \A k \in K : got.buf[got.pages[k]].ref = 1 /\ got.buf[got.pages[k]].has = k
  <2>1. DOMAIN ones = K /\ \A k \in K : ones[k] = k
    OBVIOUS
  <2> HIDE DEF ones, K
  <2>2. Cardinality(DOMAIN ones) <= DS!Cardinality(DS!FreePages)
    <3>1. DS!Cardinality(K) = Cardinality(K) /\ Cardinality(K) \in Nat
      BY <1>7, DirectCardinality, FS_CardinalityType
    <3>2. DS!Cardinality(DS!FreePages) \in Nat
      <4>1. direct.pages \in Nat
        BY <1>1 DEF DirectTypes, DS!ModeType, DS!ModeRecord
      <4>2. IsFiniteSet(DS!Pages)
        BY <4>1, FS_Interval DEF DS!Pages
      <4>3. DS!FreePages \in SUBSET DS!Pages
        BY DEF DS!FreePages
      <4> QED BY <4>2, <4>3, FS_Subset, FS_CardinalityType, DirectCardinality
    <3> QED BY <1>3, <2>1, <3>1, <3>2
  <2> QED BY <1>1, <1>2, <1>7, <2>1, <2>2, AllocIs
<1> HIDE DEF K, ones
<1>9. DS!Range(got.pages) \subseteq DS!Pages
  BY <1>8 DEF DS!Range, DS!FreePages
<1>10. /\ DOMAIN page' = DS!Pages
       /\ \A p \in DS!Pages : p \notin DS!Range(got.pages) => page'[p] = page[p]
       /\ \A k \in K : /\ page'[got.pages[k]].has = k
                       /\ page'[got.pages[k]].ref = IF direct.kind \in DS!SubmitRefs THEN 2 ELSE 1
  <2>1. \A k \in K : got.pages[k] \in DS!Range(got.pages) /\ got.pages[k] \in DS!Pages
    BY <1>8 DEF DS!Range, DS!FreePages
  <2> QED BY <1>3, <1>8, <2>1 DEF DS!RefUp
<1>11. \A p \in DS!Range(got.pages) :
           page'[p].ref = IF direct.kind \in DS!SubmitRefs THEN 2 ELSE 1
  BY <1>8, <1>10 DEF DS!Range
<1>12. j \notin held /\ j \notin DS!ToSet(queue) /\ j \notin flying /\ j \notin Writing /\ Claim(j) = 0
  BY <1>1, <1>3 DEF JobOK, Writing, Claim
<1>13. /\ queue' \in Seq(DS!Jobs) /\ DS!IsInjective(queue')
       /\ DS!ToSet(queue') = DS!ToSet(queue) \/ DS!ToSet(queue') = DS!ToSet(queue) \cup {j}
       /\ ~DS!Kind("static") => DS!ToSet(queue') = DS!ToSet(queue) \cup {j}
  BY <1>1, <1>4, <1>12, QueueAppend DEF DirectTypes
<1>14. pc'[j] = "put" /\ mine'[j] = got.pages /\ Alone(j)
  BY <1>1, <1>3, <1>13 DEF Alone, DirectTypes
<1>15. DirectTypes'
  <2>1. got.pages \in [K -> DS!Pages]
    BY <1>8 DEF DS!FreePages
  <2>2. mine' \in [DS!Jobs -> UNION {[X -> DS!Pages] : X \in SUBSET DirectKeys}]
    <3>1. got.pages \in UNION {[X -> DS!Pages] : X \in SUBSET DirectKeys}
      BY <1>7, <2>1
    <3>2. mine \in [DS!Jobs -> UNION {[X -> DS!Pages] : X \in SUBSET DirectKeys}]
      BY <1>1 DEF DirectTypes
    <3> DEFINE U == UNION {[X -> DS!Pages] : X \in SUBSET DirectKeys}
    <3> HIDE DEF U
    <3> QED BY <1>3, <3>1, <3>2 DEF U
  <2>3. \A p \in DS!Pages : page'[p].ref \in Nat
    BY <1>1, <1>10, <1>11 DEF DirectTypes
  <2>4. DS!ToSet(queue') \cap flying = {}
    BY <1>1, <1>12, <1>13 DEF DirectTypes
  <2> QED BY <1>1, <1>3, <1>6, <1>10, <1>13, <2>2, <2>3, <2>4 DEF DirectTypes
<1>16. JobOK(j)'
  <2>1. DOMAIN mine'[j] = K
    BY <1>8, <1>14
  <2> QED BY <1>3, <1>6, <1>7, <1>12, <1>14, <2>1 DEF JobOK
<1>17. /\ JobsOK'
       /\ \A i \in DS!Jobs : i # j => /\ Claim(i)' = Claim(i) /\ (i \in Writing' <=> i \in Writing)
                                      /\ DS!KeysOf(i)' = DS!KeysOf(i)
  BY <1>1, <1>14, <1>16, AloneJobs
<1>18. PagesOK'
  <2>1. Claim(j)' = IF direct.kind \in DS!SubmitRefs THEN 2 ELSE 1
    <3>1. direct.kind \in DS!SubmitRefs => ~DS!Kind("static")
      BY DEF DS!SubmitRefs, DS!Kind
    <3>2. direct.kind \in DS!SubmitRefs => j \in Writing'
      BY <1>3, <1>6, <1>13, <3>1 DEF Writing
    <3> QED BY <1>3, <1>14, <3>2 DEF Claim, DS!SubmitRefs
  <2>2. \A p \in DS!Range(got.pages) : page'[p].ref = Claim(j)'
    BY <1>11, <2>1
  <2>3. \A p \in DS!Pages : p \notin DS!Range(got.pages) => page'[p].ref = page[p].ref
    BY <1>10
  <2>4. (\A i \in DS!Jobs : i # j => Claim(i)' = Claim(i)) /\ (Clean' => Clean)
    BY <1>3, <1>17 DEF Clean
  <2>5. DirectTypes /\ PagesOK /\ direct' = direct /\ Claim(j) = 0
    BY <1>1, <1>3, <1>12
  <2>6. got.pages \in [K -> DS!FreePages] /\ mine' = [mine EXCEPT ![j] = got.pages]
    BY <1>3, <1>8
  <2> QED BY <2>2, <2>3, <2>4, <2>5, <2>6, PagesTaken
<1>19. ContentsOK'
  <2>1. j \in Writing' => \A k \in DS!KeysOf(j)' : page'[mine'[j][k]].has = k
    BY <1>7, <1>10, <1>14
  <2>2. ASSUME ~DS!Kind("static") \/ ~reused', NEW i \in Writing
        PROVE  \A p \in PagesOf(i) : page'[p].has = page[p].has
    <3>1. ~DS!Kind("static") \/ ~DS!Reuses(got.pages)
      BY <1>3, <2>2
    <3>2. PagesOf(i) \cap DS!Range(got.pages) = {}
      BY <1>1, <1>8, <2>2, <3>1, WrittenKept
    <3>3. PagesOf(i) \subseteq DS!Pages
      BY <1>1, <2>2 DEF DirectTypes, PagesOf, DS!Range, Writing
    <3> QED BY <1>10, <3>2, <3>3
  <2> QED BY <1>1, <1>3, <1>14, <1>16, <2>1, <2>2, ContentsSame
<1>20. PoolOK' /\ KeysOK'
  <2>0. CASE broken # {}
    BY <1>3, <2>0 DEF PoolOK, KeysOK
  <2>1. CASE broken = {}
    <3>1. PoolOK' /\ \A k \in DirectKeys : pins[k] > 0 /\ k \in DOMAIN key_dict => k \in DOMAIN key_dict'
      <4>1. CASE UNCHANGED <<key_dict, pool>>
        BY <1>1, <1>3, <2>1, <4>1, PoolSame
      <4>2. ASSUME NEW v \in DS!Victims(DS!Cardinality(K)), DS!RemoveKeys(v)
            PROVE  PoolOK' /\ \A k \in DirectKeys : pins[k] > 0 /\ k \in DOMAIN key_dict => k \in DOMAIN key_dict'
        <5>1. v \subseteq {k \in DOMAIN key_dict : pins[k] <= 0}
          BY <4>2, VictimsIs
        <5>2. PoolOK' /\ DOMAIN key_dict' = DOMAIN key_dict \ v
          BY <1>1, <1>3, <2>1, <4>2, <5>1, RemoveKeysInv
        <5>3. \A k \in DirectKeys : pins[k] \in Nat
          BY <1>1, <2>1, PinnersCount DEF KeysOK
        <5> QED BY <5>1, <5>2, <5>3
      <4> QED BY <1>5, <4>1, <4>2
    <3>2. \A k : Pinners(k)' = Pinners(k)
      <4>1. j \notin {i \in DS!Jobs : pc[i] \in {"read", "use"}}
        BY <1>3
      <4>2. ASSUME NEW k, NEW i \in DS!Jobs PROVE i \in Pinners(k)' <=> i \in Pinners(k)
        <5>1. CASE i = j
          BY <1>3, <1>14, <5>1 DEF Pinners
        <5>2. CASE i # j
          BY <1>3, <1>6, <1>14, <5>2 DEF Pinners, Alone
        <5> QED BY <5>1, <5>2
      <4> QED BY <1>6, <4>2 DEF Pinners
    <3>3. progress' \subseteq UNION {DS!KeysOf(i)' : i \in Writing'}
      <4>1. progress \subseteq UNION {DS!KeysOf(i) : i \in Writing}
        BY <1>1, <2>1 DEF KeysOK
      <4>2. \A i \in Writing : i \in Writing' /\ DS!KeysOf(i)' = DS!KeysOf(i)
        BY <1>12, <1>17 DEF Writing
      <4>3. progress' # progress => j \in Writing'
        BY <1>1, <1>3, <1>4, <1>6, <1>12, QueueAppend DEF Writing
      <4> QED BY <1>4, <1>7, <4>1, <4>2, <4>3
    <3> QED BY <1>1, <1>3, <2>1, <3>1, <3>2, <3>3 DEF KeysOK
  <2> QED BY <2>0, <2>1
<1>21. DS!GotRight'
  BY <1>1, <1>3, <1>6 DEF DS!GotRight
<1> QED BY <1>15, <1>17, <1>18, <1>19, <1>20, <1>21 DEF DirectInv

\* A put is not refused: none of its keys is stored, and there is a descriptor for each.
LEMMA NotRefused ==
    ASSUME DirectTypes, NEW j \in DS!Jobs, DS!Op(j) = "put", DS!Refused(j) = 0,
           IsFiniteSet(pool)
    PROVE  /\ DS!KeysOf(j) \cap DOMAIN key_dict = {}
           /\ Cardinality(DS!KeysOf(j)) <= Cardinality(pool)
<1> DEFINE b == DS!Batch(j)
           s == [i \in DOMAIN b |-> i]
           Test(i) == i > DS!Cardinality(pool) \/ b[i] \in DOMAIN key_dict
           I == {i \in 1..Len(s) : Test(s[i])}
<1>1. b \in Seq(DirectKeys)
  BY BatchIs
<1>2. DOMAIN b = 1..Len(b) /\ Len(b) \in Nat
  BY <1>1, LenProperties
<1>3. Len(s) = Len(b) /\ \A i \in 1..Len(b) : s[i] = i
  <2>1. s \in Seq(Nat)
    <3>1. s \in [1..Len(b) -> Nat]
      BY <1>2
    <3> HIDE DEF s
    <3> QED BY <1>2, <3>1, SeqDef
  <2>2. DOMAIN s = 1..Len(b) /\ \A i \in 1..Len(b) : s[i] = i
    BY <1>2
  <2> HIDE DEF s
  <2>3. DOMAIN s = 1..Len(s) /\ Len(s) \in Nat
    BY <2>1, LenProperties
  <2>4. 1..Len(s) = 1..Len(b)
    BY <2>2, <2>3
  <2>5. Len(s) = Len(b)
    <3>1. \A m, n \in Nat : 1..m = 1..n => m = n
      <4> SUFFICES ASSUME NEW m \in Nat, NEW n \in Nat, 1..m = 1..n PROVE m = n
        OBVIOUS
      <4>1. (m # 0 => m \in 1..n) /\ (n # 0 => n \in 1..m)
        OBVIOUS
      <4> QED BY <4>1
    <3> HIDE DEF b
    <3> QED BY <1>2, <2>3, <2>4, <3>1
  <2> QED BY <2>2, <2>5
<1>4. I = {}
  <2>1. DS!Refused(j) = IF I # {} THEN DS!Min(I) ELSE 0
    BY DEF DS!Refused, DS!SelectInSeq
  <2>2. I \in SUBSET Nat
    BY <1>2, <1>3
  <2> HIDE DEF I
  <2> SUFFICES ASSUME I # {} PROVE FALSE
    OBVIOUS
  <2>3. PICK m \in I : \A i \in I : m <= i
    BY <2>2, LeastNat
  <2>4. DS!Min(I) \in I
    BY <2>3 DEF DS!Min
  <2>5. 0 \notin I
    BY <1>2, <1>3 DEF I
  <2> QED BY <2>1, <2>4, <2>5
<1>5. \A i \in 1..Len(b) : ~(i > Cardinality(pool)) /\ b[i] \notin DOMAIN key_dict
  BY <1>3, <1>4, DirectCardinality
<1>6. DS!KeysOf(j) = {b[i] : i \in 1..Len(b)}
  BY <1>2 DEF DS!KeysOf, DS!ToSet
<1>7. Len(b) <= Cardinality(pool)
  <2>1. Cardinality(pool) \in Nat
    BY FS_CardinalityType
  <2>2. Len(b) = 0 \/ Len(b) \in 1..Len(b)
    BY <1>2
  <2> HIDE DEF b
  <2> QED BY <1>2, <1>5, <2>1, <2>2
<1>8. Cardinality(DS!KeysOf(j)) <= Len(b)
  <2> HIDE DEF b
  <2>1. IsFiniteSet(1..Len(b)) /\ Cardinality(1..Len(b)) = Len(b)
    <3>1. \A n \in Nat : IsFiniteSet(1..n) /\ Cardinality(1..n) = n
      BY FS_Interval
    <3> QED BY <1>2, <3>1
  <2> QED BY <1>6, <2>1, ImageSize
<1>9. Cardinality(DS!KeysOf(j)) \in Nat /\ Cardinality(pool) \in Nat
  BY BatchIs, FS_CardinalityType
<1> QED BY <1>2, <1>5, <1>6, <1>7, <1>8, <1>9

\* The keys of a put take descriptors of the pool and are written there.
LEMMA AddKeysInv ==
    ASSUME DirectTypes, PoolOK, broken = {}, broken' = {}, direct' = direct, reused' = reused,
           NEW j \in DS!Jobs, DS!Op(j) = "put", DS!Refused(j) = 0,
           DOMAIN mine[j] = DS!KeysOf(j),
           ~reused => \A k \in DS!KeysOf(j) : page[mine[j][k]].has = k,
           NEW at, at = DS!Popped(DS!KeysOf(j)), DS!AddKeys(DS!KeysOf(j), at),
           pool' = pool \ DS!Range(at),
           desc' = [d \in DOMAIN desc |->
                       IF d \in DS!Range(at)
                       THEN DS!Contents(j)[CHOOSE k \in DS!KeysOf(j) : at[k] = d] ELSE desc[d]]
    PROVE  PoolOK' /\ DOMAIN key_dict \subseteq DOMAIN key_dict'
<1> DEFINE K == DS!KeysOf(j)
           D == DOMAIN key_dict
           N == 1..direct.pool
<1>1. /\ key_dict \in [D -> N] /\ D \subseteq DirectKeys
      /\ \A a, b \in D : key_dict[a] = key_dict[b] => a = b
      /\ pool \cap DS!Range(key_dict) = {} /\ pool \cup DS!Range(key_dict) = N
      /\ ~reused => \A k \in D : desc[key_dict[k]] = k
  BY DEF PoolOK, DS!IsInjective
<1>2. IsFiniteSet(pool)
  <2>1. direct.pool \in Nat
    BY DEF DirectTypes, DS!ModeType, DS!ModeRecord
  <2>2. IsFiniteSet(N) /\ pool \in SUBSET N
    BY <1>1, <2>1, FS_Interval
  <2> QED BY <2>2, FS_Subset
<1>3. K \cap D = {} /\ Cardinality(K) <= Cardinality(pool) /\ IsFiniteSet(K) /\ K \subseteq DirectKeys
  BY <1>2, NotRefused, BatchIs
<1>4. at \in [K -> pool] /\ \A a, b \in K : at[a] = at[b] => a = b
  BY <1>2, <1>3, PlacesIs DEF DS!Popped
<1>5. /\ DOMAIN key_dict' = D \cup K
      /\ \A k \in D : key_dict'[k] = key_dict[k]
      /\ \A k \in K : key_dict'[k] = at[k]
      /\ key_dict' = [k \in D \cup K |-> key_dict'[k]]
  <2>1. key_dict' = [k \in D \cup K |-> IF k \in K THEN at[k] ELSE key_dict[k]]
    BY DEF DS!AddKeys
  <2> HIDE DEF D, K
  <2> QED BY <1>3, <2>1
<1>6. \A k \in D : key_dict[k] \in N /\ key_dict[k] \notin pool
  BY <1>1 DEF DS!Range
<1>7. \A k \in K : at[k] \in pool /\ at[k] \in N
  BY <1>1, <1>4
<1>8. DS!IsInjective(key_dict')
  <2> SUFFICES ASSUME NEW a \in D \cup K, NEW b \in D \cup K, key_dict'[a] = key_dict'[b]
               PROVE  a = b
    BY <1>5 DEF DS!IsInjective
  <2> HIDE DEF D, K
  <2> QED BY <1>1, <1>4, <1>5, <1>6, <1>7
<1>9. key_dict' \in [D \cup K -> N]
  <2> HIDE DEF D, K, N
  <2> QED BY <1>5, <1>6, <1>7
<1>10. \A d : d \in DS!Range(key_dict') <=> d \in DS!Range(key_dict) \/ d \in DS!Range(at)
  <2>1. DOMAIN at = K
    BY <1>4
  <2> HIDE DEF K
  <2> QED BY <1>5, <2>1 DEF DS!Range
<1>11. DS!Range(at) \subseteq pool
  BY <1>4 DEF DS!Range
<1>12. pool' \cap DS!Range(key_dict') = {} /\ pool' \cup DS!Range(key_dict') = N
  <2> HIDE DEF N
  <2> QED BY <1>1, <1>10, <1>11
<1>13. ASSUME ~reused, NEW k \in D \cup K PROVE desc'[key_dict'[k]] = k
  <2>0. DOMAIN desc = N
    BY DEF DirectTypes
  <2>1. CASE k \in D
    <3>1. key_dict[k] \in N /\ key_dict[k] \notin DS!Range(at) /\ desc[key_dict[k]] = k
      BY <1>1, <1>6, <1>11, <1>13, <2>1
    <3> QED BY <1>5, <2>0, <2>1, <3>1
  <2>2. CASE k \in K
    <3>1. at[k] \in N /\ at[k] \in DS!Range(at)
      BY <1>4, <1>7, <2>2 DEF DS!Range
    <3>2. desc'[at[k]] = DS!Contents(j)[CHOOSE x \in DS!KeysOf(j) : at[x] = at[k]]
      BY <2>0, <3>1
    <3>3. (CHOOSE x \in DS!KeysOf(j) : at[x] = at[k]) = k
      BY <1>4, <2>2
    <3>4. DS!Contents(j)[k] = page[mine[j][k]].has
      BY <2>2 DEF DS!Contents
    <3> QED BY <1>5, <1>13, <2>2, <3>2, <3>3, <3>4
  <2> QED BY <2>1, <2>2
<1> QED BY <1>1, <1>3, <1>5, <1>8, <1>9, <1>12, <1>13 DEF PoolOK

LEMMA StaticWriteInv == ASSUME DirectInv, NEW j \in DS!Jobs, DS!StaticWrite(j) PROVE DirectInv'
<1>1. DirectTypes /\ JobsOK /\ PagesOK /\ ContentsOK /\ PoolOK /\ KeysOK /\ DS!GotRight /\ JobOK(j)
  BY DEF DirectInv, JobsOK
<1>2. /\ DS!Turn(j) /\ DS!Kind("static") /\ DS!Op(j) = "put"
      /\ UNCHANGED <<direct, page, pc, mine, want, held, flying, pins, objects, metas, saving,
                     presence, hot, wrong, reused, lost, restarts>>
  BY DEF DS!StaticWrite, DS!files
<1> DEFINE at == DS!Popped(DS!KeysOf(j))
<1>3. \/ broken' = broken \cup {j} /\ desc' = desc
      \/ /\ broken' = broken /\ DS!Refused(j) = 0 /\ DS!AddKeys(DS!KeysOf(j), at)
         /\ pool' = pool \ DS!Range(at)
         /\ desc' = [d \in DOMAIN desc |->
                IF d \in DS!Range(at)
                THEN DS!Contents(j)[CHOOSE k \in DS!KeysOf(j) : at[k] = d] ELSE desc[d]]
         /\ progress' = progress \ DS!KeysOf(j)
  BY DEF DS!StaticWrite
<1> HIDE DEF at
<1>4. /\ DS!Jobs' = DS!Jobs /\ DS!Pages' = DS!Pages /\ \A i : DS!Op(i)' = DS!Op(i) /\ DS!Batch(i)' = DS!Batch(i)
      /\ \A k : DS!Kind(k)' <=> DS!Kind(k)
  BY <1>2, DirectSame
<1>5. /\ j \in DS!ToSet(queue) /\ queue' \in Seq(DS!Jobs) /\ DS!IsInjective(queue')
      /\ DS!ToSet(queue') = DS!ToSet(queue) \ {j}
  BY <1>1, <1>2, QueueTurn
<1>6. DirectTypes' /\ Alone(j)
  <2>1. DirectTypes'
    <3>1. broken' \subseteq DS!Jobs /\ DOMAIN desc' = DOMAIN desc
      BY <1>1, <1>3 DEF DirectTypes
    <3> QED BY <1>1, <1>2, <1>4, <1>5, <3>1 DEF DirectTypes
  <2> QED BY <1>2, <1>5, <2>1 DEF Alone
<1>7. /\ j \in Writing /\ Writing' = Writing \ {j} /\ pc[j] = "put" /\ j \notin flying
      /\ DOMAIN mine[j] = DS!KeysOf(j)
  <2>1. pc[j] = "put" /\ j \notin flying /\ DOMAIN mine[j] = DS!KeysOf(j)
    BY <1>1, <1>2, <1>5 DEF JobOK
  <2> QED BY <1>2, <1>4, <1>5, <2>1 DEF Writing
<1>8. DS!KeysOf(j)' = DS!KeysOf(j) /\ Claim(j)' = Claim(j)
  <2>1. direct.kind \notin DS!SubmitRefs
    BY <1>2 DEF DS!Kind, DS!SubmitRefs
  <2> QED BY <1>2, <1>4, <2>1 DEF DS!KeysOf, Claim, DS!SubmitRefs
<1>9. JobOK(j)'
  BY <1>1, <1>2, <1>4, <1>5, <1>7, <1>8 DEF JobOK
<1>10. /\ JobsOK' /\ \A i \in DS!Jobs : DS!KeysOf(i)' = DS!KeysOf(i) /\ Claim(i)' = Claim(i)
  BY <1>1, <1>6, <1>8, <1>9, AloneJobs
<1>11. PagesOK'
  <2>1. Clean' => Clean
    BY <1>2, <1>3 DEF Clean
  <2> QED BY <1>1, <1>2, <1>10, <2>1, PagesSame
<1>12. ContentsOK'
  BY <1>1, <1>2, <1>6, <1>7, <1>9, ContentsSame
<1>13. PoolOK' /\ KeysOK'
  <2>1. CASE broken' # {}
    BY <2>1 DEF PoolOK, KeysOK
  <2>2. CASE broken' = {}
    <3>1. /\ broken = {} /\ DS!Refused(j) = 0 /\ DS!AddKeys(DS!KeysOf(j), at)
          /\ pool' = pool \ DS!Range(at)
          /\ desc' = [d \in DOMAIN desc |->
                 IF d \in DS!Range(at)
                 THEN DS!Contents(j)[CHOOSE k \in DS!KeysOf(j) : at[k] = d] ELSE desc[d]]
          /\ progress' = progress \ DS!KeysOf(j)
      BY <1>3, <2>2
    <3>2. ~reused => \A k \in DS!KeysOf(j) : page[mine[j][k]].has = k
      BY <1>1, <1>7 DEF ContentsOK
    <3>3. PoolOK' /\ DOMAIN key_dict \subseteq DOMAIN key_dict'
      BY <1>1, <1>2, <1>7, <2>2, <3>1, <3>2, AddKeysInv DEF at
    <3>4. \A k : Pinners(k)' = Pinners(k)
      BY <1>2, <1>4 DEF Pinners
    <3>5. \A i \in Writing : DS!KeysOf(i)' = DS!KeysOf(i)
      BY <1>10 DEF Writing
    <3>6. progress' \subseteq UNION {DS!KeysOf(i)' : i \in Writing'}
      BY <1>1, <1>7, <3>1, <3>5 DEF KeysOK
    <3> QED BY <1>1, <1>2, <3>1, <3>3, <3>4, <3>6 DEF KeysOK
  <2> QED BY <2>1, <2>2
<1>14. DS!GotRight'
  <2>1. broken # {} => broken' # {}
    BY <1>3
  <2> QED BY <1>1, <1>2, <1>4, <2>1 DEF DS!GotRight
<1> QED BY <1>6, <1>10, <1>11, <1>12, <1>13, <1>14 DEF DirectInv

-----------------------------------------------------------------------------
(* Gets. *)

\* The end of a read: the job j gets the pages ps, for the keys w of those it went for;
\* the pages qs are filled, and are those of j unless they are lost.
ReadStep(j, w, ps, qs) ==
    /\ pc[j] = "read" /\ DS!Reading(j) /\ pc' = [pc EXCEPT ![j] = "use"]
    /\ UNCHANGED <<direct, held, flying, progress, key_dict, pins, pool, desc, objects, metas,
                   saving, broken, restarts>>
    /\ mine' = [mine EXCEPT ![j] = ps] /\ want' = [want EXCEPT ![j] = w]
    /\ DOMAIN page' = DS!Pages
    /\ \A p \in DS!Pages : p \notin DS!Range(qs) => page'[p] = page[p]
    /\ \A p \in DS!Range(qs) : page'[p].ref = 1
    /\ lost' \in Nat /\ lost' >= lost
    /\ qs = ps \/ (DS!Range(ps) = {} /\ (lost' # 0 \/ \A p \in DS!Pages : page'[p] = page[p]))
    /\ reused' \in BOOLEAN /\ (reused => reused')
    /\ DS!Kind("static") => reused' \/ ~DS!Reuses(qs)
    /\ wrong' \in BOOLEAN
    /\ wrong' => wrong \/ (DS!Kind("static") /\ (reused \/ broken # {}))
    /\ DS!Kind("static") /\ broken = {} => w = want[j]

LEMMA ReadInv ==
    ASSUME DirectInv, NEW j \in DS!Jobs, NEW w, w \subseteq want[j],
           NEW K \in SUBSET DirectKeys, NEW ps \in [K -> DS!FreePages],
           NEW L, NEW qs \in [L -> DS!FreePages], ReadStep(j, w, ps, qs)
    PROVE  DirectInv'
<1>1. DirectTypes /\ JobsOK /\ PagesOK /\ ContentsOK /\ PoolOK /\ KeysOK /\ DS!GotRight /\ JobOK(j)
  BY DEF DirectInv, JobsOK
<1>2. /\ pc[j] = "read" /\ pc' = [pc EXCEPT ![j] = "use"]
      /\ UNCHANGED <<direct, held, flying, progress, key_dict, pins, pool, desc, objects, metas,
                     saving, broken, restarts>>
      /\ mine' = [mine EXCEPT ![j] = ps] /\ want' = [want EXCEPT ![j] = w]
  BY DEF ReadStep
<1>3. /\ DOMAIN page' = DS!Pages
      /\ \A p \in DS!Pages : p \notin DS!Range(qs) => page'[p] = page[p]
      /\ \A p \in DS!Range(qs) : page'[p].ref = 1
      /\ lost' \in Nat /\ lost' >= lost
      /\ qs = ps \/ (DS!Range(ps) = {} /\ (lost' # 0 \/ \A p \in DS!Pages : page'[p] = page[p]))
      /\ reused' \in BOOLEAN /\ (reused => reused')
  BY DEF ReadStep
<1>4. /\ DS!Jobs' = DS!Jobs /\ DS!Pages' = DS!Pages /\ \A i : DS!Op(i)' = DS!Op(i) /\ DS!Batch(i)' = DS!Batch(i)
      /\ \A k : DS!Kind(k)' <=> DS!Kind(k)
  BY <1>2, DirectSame
<1>5. /\ queue' \in Seq(DS!Jobs) /\ DS!IsInjective(queue')
      /\ DS!ToSet(queue') = DS!ToSet(queue) \ {j}
  <2>1. CASE DS!Kind("static")
    <3>1. DS!Turn(j)
      BY <2>1 DEF ReadStep, DS!Reading
    <3> QED BY <1>1, <3>1, QueueTurn
  <2>2. CASE ~DS!Kind("static")
    <3>1. queue' = queue
      BY <2>2 DEF ReadStep, DS!Reading
    <3>2. j \notin DS!ToSet(queue)
      BY <1>1, <1>2, <2>2 DEF JobOK
    <3> QED BY <1>1, <3>1, <3>2 DEF DirectTypes
  <2> QED BY <2>1, <2>2
<1>6. pc'[j] = "use" /\ mine'[j] = ps /\ want'[j] = w /\ Alone(j)
  BY <1>1, <1>2, <1>5 DEF Alone, DirectTypes
<1>7. j \notin held /\ j \notin flying /\ DS!Op(j) # "put" /\ j \notin Writing /\ Claim(j) = 0
  BY <1>1, <1>2 DEF JobOK, Writing, Claim
<1>8. Writing' = Writing /\ Claim(j)' = 1
  <2>1. Writing' = Writing
    BY <1>2, <1>4, <1>5, <1>7 DEF Writing
  <2> QED BY <1>2, <1>6, <1>7, <2>1 DEF Claim
<1>9. JobOK(j)'
  BY <1>2, <1>4, <1>5, <1>6, <1>7, <1>8 DEF JobOK
<1>10. /\ JobsOK'
       /\ \A i \in DS!Jobs : i # j => Claim(i)' = Claim(i) /\ DS!KeysOf(i)' = DS!KeysOf(i)
  BY <1>1, <1>6, <1>9, AloneJobs
<1>11. DS!Range(ps) \subseteq DS!FreePages /\ DS!Range(qs) \subseteq DS!FreePages
  BY DEF DS!Range
<1>12. \A p \in DS!Pages : page'[p].ref \in Nat /\ page'[p].ref >= page[p].ref
  BY <1>1, <1>3, <1>11 DEF DirectTypes, DS!FreePages
<1>13. DirectTypes'
  <2>1. mine' \in [DS!Jobs -> UNION {[X -> DS!Pages] : X \in SUBSET DirectKeys}]
    <3>1. ps \in [K -> DS!Pages]
      BY DEF DS!FreePages
    <3>2. ps \in UNION {[X -> DS!Pages] : X \in SUBSET DirectKeys}
      BY <3>1
    <3>3. mine \in [DS!Jobs -> UNION {[X -> DS!Pages] : X \in SUBSET DirectKeys}]
      BY <1>1 DEF DirectTypes
    <3> DEFINE U == UNION {[X -> DS!Pages] : X \in SUBSET DirectKeys}
    <3> HIDE DEF U
    <3> QED BY <1>2, <3>2, <3>3 DEF U
  <2>2. want' \in [DS!Jobs -> SUBSET DirectKeys] /\ \A i \in DS!Jobs : want'[i] \subseteq DS!ToSet(DS!Batch(i))
    BY <1>1, <1>2 DEF DirectTypes
  <2>3. pc' \in [DS!Jobs -> {"new", "put", "read", "use", "done"}]
    BY <1>1, <1>2 DEF DirectTypes
  <2>4. wrong' \in BOOLEAN
    BY DEF ReadStep
  <2>5. DS!ToSet(queue') \cap flying' = {}
    BY <1>1, <1>2, <1>5 DEF DirectTypes
  <2> QED BY <1>1, <1>2, <1>3, <1>4, <1>5, <1>12, <2>1, <2>2, <2>3, <2>4, <2>5 DEF DirectTypes
<1>14. Clean' => Clean
  BY <1>1, <1>2, <1>3 DEF Clean, DirectTypes
<1>15. PagesOK'
  <2>1. CASE qs = ps \/ \A p \in DS!Pages : page'[p] = page[p]
    <3>1. \A p \in DS!Pages : p \notin DS!Range(ps) => page'[p].ref = page[p].ref
      BY <1>3, <2>1
    <3>2. \A p \in DS!Range(ps) : page'[p].ref = Claim(j)'
      BY <1>3, <1>8, <2>1
    <3> QED BY <1>1, <1>2, <1>7, <1>10, <1>14, <3>1, <3>2, PagesTaken
  <2>2. CASE DS!Range(ps) = {} /\ lost' # 0
    <3>1. ~Clean'
      BY <2>2 DEF Clean
    <3>2. \A i \in DS!Jobs :
              PagesOf(i)' = {} \/ (PagesOf(i)' = PagesOf(i) /\ Claim(i)' <= Claim(i))
      <4>1. PagesOf(j)' = {}
        BY <1>6, <2>2 DEF PagesOf
      <4>2. \A i \in DS!Jobs : i # j => PagesOf(i)' = PagesOf(i)
        BY <1>6 DEF PagesOf, Alone
      <4>3. \A i : Claim(i) \in 0..3
        BY ClaimIs
      <4> QED BY <1>10, <4>1, <4>2, <4>3
    <3> QED BY <1>1, <1>2, <1>12, <3>1, <3>2, PagesLost
  <2> QED BY <1>3, <2>1, <2>2
<1>16. ContentsOK'
  <2>1. j \notin Writing'
    BY <1>7, <1>8
  <2>2. ASSUME ~DS!Kind("static") \/ ~reused', NEW i \in Writing
        PROVE  \A p \in PagesOf(i) : page'[p].has = page[p].has
    <3>1. ~DS!Kind("static") \/ ~DS!Reuses(qs)
      BY <2>2 DEF ReadStep
    <3>2. PagesOf(i) \cap DS!Range(qs) = {}
      BY <1>1, <2>2, <3>1, WrittenKept
    <3>3. PagesOf(i) \subseteq DS!Pages
      BY <1>1, <2>2 DEF DirectTypes, PagesOf, DS!Range, Writing
    <3> QED BY <1>3, <3>2, <3>3
  <2> QED BY <1>1, <1>2, <1>3, <1>6, <1>9, <2>1, <2>2, ContentsSame
<1>17. PoolOK'
  BY <1>1, <1>2, <1>3, PoolSame
<1>18. KeysOK'
  <2>1. CASE broken # {}
    BY <1>2, <2>1 DEF KeysOK
  <2>2. CASE broken = {}
    <3>1. ASSUME NEW k, NEW i \in DS!Jobs PROVE i \in Pinners(k)' <=> i \in Pinners(k)
      <4>1. CASE i = j
        <5>1. DS!Kind("static") => w = want[j]
          BY <2>2 DEF ReadStep
        <5> QED BY <1>2, <1>4, <1>6, <4>1, <5>1 DEF Pinners
      <4>2. CASE i # j
        BY <1>2, <1>4, <1>6, <4>2 DEF Pinners, Alone
      <4> QED BY <4>1, <4>2
    <3>2. \A k : Pinners(k)' = Pinners(k)
      BY <1>4, <3>1 DEF Pinners
    <3>3. \A i \in Writing : DS!KeysOf(i)' = DS!KeysOf(i)
      BY <1>7, <1>10 DEF Writing
    <3>4. progress' \subseteq UNION {DS!KeysOf(i)' : i \in Writing'}
      BY <1>1, <1>2, <1>8, <2>2, <3>3 DEF KeysOK
    <3> QED BY <1>1, <1>2, <3>2, <3>4, KeysSame
  <2> QED BY <2>1, <2>2
<1>19. DS!GotRight'
  <2>1. wrong' => DS!Kind("static") /\ (reused' \/ broken' # {})
    BY <1>1, <1>2, <1>3 DEF ReadStep, DS!GotRight
  <2> QED BY <1>1, <1>2, <1>4, <2>1 DEF DS!GotRight
<1> QED BY <1>10, <1>13, <1>15, <1>16, <1>17, <1>18, <1>19 DEF DirectInv

\* The keys of a get that are still there; all of them, if they are pinned.
LEMMA PresentIs ==
    ASSUME DirectInv, NEW j \in DS!Jobs, pc[j] = "read"
    PROVE  /\ DS!Present(j) \subseteq want[j] /\ want[j] \subseteq DirectKeys
           /\ IsFiniteSet(want[j])
           /\ DS!Kind("static") /\ broken = {} => DS!Present(j) = want[j]
<1>1. DirectTypes /\ KeysOK
  BY DEF DirectInv
<1>2. DS!Present(j) \subseteq want[j]
  BY DEF DS!Present
<1>3. want[j] \subseteq DirectKeys /\ IsFiniteSet(want[j])
  BY <1>1, BatchIs DEF DirectTypes
<1>4. ASSUME DS!Kind("static"), broken = {}, NEW k \in want[j] PROVE k \in DS!Present(j)
  <2>1. j \in Pinners(k)
    BY <1>4 DEF Pinners
  <2>2. IsFiniteSet(Pinners(k)) /\ Cardinality(Pinners(k)) \in Nat
    BY <1>1, PinnersCount
  <2>3. Cardinality(Pinners(k)) # 0
    BY <2>1, <2>2, FS_EmptySet
  <2>4. pins[k] = Cardinality(Pinners(k)) /\ (pins[k] > 0 => k \in DOMAIN key_dict)
    BY <1>1, <1>3, <1>4 DEF KeysOK
  <2>5. k \in DOMAIN key_dict
    BY <2>2, <2>3, <2>4
  <2> QED BY <1>4, <2>5 DEF DS!Present, DS!Kind
<1> QED BY <1>2, <1>3, <1>4

\* The pages a get takes for some of its keys.
LEMMA ReadAlloc ==
    ASSUME DirectInv, NEW j \in DS!Jobs, pc[j] = "read",
           NEW content, DOMAIN content \subseteq DS!Present(j),
           DS!Fits(j) \/ DS!Cardinality(DOMAIN content) = DS!Cardinality(DS!FreePages),
           NEW got, got = DS!Alloc(page, content)
    PROVE  /\ DOMAIN content \in SUBSET DirectKeys
           /\ got.pages \in [DOMAIN content -> DS!FreePages]
           /\ DOMAIN got.buf = DS!Pages
           /\ \A p \in DS!Pages : p \notin DS!Range(got.pages) => got.buf[p] = page[p]
           /\ \A p \in DS!Range(got.pages) : got.buf[p].ref = 1
           /\ DS!Cardinality(DOMAIN content) \in Nat
           /\ DS!Cardinality(DOMAIN content) = 0 => DOMAIN content = {}
<1> DEFINE ks == DOMAIN content
<1>1. ks \subseteq DS!Present(j) /\ DS!Present(j) \subseteq want[j] /\ want[j] \subseteq DirectKeys
  BY PresentIs
<1>2. IsFiniteSet(DS!Present(j)) /\ IsFiniteSet(ks)
  BY <1>1, PresentIs, FS_Subset
<1>3. /\ Cardinality(ks) \in Nat /\ Cardinality(DS!Present(j)) \in Nat
      /\ Cardinality(ks) <= Cardinality(DS!Present(j))
  BY <1>1, <1>2, FS_Subset, FS_CardinalityType
<1>4. IsFiniteSet(DS!FreePages)
  <2>1. direct.pages \in Nat
    BY DEF DirectInv, DirectTypes, DS!ModeType, DS!ModeRecord
  <2>2. IsFiniteSet(DS!Pages)
    BY <2>1, FS_Interval DEF DS!Pages
  <2>3. DS!FreePages \in SUBSET DS!Pages
    BY DEF DS!FreePages
  <2> QED BY <2>2, <2>3, FS_Subset
<1>5. Cardinality(ks) <= DS!Cardinality(DS!FreePages)
  <2>1. Cardinality(DS!FreePages) \in Nat
    BY <1>4, FS_CardinalityType
  <2>2. /\ DS!Cardinality(DS!FreePages) = Cardinality(DS!FreePages)
        /\ DS!Cardinality(ks) = Cardinality(ks)
        /\ DS!Cardinality(DS!Present(j)) = Cardinality(DS!Present(j))
    BY DirectCardinality
  <2>3. CASE DS!Fits(j)
    <3>1. Cardinality(DS!FreePages) >= Cardinality(DS!Present(j))
      BY <2>2, <2>3 DEF DS!Fits
    <3> HIDE DEF ks
    <3> QED BY <1>3, <2>1, <2>2, <3>1
  <2>4. CASE DS!Cardinality(ks) = DS!Cardinality(DS!FreePages)
    <3> HIDE DEF ks
    <3> QED BY <1>3, <2>1, <2>2, <2>4
  <2> QED BY <2>3, <2>4
<1>6. DirectTypes
  BY DEF DirectInv
<1>7. /\ got.pages \in [ks -> DS!FreePages]
      /\ DOMAIN got.buf = DS!Pages
      /\ \A p \in DS!Pages : p \notin DS!Range(got.pages) => got.buf[p] = page[p]
      /\ \A k \in ks : got.buf[got.pages[k]].ref = 1
  BY <1>2, <1>5, <1>6, AllocIs
<1>8. \A p \in DS!Range(got.pages) : got.buf[p].ref = 1
  <2> HIDE DEF ks
  <2> QED BY <1>7 DEF DS!Range
<1>9. DS!Cardinality(ks) = Cardinality(ks) /\ (Cardinality(ks) = 0 => ks = {})
  BY <1>2, FS_EmptySet, DirectCardinality
<1> QED BY <1>1, <1>3, <1>7, <1>8, <1>9

\* What is read is right, unless the static pool has gone wrong.
LEMMA ReadRight ==
    ASSUME DirectInv, NEW j \in DS!Jobs, pc[j] = "read", NEW k \in DS!Present(j),
           DS!Kind("static") \/ k \in DOMAIN objects, DS!ReadContent(k) # k
    PROVE  DS!Kind("static") /\ (reused \/ broken # {})
<1>1. DirectTypes /\ ContentsOK /\ PoolOK
  BY DEF DirectInv
<1>2. CASE ~DS!Kind("static")
  BY <1>1, <1>2 DEF ContentsOK, DS!ReadContent
<1>3. CASE DS!Kind("static")
  <2>1. k \in DOMAIN key_dict
    BY <1>3 DEF DS!Present, DS!Kind
  <2> QED BY <1>1, <1>3, <2>1 DEF PoolOK, DS!ReadContent
<1> QED BY <1>2, <1>3

LEMMA NoneIs ==
    /\ \A S : DS!None \in [{} -> S] /\ DS!Range(DS!None) = {}
    /\ \A S, f : f \in [{} -> S] => DS!Range(f) = {}
BY DEF DS!None, DS!Range

LEMMA ReadActInv == ASSUME DirectInv, NEW j \in DS!Jobs, DS!Read(j) PROVE DirectInv'
<1> DEFINE ks == DS!Present(j)
           content == [k \in ks |-> DS!ReadContent(k)]
<1>1. PICK got : got = DS!Alloc(page, content)
  OBVIOUS
<1>2. /\ pc[j] = "read" /\ DS!Reading(j) /\ DS!Fits(j) /\ (DS!Kind("static") \/ ks \subseteq DOMAIN objects)
      /\ page' = got.buf /\ mine' = [mine EXCEPT ![j] = got.pages] /\ want' = [want EXCEPT ![j] = ks]
      /\ reused' = (reused \/ DS!Reuses(got.pages))
      /\ wrong' = (wrong \/ \E k \in ks : DS!ReadContent(k) # k)
      /\ pc' = [pc EXCEPT ![j] = "use"]
      /\ UNCHANGED <<direct, held, flying, progress, key_dict, pins, pool, desc, objects, metas,
                     saving, hot, broken, lost, restarts>>
  BY <1>1 DEF DS!Read, DS!Set, DS!static, DS!Reading
<1>3. /\ ks \subseteq want[j]
      /\ DS!Kind("static") /\ broken = {} => ks = want[j]
  BY <1>2, PresentIs
<1>4. DOMAIN content = ks
  OBVIOUS
<1>5. \A k \in ks : DS!ReadContent(k) # k => DS!Kind("static") /\ (reused \/ broken # {})
  BY <1>2, ReadRight
<1> HIDE DEF content, ks
<1>6. /\ ks \in SUBSET DirectKeys
      /\ got.pages \in [ks -> DS!FreePages] /\ DOMAIN got.buf = DS!Pages
      /\ \A p \in DS!Pages : p \notin DS!Range(got.pages) => got.buf[p] = page[p]
      /\ \A p \in DS!Range(got.pages) : got.buf[p].ref = 1
  BY <1>1, <1>2, <1>4, ReadAlloc DEF ks
<1>7. wrong \in BOOLEAN /\ reused \in BOOLEAN /\ lost \in Nat
  BY DEF DirectInv, DirectTypes
<1>8. reused' \in BOOLEAN /\ (reused => reused') /\ (reused' \/ ~DS!Reuses(got.pages))
  BY <1>2, <1>7
<1>9. wrong' \in BOOLEAN /\ (wrong' => wrong \/ (DS!Kind("static") /\ (reused \/ broken # {})))
  BY <1>2, <1>5, <1>7
<1>10. lost' \in Nat /\ lost' >= lost
  BY <1>2, <1>7
<1>11. ReadStep(j, ks, got.pages, got.pages)
  BY <1>2, <1>3, <1>6, <1>8, <1>9, <1>10 DEF ReadStep
<1> QED BY <1>3, <1>6, <1>11, ReadInv

\* A get that has pages for some of its keys only.
LEMMA ReadNoPageInv == ASSUME DirectInv, NEW j \in DS!Jobs, DS!ReadNoPage(j) PROVE DirectInv'
<1>1. /\ pc[j] = "read" /\ DS!Reading(j) /\ pc' = [pc EXCEPT ![j] = "use"]
      /\ UNCHANGED <<direct, held, flying, progress, key_dict, pins, pool, desc, objects, metas,
                     saving, presence, hot, broken, restarts>>
  BY DEF DS!ReadNoPage, DS!Set, DS!static, DS!files, DS!Reading
<1>2. PICK ks \in DS!FirstOf(j) :
          CASE DS!Kind("static") ->
                 LET got == DS!Alloc(page, [k \in ks |-> "junk"])
                 IN  /\ page' = got.buf /\ lost' = lost + DS!Cardinality(ks)
                     /\ reused' = (reused \/ DS!Reuses(got.pages))
                     /\ mine' = DS!Set(mine, j, DS!None) /\ UNCHANGED <<want, wrong>>
            [] DS!Kind("dynamic") ->
                 mine' = DS!Set(mine, j, DS!None) /\ UNCHANGED <<page, want, wrong, lost, reused>>
            [] DS!Kind("gds") ->
                 LET got == DS!Alloc(page, [k \in ks |-> objects[k]])
                 IN  /\ ks \subseteq DOMAIN objects
                     /\ page' = got.buf /\ mine' = DS!Set(mine, j, got.pages)
                     /\ wrong' = (wrong \/ \E k \in ks : objects[k] # k)
                     /\ reused' = (reused \/ DS!Reuses(got.pages))
                     /\ want' = DS!Set(want, j, ks) /\ UNCHANGED lost
  BY DEF DS!ReadNoPage
<1>3. /\ ks \subseteq DS!Present(j) /\ DS!Cardinality(ks) = DS!Cardinality(DS!FreePages)
      /\ DS!Present(j) \subseteq want[j]
  BY <1>1, PresentIs DEF DS!FirstOf, DS!kSubset
<1>4. /\ wrong \in BOOLEAN /\ reused \in BOOLEAN /\ lost \in Nat /\ DOMAIN page = DS!Pages
      /\ mine = [i \in DS!Jobs |-> mine[i]] /\ want = [want EXCEPT ![j] = want[j]]
      /\ direct.kind \in {"static", "dynamic", "gds"}
  BY DEF DirectInv, DirectTypes, DS!ModeType, DS!ModeRecord
<1>5. CASE DS!Kind("static")
  <2> DEFINE content == [k \in ks |-> "junk"]
  <2>1. PICK got : got = DS!Alloc(page, content)
    OBVIOUS
  <2>2. /\ page' = got.buf /\ lost' = lost + DS!Cardinality(ks)
        /\ reused' = (reused \/ DS!Reuses(got.pages))
        /\ mine' = [mine EXCEPT ![j] = DS!None] /\ want' = want /\ wrong' = wrong
    BY <1>2, <1>5, <2>1 DEF DS!Kind, DS!Set
  <2>3. DOMAIN content = ks
    OBVIOUS
  <2> HIDE DEF content
  <2>4. /\ got.pages \in [ks -> DS!FreePages] /\ DOMAIN got.buf = DS!Pages
        /\ \A p \in DS!Pages : p \notin DS!Range(got.pages) => got.buf[p] = page[p]
        /\ \A p \in DS!Range(got.pages) : got.buf[p].ref = 1
        /\ DS!Cardinality(ks) \in Nat /\ (DS!Cardinality(ks) = 0 => ks = {})
    BY <1>1, <1>3, <2>1, <2>3, ReadAlloc
  <2>5. lost' # 0 \/ \A p \in DS!Pages : page'[p] = page[p]
    <3>1. CASE ks = {}
      <4>1. DS!Range(got.pages) = {}
        BY <2>4, <3>1, NoneIs
      <4> QED BY <2>2, <2>4, <4>1
    <3>2. CASE ks # {}
      BY <1>4, <2>2, <2>4, <3>2
    <3> QED BY <3>1, <3>2
  <2>6. DS!None \in [{} -> DS!FreePages] /\ DS!Range(DS!None) = {} /\ {} \in SUBSET DirectKeys
    BY NoneIs
  <2>7. lost' \in Nat /\ lost' >= lost
    BY <1>4, <2>2, <2>4
  <2>8. reused' \in BOOLEAN /\ (reused => reused') /\ (reused' \/ ~DS!Reuses(got.pages))
    BY <1>4, <2>2
  <2>9. ReadStep(j, want[j], DS!None, got.pages)
    BY <1>1, <1>4, <2>2, <2>4, <2>5, <2>6, <2>7, <2>8 DEF ReadStep
  <2> QED BY <2>4, <2>6, <2>9, ReadInv
<1>6. CASE DS!Kind("dynamic")
  <2>1. mine' = [mine EXCEPT ![j] = DS!None] /\ UNCHANGED <<page, want, wrong, lost, reused>>
    BY <1>2, <1>6 DEF DS!Kind, DS!Set
  <2>2. DS!None \in [{} -> DS!FreePages] /\ DS!Range(DS!None) = {} /\ {} \in SUBSET DirectKeys
    BY NoneIs
  <2>3. ~DS!Kind("static")
    BY <1>6 DEF DS!Kind
  <2>4. ReadStep(j, want[j], DS!None, DS!None)
    BY <1>1, <1>4, <2>1, <2>2, <2>3 DEF ReadStep
  <2> QED BY <2>2, <2>4, ReadInv
<1>7. CASE DS!Kind("gds")
  <2> DEFINE content == [k \in ks |-> objects[k]]
  <2>1. PICK got : got = DS!Alloc(page, content)
    OBVIOUS
  <2>2. /\ ks \subseteq DOMAIN objects /\ page' = got.buf
        /\ mine' = [mine EXCEPT ![j] = got.pages] /\ want' = [want EXCEPT ![j] = ks]
        /\ wrong' = (wrong \/ \E k \in ks : objects[k] # k)
        /\ reused' = (reused \/ DS!Reuses(got.pages)) /\ lost' = lost
    BY <1>2, <1>7, <2>1 DEF DS!Kind, DS!Set
  <2>3. DOMAIN content = ks
    OBVIOUS
  <2> HIDE DEF content
  <2>4. /\ ks \in SUBSET DirectKeys
        /\ got.pages \in [ks -> DS!FreePages] /\ DOMAIN got.buf = DS!Pages
        /\ \A p \in DS!Pages : p \notin DS!Range(got.pages) => got.buf[p] = page[p]
        /\ \A p \in DS!Range(got.pages) : got.buf[p].ref = 1
    BY <1>1, <1>3, <2>1, <2>3, ReadAlloc
  <2>5. ~DS!Kind("static") /\ \A k \in ks : objects[k] = k
    <3>1. ~DS!Kind("static")
      BY <1>7 DEF DS!Kind
    <3> QED BY <2>2, <3>1 DEF DirectInv, ContentsOK
  <2>6. ReadStep(j, ks, got.pages, got.pages)
    BY <1>1, <1>4, <2>2, <2>4, <2>5 DEF ReadStep
  <2> QED BY <1>3, <2>4, <2>6, ReadInv
<1> QED BY <1>4, <1>5, <1>6, <1>7 DEF DS!Kind

\* A get that raises and takes its pages with it.
LEMMA ReadRaisesInv == ASSUME DirectInv, NEW j \in DS!Jobs, DS!ReadRaises(j) PROVE DirectInv'
<1> DEFINE ks == DS!Present(j)
           content == [k \in ks |-> "junk"]
<1>1. PICK got : got = DS!Alloc(page, content)
  OBVIOUS
<1>2. /\ pc[j] = "read" /\ DS!Reading(j) /\ DS!Fits(j) /\ ks # {}
      /\ page' = got.buf /\ lost' = lost + DS!Cardinality(ks)
      /\ reused' = (reused \/ DS!Reuses(got.pages))
      /\ mine' = [mine EXCEPT ![j] = DS!None] /\ pc' = [pc EXCEPT ![j] = "use"]
      /\ UNCHANGED <<direct, want, held, flying, progress, key_dict, pins, pool, desc, objects,
                     metas, saving, presence, hot, wrong, broken, restarts>>
  BY <1>1 DEF DS!ReadRaises, DS!Set, DS!static, DS!files, DS!Reading
<1>3. DOMAIN content = ks
  OBVIOUS
<1> HIDE DEF content, ks
<1>4. /\ got.pages \in [ks -> DS!FreePages] /\ DOMAIN got.buf = DS!Pages
      /\ \A p \in DS!Pages : p \notin DS!Range(got.pages) => got.buf[p] = page[p]
      /\ \A p \in DS!Range(got.pages) : got.buf[p].ref = 1
      /\ DS!Cardinality(ks) \in Nat /\ DS!Cardinality(ks) # 0
  BY <1>1, <1>2, <1>3, ReadAlloc DEF ks
<1>5. wrong \in BOOLEAN /\ reused \in BOOLEAN /\ lost \in Nat /\ want = [want EXCEPT ![j] = want[j]]
  BY DEF DirectInv, DirectTypes
<1>6. DS!None \in [{} -> DS!FreePages] /\ DS!Range(DS!None) = {} /\ {} \in SUBSET DirectKeys
  BY NoneIs
<1>7. lost' \in Nat /\ lost' >= lost /\ lost' # 0
  BY <1>2, <1>4, <1>5
<1>8. reused' \in BOOLEAN /\ (reused => reused') /\ (reused' \/ ~DS!Reuses(got.pages))
  BY <1>2, <1>5
<1>9. ReadStep(j, want[j], DS!None, got.pages)
  BY <1>2, <1>4, <1>5, <1>6, <1>7, <1>8 DEF ReadStep
<1> QED BY <1>4, <1>6, <1>9, ReadInv

\* A get of the dynamic backend that fails and frees its pages.
LEMMA ReadRejectedInv == ASSUME DirectInv, NEW j \in DS!Jobs, DS!ReadRejected(j) PROVE DirectInv'
<1>1. /\ pc[j] = "read" /\ DS!Reading(j) /\ DS!Kind("dynamic")
      /\ mine' = [mine EXCEPT ![j] = DS!None] /\ pc' = [pc EXCEPT ![j] = "use"]
      /\ UNCHANGED <<direct, page, want, held, flying, progress, key_dict, pins, pool, desc,
                     objects, metas, saving, hot, wrong, reused, broken, lost, restarts>>
  BY DEF DS!ReadRejected, DS!Set, DS!static, DS!history, DS!Reading
<1>2. /\ wrong \in BOOLEAN /\ reused \in BOOLEAN /\ lost \in Nat /\ want = [want EXCEPT ![j] = want[j]]
      /\ DOMAIN page = DS!Pages
  BY DEF DirectInv, DirectTypes
<1>3. DS!None \in [{} -> DS!FreePages] /\ DS!Range(DS!None) = {} /\ {} \in SUBSET DirectKeys
  BY NoneIs
<1>4. ~DS!Kind("static")
  BY <1>1 DEF DS!Kind
<1>5. ReadStep(j, want[j], DS!None, DS!None)
  BY <1>1, <1>2, <1>3, <1>4 DEF ReadStep
<1> QED BY <1>3, <1>5, ReadInv

\* A get of GdsBackend some of whose reads fail.
LEMMA ReadPartlyInv == ASSUME DirectInv, NEW j \in DS!Jobs, DS!ReadPartly(j) PROVE DirectInv'
<1>1. /\ pc[j] = "read" /\ DS!Reading(j) /\ DS!Kind("gds") /\ DS!Fits(j)
      /\ ~DS!Missing(DS!Present(j)) /\ pc' = [pc EXCEPT ![j] = "use"]
      /\ UNCHANGED <<direct, held, flying, progress, key_dict, pins, pool, desc, objects, metas,
                     saving, presence, reused, broken, lost, restarts>>
  BY DEF DS!ReadPartly, DS!Set, DS!static, DS!Reading
<1>2. PICK bad \in SUBSET DS!Present(j) :
          LET ks == DS!Present(j) \ bad
              got == DS!Alloc(page, [k \in ks |-> objects[k]])
          IN  /\ page' = got.buf /\ mine' = DS!Set(mine, j, got.pages) /\ want' = DS!Set(want, j, ks)
              /\ wrong' = (wrong \/ \E k \in ks : objects[k] # k)
  BY DEF DS!ReadPartly
<1> DEFINE ks == DS!Present(j) \ bad
           content == [k \in ks |-> objects[k]]
<1>3. PICK got : got = DS!Alloc(page, content)
  OBVIOUS
<1>4. /\ page' = got.buf /\ mine' = [mine EXCEPT ![j] = got.pages] /\ want' = [want EXCEPT ![j] = ks]
      /\ wrong' = (wrong \/ \E k \in ks : objects[k] # k)
  BY <1>2, <1>3 DEF DS!Set
<1>5. ks \subseteq DS!Present(j) /\ DS!Present(j) \subseteq want[j] /\ DOMAIN content = ks
  BY <1>1, PresentIs
<1> HIDE DEF content, ks
<1>6. /\ ks \in SUBSET DirectKeys
      /\ got.pages \in [ks -> DS!FreePages] /\ DOMAIN got.buf = DS!Pages
      /\ \A p \in DS!Pages : p \notin DS!Range(got.pages) => got.buf[p] = page[p]
      /\ \A p \in DS!Range(got.pages) : got.buf[p].ref = 1
  BY <1>1, <1>3, <1>5, ReadAlloc
<1>7. ~DS!Kind("static") /\ \A k \in ks : objects[k] = k
  <2>1. ~DS!Kind("static")
    BY <1>1 DEF DS!Kind
  <2>2. ks \subseteq DOMAIN objects
    BY <1>1, <1>5, <2>1 DEF DS!Missing
  <2> QED BY <2>1, <2>2 DEF DirectInv, ContentsOK
<1>8. wrong \in BOOLEAN /\ reused \in BOOLEAN /\ lost \in Nat
  BY DEF DirectInv, DirectTypes
<1>9. ReadStep(j, ks, got.pages, got.pages)
  BY <1>1, <1>4, <1>6, <1>7, <1>8 DEF ReadStep
<1> QED BY <1>5, <1>6, <1>9, ReadInv

-----------------------------------------------------------------------------
(* The process as it starts. *)

Fresh ==
    /\ direct \in DS!ModeType
    /\ page = [p \in DS!Pages |-> DS!Free] /\ pc \in [DS!Jobs -> {"new", "done"}]
    /\ mine = [j \in DS!Jobs |-> DS!None] /\ want = [j \in DS!Jobs |-> {}]
    /\ held = {} /\ queue = <<>> /\ flying = {} /\ progress = {} /\ saving = {}
    /\ key_dict = DS!None /\ pins = [k \in DirectKeys |-> 0]
    /\ pool = 1..direct.pool /\ desc = [i \in 1..direct.pool |-> "junk"]
    /\ wrong = FALSE /\ reused = FALSE /\ broken = {} /\ lost = 0
    /\ ~DS!Kind("static") => \A k \in DOMAIN objects : objects[k] = k
    /\ "drop" \notin direct.may => metas \subseteq DOMAIN objects

LEMMA FreshInv == Fresh => DirectInv
<1> SUFFICES ASSUME Fresh PROVE DirectInv
  OBVIOUS
<1>1. DS!ToSet(queue) = {} /\ queue \in Seq(DS!Jobs) /\ DS!IsInjective(queue)
  BY DEF Fresh, DS!ToSet, DS!IsInjective
<1>2. Writing = {}
  BY <1>1 DEF Fresh, Writing
<1>3. \A j \in DS!Jobs : Claim(j) = 0
  BY <1>2 DEF Fresh, Claim
<1>4. DirectTypes
  <2>1. mine \in [DS!Jobs -> UNION {[K -> DS!Pages] : K \in SUBSET DirectKeys}]
    <3>1. DS!None \in [{} -> DS!Pages]
      BY NoneIs
    <3>2. DS!None \in UNION {[K -> DS!Pages] : K \in SUBSET DirectKeys}
      BY <3>1
    <3> QED BY <3>2 DEF Fresh
  <2>2. DOMAIN page = DS!Pages /\ \A p \in DS!Pages : page[p].ref \in Nat
    BY DEF Fresh, DS!Free
  <2> QED BY <1>1, <2>1, <2>2 DEF Fresh, DirectTypes
<1>5. JobsOK
  BY <1>1, <1>2 DEF Fresh, JobsOK, JobOK
<1>6. PagesOK
  BY <1>3 DEF Fresh, PagesOK, DS!Free
<1>7. ContentsOK
  BY <1>2 DEF Fresh, ContentsOK
<1>8. PoolOK
  <2>1. DOMAIN key_dict = {} /\ key_dict \in [{} -> 1..direct.pool] /\ DS!Range(key_dict) = {}
    BY NoneIs DEF Fresh, DS!None
  <2>2. DS!IsInjective(key_dict)
    BY <2>1 DEF DS!IsInjective
  <2> QED BY <2>1, <2>2 DEF Fresh, PoolOK
<1>9. KeysOK
  <2>1. \A k : Pinners(k) = {}
    BY DEF Fresh, Pinners
  <2>2. \A k : Cardinality(Pinners(k)) = 0
    BY <2>1, FS_EmptySet
  <2>3. /\ broken = {} /\ progress = {} /\ \A k \in DirectKeys : pins[k] = 0
    BY DEF Fresh
  <2> QED BY <2>2, <2>3 DEF KeysOK
<1>10. DS!GotRight
  BY DEF Fresh, DS!GotRight
<1> QED BY <1>4, <1>5, <1>6, <1>7, <1>8, <1>9, <1>10 DEF DirectInv

LEMMA DirectInit == DS!Init => DirectInv
<1> SUFFICES ASSUME DS!Init PROVE Fresh
  BY FreshInv
<1>1. direct \in DS!ModeType
  BY DirectAssumption DEF DS!Init
<1> QED BY <1>1 DEF DS!Init, Fresh, DS!None

\* The process starts again.
LEMMA RestartInv == ASSUME DirectInv, DS!Restart PROVE DirectInv'
<1>1. Fresh' => DirectInv'
  BY FreshInv, PTL
<1>2. direct' = direct /\ DirectTypes /\ ContentsOK
  BY DEF DS!Restart, DirectInv
<1>3. DS!Jobs' = DS!Jobs /\ DS!Pages' = DS!Pages /\ \A k : DS!Kind(k)' <=> DS!Kind(k)
  BY <1>2, DirectSame
<1>4. pc' \in [DS!Jobs -> {"new", "done"}]
  BY <1>2 DEF DS!Restart, DirectTypes
<1>5. Fresh'
  BY <1>2, <1>3, <1>4 DEF DS!Restart, Fresh, DirectTypes, ContentsOK, DS!Free, DS!None
<1> QED BY <1>1, <1>5

-----------------------------------------------------------------------------
(* Steps of the storage. *)

LEMMA StorageStepInv ==
    ASSUME DirectInv,
           UNCHANGED <<direct, page, pc, mine, want, held, queue, flying, progress, key_dict, pins,
                       pool, desc, wrong, reused, broken, lost, restarts>>,
           ~DS!Kind("static") => \A k \in DOMAIN objects' : objects'[k] = k,
           "drop" \notin direct.may => metas' \cup saving' \subseteq DOMAIN objects'
    PROVE  DirectInv'
<1>1. DirectTypes /\ JobsOK /\ PagesOK /\ ContentsOK /\ PoolOK /\ KeysOK /\ DS!GotRight
  BY DEF DirectInv
<1>2. /\ DS!Jobs' = DS!Jobs /\ DS!Pages' = DS!Pages
      /\ \A j : DS!Op(j)' = DS!Op(j) /\ DS!Batch(j)' = DS!Batch(j)
      /\ \A k : DS!Kind(k)' <=> DS!Kind(k)
  BY DirectSame
<1>3. Writing' = Writing /\ \A j : DS!KeysOf(j)' = DS!KeysOf(j)
  BY <1>2 DEF Writing, DS!KeysOf
<1>4. \A j : Claim(j)' = Claim(j)
  BY <1>3 DEF Claim, DS!SubmitRefs
<1>5. DirectTypes'
  BY <1>1, <1>2 DEF DirectTypes
<1>6. JobsOK'
  BY <1>1, <1>2, <1>3 DEF JobsOK, JobOK
<1>7. PagesOK'
  BY <1>1, <1>4, PagesSame DEF Clean
<1>8. ContentsOK'
  BY <1>1, <1>2, <1>3 DEF ContentsOK
<1>9. PoolOK'
  BY <1>1, PoolSame
<1>10. KeysOK'
  <2>1. \A k : Pinners(k)' = Pinners(k)
    BY <1>2 DEF Pinners
  <2> QED BY <1>1, <1>3, <2>1 DEF KeysOK
<1>11. DS!GotRight'
  BY <1>1, <1>2, <1>8 DEF DS!GotRight
<1> QED BY <1>5, <1>6, <1>7, <1>8, <1>9, <1>10, <1>11 DEF DirectInv

LEMMA StorageInv ==
    ASSUME DirectInv, NEW k, DS!SaveMetadata(k) \/ DS!ScanMetadata(k) \/ DS!Drop(k)
    PROVE  DirectInv'
<1>1. ContentsOK
  BY DEF DirectInv
<1>2. CASE DS!SaveMetadata(k)
  BY <1>1, <1>2, StorageStepInv DEF DS!SaveMetadata, ContentsOK, DS!static, DS!history
<1>3. CASE DS!ScanMetadata(k)
  BY <1>1, <1>3, StorageStepInv DEF DS!ScanMetadata, ContentsOK, DS!static, DS!history
<1>4. CASE DS!Drop(k)
  <2>1. /\ "drop" \in direct.may
        /\ \A x \in DOMAIN objects' : x \in DOMAIN objects /\ objects'[x] = objects[x]
    BY <1>4 DEF DS!Drop, DS!Restrict
  <2> QED BY <1>1, <1>4, <2>1, StorageStepInv DEF DS!Drop, ContentsOK, DS!static, DS!history
<1> QED BY <1>2, <1>3, <1>4

-----------------------------------------------------------------------------
(* The start and the end of a get. *)

LEMMA FoundIs ==
    ASSUME DirectTypes, NEW j \in DS!Jobs
    PROVE  /\ DS!Found(j) \subseteq DS!ToSet(DS!Batch(j))
           /\ \A k \in DS!Found(j) : DS!HasKey(k)
<1> DEFINE b == DS!Batch(j)
<1>1. DOMAIN b \subseteq Nat /\ \A i \in DOMAIN b : i \in 1..i
  <2>1. b \in Seq(DirectKeys)
    BY BatchIs
  <2>2. DOMAIN b = 1..Len(b) /\ Len(b) \in Nat
    BY <2>1, LenProperties
  <2> HIDE DEF b
  <2> QED BY <2>2
<1> QED BY <1>1 DEF DS!Found, DS!ToSet

LEMMA LookupInv == ASSUME DirectInv, NEW j \in DS!Jobs, DS!Lookup(j) PROVE DirectInv'
<1>1. DirectTypes /\ JobsOK /\ PagesOK /\ ContentsOK /\ PoolOK /\ KeysOK /\ DS!GotRight /\ JobOK(j)
  BY DEF DirectInv, JobsOK
<1> DEFINE ks == DS!Found(j)
<1>2. /\ pc[j] = "new" /\ DS!Op(j) = "get" /\ want' = [want EXCEPT ![j] = ks]
      /\ pins' = IF DS!Kind("static")
                 THEN [k \in DirectKeys |-> IF k \in ks THEN pins[k] + 1 ELSE pins[k]] ELSE pins
      /\ \/ ks = {} /\ pc' = [pc EXCEPT ![j] = "done"] /\ queue' = queue
         \/ /\ ks # {} /\ pc' = [pc EXCEPT ![j] = "read"]
            /\ queue' = IF DS!Kind("static") THEN Append(queue, j) ELSE queue
      /\ UNCHANGED <<direct, page, mine, held, flying, progress, key_dict, pool, desc, objects,
                     metas, saving, wrong, reused, broken, lost, restarts>>
  BY DEF DS!Lookup, DS!Set, DS!history
<1>3. ks \subseteq DS!ToSet(DS!Batch(j)) /\ \A k \in ks : DS!HasKey(k)
  BY <1>1, FoundIs
<1>4. DS!ToSet(DS!Batch(j)) \subseteq DirectKeys
  BY <1>1, BatchIs
<1> HIDE DEF ks
<1>5. /\ DS!Jobs' = DS!Jobs /\ DS!Pages' = DS!Pages /\ \A i : DS!Op(i)' = DS!Op(i) /\ DS!Batch(i)' = DS!Batch(i)
      /\ \A k : DS!Kind(k)' <=> DS!Kind(k)
  BY <1>2, DirectSame
<1>6. j \notin held /\ j \notin DS!ToSet(queue) /\ j \notin flying /\ j \notin Writing /\ Claim(j) = 0
  BY <1>1, <1>2 DEF JobOK, Writing, Claim
<1>7. /\ queue' \in Seq(DS!Jobs) /\ DS!IsInjective(queue')
      /\ \/ DS!ToSet(queue') = DS!ToSet(queue)
         \/ DS!ToSet(queue') = DS!ToSet(queue) \cup {j} /\ pc' = [pc EXCEPT ![j] = "read"] /\ DS!Kind("static")
  BY <1>1, <1>2, <1>6, QueueAppend DEF DirectTypes
<1>8. Alone(j) /\ want'[j] = ks /\ pc'[j] \in {"read", "done"}
  BY <1>1, <1>2, <1>7 DEF Alone, DirectTypes
<1>9. Writing' = Writing /\ Claim(j)' = 0
  <2>1. Writing' = Writing
    BY <1>2, <1>5, <1>7 DEF Writing
  <2> QED BY <1>2, <1>6, <1>8, <2>1 DEF Claim
<1>10. DirectTypes'
  <2>1. want' \in [DS!Jobs -> SUBSET DirectKeys] /\ \A i \in DS!Jobs : want'[i] \subseteq DS!ToSet(DS!Batch(i))
    BY <1>1, <1>2, <1>3, <1>4 DEF DirectTypes
  <2>2. pc' \in [DS!Jobs -> {"new", "put", "read", "use", "done"}]
    BY <1>1, <1>2 DEF DirectTypes
  <2>3. DOMAIN pins' = DirectKeys
    BY <1>1, <1>2 DEF DirectTypes
  <2>4. DS!ToSet(queue') \cap flying' = {}
    BY <1>1, <1>2, <1>6, <1>7 DEF DirectTypes
  <2> QED BY <1>1, <1>2, <1>5, <1>7, <2>1, <2>2, <2>3, <2>4 DEF DirectTypes
<1>11. JobOK(j)'
  <2>1. j \in DS!ToSet(queue') => pc'[j] = "read" /\ DS!Kind("static")
    BY <1>1, <1>6, <1>7 DEF DirectTypes
  <2> QED BY <1>2, <1>5, <1>6, <1>8, <1>9, <2>1 DEF JobOK
<1>12. /\ JobsOK'
       /\ \A i \in DS!Jobs : i # j => Claim(i)' = Claim(i) /\ DS!KeysOf(i)' = DS!KeysOf(i)
  BY <1>1, <1>8, <1>11, AloneJobs
<1>13. PagesOK'
  BY <1>1, <1>2, <1>6, <1>9, <1>12, PagesSame DEF Clean
<1>14. ContentsOK'
  BY <1>1, <1>2, <1>6, <1>8, <1>9, <1>11, ContentsSame
<1>15. PoolOK'
  BY <1>1, <1>2, PoolSame
<1>16. KeysOK'
  <2>1. CASE broken # {}
    BY <1>2, <2>1 DEF KeysOK
  <2>2. CASE broken = {}
    <3>1. \A k : Pinners(k)' = IF DS!Kind("static") /\ k \in ks THEN Pinners(k) \cup {j} ELSE Pinners(k)
      <4>1. ASSUME NEW k, NEW i \in DS!Jobs
            PROVE  i \in Pinners(k)' <=> i \in Pinners(k) \/ (i = j /\ DS!Kind("static") /\ k \in ks)
        <5>1. CASE i = j
          BY <1>1, <1>2, <1>5, <1>8, <5>1 DEF Pinners, DirectTypes
        <5>2. CASE i # j
          BY <1>2, <1>5, <1>8, <5>2 DEF Pinners, Alone
        <5> QED BY <5>1, <5>2
      <4> QED BY <1>5, <4>1 DEF Pinners
    <3>2. ASSUME NEW k \in DirectKeys PROVE pins'[k] = Cardinality(Pinners(k)')
      <4>1. IsFiniteSet(Pinners(k)) /\ Cardinality(Pinners(k)) \in Nat /\ pins[k] = Cardinality(Pinners(k))
        BY <1>1, <2>2, PinnersCount DEF KeysOK
      <4>2. j \notin Pinners(k)
        BY <1>2 DEF Pinners
      <4>3. Cardinality(Pinners(k) \cup {j}) = Cardinality(Pinners(k)) + 1
        BY <4>1, <4>2, FS_AddElement
      <4> QED BY <1>2, <3>1, <4>1, <4>3
    <3>3. ASSUME NEW k \in DirectKeys, pins'[k] > 0 PROVE k \in DOMAIN key_dict
      <4>1. CASE DS!Kind("static") /\ k \in ks
        BY <1>3, <4>1 DEF DS!HasKey, DS!Kind
      <4>2. CASE ~(DS!Kind("static") /\ k \in ks)
        BY <1>1, <1>2, <2>2, <3>3, <4>2 DEF KeysOK
      <4> QED BY <4>1, <4>2
    <3>4. \A i \in Writing : DS!KeysOf(i)' = DS!KeysOf(i)
      BY <1>6, <1>12 DEF Writing
    <3>5. progress' \subseteq UNION {DS!KeysOf(i)' : i \in Writing'}
      BY <1>1, <1>2, <1>9, <2>2, <3>4 DEF KeysOK
    <3> QED BY <1>2, <3>2, <3>3, <3>5 DEF KeysOK
  <2> QED BY <2>1, <2>2
<1>17. DS!GotRight'
  BY <1>1, <1>2, <1>5 DEF DS!GotRight
<1> QED BY <1>10, <1>12, <1>13, <1>14, <1>15, <1>16, <1>17 DEF DirectInv

LEMMA UseInv == ASSUME DirectInv, NEW j \in DS!Jobs, DS!Use(j) PROVE DirectInv'
<1>1. DirectTypes /\ JobsOK /\ PagesOK /\ ContentsOK /\ PoolOK /\ KeysOK /\ DS!GotRight /\ JobOK(j)
  BY DEF DirectInv, JobsOK
<1>2. /\ pc[j] = "use" /\ page' = DS!RefDown(page, mine[j]) /\ pc' = [pc EXCEPT ![j] = "done"]
      /\ pins' = IF DS!Kind("static")
                 THEN [k \in DirectKeys |-> IF k \in want[j] /\ k \in DOMAIN key_dict
                                            THEN pins[k] - 1 ELSE pins[k]] ELSE pins
      /\ UNCHANGED <<direct, mine, want, held, queue, flying, progress, key_dict, pool, desc,
                     objects, metas, saving, wrong, reused, broken, lost, restarts>>
  BY DEF DS!Use, DS!Set, DS!history, DS!files
<1>3. /\ DS!Jobs' = DS!Jobs /\ DS!Pages' = DS!Pages /\ \A i : DS!Op(i)' = DS!Op(i) /\ DS!Batch(i)' = DS!Batch(i)
      /\ \A k : DS!Kind(k)' <=> DS!Kind(k)
  BY <1>2, DirectSame
<1>4. /\ j \notin held /\ j \notin DS!ToSet(queue) /\ j \notin flying /\ j \notin Writing
      /\ DS!Op(j) # "put" /\ Claim(j) = 1
  BY <1>1, <1>2 DEF JobOK, Writing, Claim
<1>5. Alone(j) /\ pc'[j] = "done"
  BY <1>1, <1>2 DEF Alone, DirectTypes
<1>6. Writing' = Writing /\ Claim(j)' = 0
  <2>1. Writing' = Writing
    BY <1>2, <1>3 DEF Writing
  <2> QED BY <1>2, <1>4, <1>5, <2>1 DEF Claim
<1>7. JobOK(j)'
  BY <1>2, <1>3, <1>4, <1>5, <1>6 DEF JobOK
<1>8. /\ JobsOK'
      /\ \A i \in DS!Jobs : i # j => Claim(i)' = Claim(i) /\ DS!KeysOf(i)' = DS!KeysOf(i)
  BY <1>1, <1>5, <1>7, AloneJobs
<1>9. PagesOK' /\ \A p \in DS!Pages : page'[p].ref \in Nat
  BY <1>1, <1>2, <1>4, <1>6, <1>8, PagesDropped DEF Clean
<1>10. DOMAIN page' = DS!Pages /\ \A p \in DS!Pages : page'[p].has = page[p].has
  BY <1>1, <1>2 DEF DirectTypes, DS!RefDown
<1>11. DirectTypes'
  <2>1. pc' \in [DS!Jobs -> {"new", "put", "read", "use", "done"}] /\ DOMAIN pins' = DirectKeys
    BY <1>1, <1>2 DEF DirectTypes
  <2> QED BY <1>1, <1>2, <1>3, <1>9, <1>10, <2>1 DEF DirectTypes
<1>12. ContentsOK'
  <2>1. \A i \in Writing : \A p \in PagesOf(i) : page'[p].has = page[p].has
    BY <1>1, <1>10 DEF DirectTypes, PagesOf, DS!Range, Writing
  <2> QED BY <1>1, <1>2, <1>4, <1>5, <1>6, <1>7, <2>1, ContentsSame
<1>13. PoolOK'
  BY <1>1, <1>2, PoolSame
<1>14. KeysOK'
  <2>1. CASE broken # {}
    BY <1>2, <2>1 DEF KeysOK
  <2>2. CASE broken = {}
    <3>1. \A k : Pinners(k)' = Pinners(k) \ {j}
      <4>1. ASSUME NEW k, NEW i \in DS!Jobs PROVE i \in Pinners(k)' <=> i \in Pinners(k) /\ i # j
        <5>1. CASE i = j
          BY <1>3, <1>5, <5>1 DEF Pinners
        <5>2. CASE i # j
          BY <1>2, <1>3, <1>5, <5>2 DEF Pinners, Alone
        <5> QED BY <5>1, <5>2
      <4> QED BY <1>3, <4>1 DEF Pinners
    <3>2. ASSUME NEW k \in DirectKeys
          PROVE  pins'[k] = Cardinality(Pinners(k)') /\ (pins'[k] > 0 => k \in DOMAIN key_dict)
      <4>1. IsFiniteSet(Pinners(k)) /\ Cardinality(Pinners(k)) \in Nat
        BY <1>1, PinnersCount
      <4>2. pins[k] = Cardinality(Pinners(k)) /\ (pins[k] > 0 => k \in DOMAIN key_dict)
        BY <1>1, <2>2 DEF KeysOK
      <4>3. CASE j \in Pinners(k)
        <5>1. DS!Kind("static") /\ k \in want[j]
          BY <4>3 DEF Pinners
        <5>2. Cardinality(Pinners(k) \ {j}) = Cardinality(Pinners(k)) - 1
          BY <4>1, <4>3, FS_RemoveElement
        <5>3. Cardinality(Pinners(k)) # 0
          BY <4>1, <4>3, FS_EmptySet
        <5>4. k \in DOMAIN key_dict
          BY <4>1, <4>2, <5>3
        <5> QED BY <1>2, <3>1, <4>2, <5>1, <5>2, <5>4
      <4>4. CASE j \notin Pinners(k)
        <5>1. Pinners(k)' = Pinners(k) /\ ~(DS!Kind("static") /\ k \in want[j])
          BY <1>2, <3>1, <4>4 DEF Pinners
        <5> QED BY <1>2, <4>2, <5>1
      <4> QED BY <4>3, <4>4
    <3>3. \A i \in Writing : DS!KeysOf(i)' = DS!KeysOf(i)
      BY <1>4, <1>8 DEF Writing
    <3>4. progress' \subseteq UNION {DS!KeysOf(i)' : i \in Writing'}
      BY <1>1, <1>2, <1>6, <2>2, <3>3 DEF KeysOK
    <3> QED BY <1>2, <3>2, <3>4 DEF KeysOK
  <2> QED BY <2>1, <2>2
<1>15. DS!GotRight'
  BY <1>1, <1>2, <1>3 DEF DS!GotRight
<1> QED BY <1>8, <1>9, <1>11, <1>12, <1>13, <1>14, <1>15 DEF DirectInv

LEMMA DirectNextInv == ASSUME DirectInv, [DS!Next]_DS!vars PROVE DirectInv'
<1>1. CASE UNCHANGED DS!vars
  BY <1>1, StorageStepInv DEF DS!vars, DS!static, DS!files, DS!history, DirectInv, ContentsOK
<1>2. ASSUME NEW j \in DS!Jobs, DS!Step(j) PROVE DirectInv'
  BY <1>2, EndsInv, SubmitPutInv, ReleaseInv, StaticWriteInv, StartWriteInv, EndWriteInv,
     FailWriteInv, LookupInv, ReadActInv, ReadNoPageInv, ReadRaisesInv, ReadRejectedInv,
     ReadPartlyInv, UseInv DEF DS!Step
<1>3. ASSUME NEW k, DS!SaveMetadata(k) \/ DS!ScanMetadata(k) \/ DS!Drop(k) PROVE DirectInv'
  BY <1>3, StorageInv
<1> QED BY <1>1, <1>2, <1>3, RestartInv DEF DS!Next

\* A pool that has lost no descriptor has as many as it was opened with.
LEMMA PoolCount ==
    ASSUME DirectTypes, PoolOK, broken = {}
    PROVE  DS!Cardinality(pool) + DS!Cardinality(DOMAIN key_dict) = direct.pool
<1> DEFINE D == DOMAIN key_dict
           R == DS!Range(key_dict)
           N == 1..direct.pool
<1>1. /\ key_dict \in [D -> N] /\ \A a, b \in D : key_dict[a] = key_dict[b] => a = b
      /\ pool \cap R = {} /\ pool \cup R = N
  BY DEF PoolOK, DS!IsInjective
<1>2. IsFiniteSet(N) /\ Cardinality(N) = direct.pool
  <2>1. direct.pool \in Nat
    BY DEF DirectTypes, DS!ModeType, DS!ModeRecord
  <2> QED BY <2>1, FS_Interval
<1>3. IsFiniteSet(pool) /\ IsFiniteSet(R)
  <2>1. pool \in SUBSET N /\ R \in SUBSET N
    BY <1>1
  <2> QED BY <1>2, <2>1, FS_Subset
<1>4. key_dict \in [D -> R] /\ \A r \in R : \E k \in D : key_dict[k] = r
  BY <1>1 DEF DS!Range
<1>5. IsFiniteSet(D) /\ Cardinality(D) = Cardinality(R)
  <2> HIDE DEF D, R
  <2>1. key_dict \in Injection(D, R) /\ key_dict \in Surjection(D, R)
    BY <1>1, <1>4 DEF Injection, Surjection, IsInjective
  <2> QED BY <1>3, <2>1, FS_Injection
<1>6. Cardinality(pool) + Cardinality(R) = Cardinality(N)
  <2>1. Cardinality(pool \cup R) = Cardinality(pool) + Cardinality(R) - Cardinality(pool \cap R)
    BY <1>3, FS_Union
  <2>2. Cardinality(pool \cap R) = 0
    BY <1>1, FS_EmptySet
  <2>3. Cardinality(pool) \in Nat /\ Cardinality(R) \in Nat
    BY <1>3, FS_CardinalityType
  <2>4. Cardinality(pool \cup R) = Cardinality(N)
    BY <1>1
  <2> HIDE DEF R, N
  <2> QED BY <2>1, <2>2, <2>3, <2>4
<1> HIDE DEF D, R, N
<1>7. Cardinality(pool) + Cardinality(D) = direct.pool
  BY <1>2, <1>5, <1>6
<1> QED BY <1>7, DirectCardinality DEF D

\* The invariant: the references on a page are those of the jobs that use it, what is
\* still to be written is in its page, the pool and the keys share the descriptors, and
\* the pins on a key are those of the gets that went for it.
THEOREM DirectInvariant == DS!Spec => []DirectInv
<1>1. DS!Init => DirectInv
  BY DirectInit
<1>2. DirectInv /\ [DS!Next]_DS!vars => DirectInv'
  BY DirectNextInv
<1> QED BY <1>1, <1>2, PTL DEF DS!Spec

\* nixl_storage_backend.py, gds_backend.py: a get returns what was put under its key, and
\* pages, descriptors and pins are given back.
THEOREM DirectStorageSafe == DS!Spec => []DirectSafe
<1>1. DirectInv => DirectSafe
  <2> SUFFICES ASSUME DirectInv PROVE DirectSafe
    OBVIOUS
  <2>1. DirectTypes /\ JobsOK /\ PagesOK /\ PoolOK /\ KeysOK /\ DS!GotRight
    BY DEF DirectInv
  <2>2. ASSUME DS!Quiet, broken = {}, lost = 0
        PROVE  /\ DS!FreePages = DS!Pages /\ progress = {}
               /\ \A k \in DOMAIN key_dict : pins[k] = 0
               /\ DS!Cardinality(pool) + DS!Cardinality(DOMAIN key_dict) = direct.pool
               /\ pool \cup DS!Range(key_dict) = 1..direct.pool
    <3>1. \A j \in DS!Jobs : /\ pc[j] = "done" /\ j \notin held
                             /\ j \notin DS!ToSet(queue) /\ j \notin flying
      BY <2>1, <2>2 DEF DS!Quiet, JobsOK, JobOK
    <3>2. Writing = {}
      BY <3>1 DEF Writing
    <3>3. \A j \in DS!Jobs : Claim(j) = 0
      BY <3>1, <3>2 DEF Claim
    <3>4. \A p \in DS!Pages : page[p].ref = 0
      BY <2>1, <2>2, <3>3 DEF PagesOK, Clean, DirectTypes
    <3>5. DS!FreePages = DS!Pages
      BY <3>4 DEF DS!FreePages
    <3>6. progress = {}
      BY <2>1, <2>2, <3>2 DEF KeysOK
    <3>7. \A k : Pinners(k) = {}
      BY <3>1 DEF Pinners
    <3>8. \A k : Cardinality(Pinners(k)) = 0
      BY <3>7, FS_EmptySet
    <3>9. \A k \in DOMAIN key_dict : pins[k] = 0
      BY <2>1, <2>2, <3>8 DEF KeysOK, PoolOK
    <3>10. pool \cup DS!Range(key_dict) = 1..direct.pool
      BY <2>1, <2>2 DEF PoolOK
    <3> QED BY <2>1, <2>2, <3>5, <3>6, <3>9, <3>10, PoolCount
  <2>3. DS!NothingLeaked
    BY <2>2 DEF DS!NothingLeaked
  <2> QED BY <2>1, <2>3 DEF DirectSafe, DS!DirectSafe
<1> QED BY <1>1, DirectInvariant, PTL
=============================================================================
