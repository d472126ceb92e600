-------------------------- MODULE DictionaryProofs --------------------------
(***************************************************************************)
(* Lemmas that the proofs about several components rest on: dictionaries   *)
(* and sequences, sums over finite sets, and the least-number principle    *)
(* they need for the operators that are defined by the first place with a  *)
(* property, or by recursion.                                              *)
(***************************************************************************)
EXTENDS Dictionary, SequenceTheorems, WellFoundedInduction, FiniteSets, FiniteSetTheorems, TLAPS

\* A non-empty set of naturals has a least element.
LEMMA LeastNat ==
    ASSUME NEW T \in SUBSET Nat, T # {}
    PROVE  \E m \in T : \A n \in T : m <= n
<1> DEFINE R == OpToRel(<, Nat)
<1>1. IsWellFoundedOn(R, Nat)
  BY NatLessThanWellFounded
<1>2. \A x, y \in Nat : <<y, x>> \in R <=> y < x
  BY DEF OpToRel
<1> HIDE DEF R
<1>3. PICK x \in T : \A y \in T : <<y, x>> \notin R
  BY <1>1, WFMin
<1>4. \A y \in T : ~(y < x)
  BY <1>2, <1>3
<1> QED BY <1>3, <1>4

\* So has a bounded one a greatest.
LEMMA GreatestNat ==
    ASSUME NEW n \in Nat, NEW T \in SUBSET (0..n), T # {}
    PROVE  \E m \in T : \A k \in T : k <= m
<1> DEFINE U == {n - k : k \in T}
<1>0. \A k \in T : n - k \in Nat
  OBVIOUS
<1>1. U \in SUBSET Nat /\ U # {}
  BY <1>0
<1>2. PICK u \in U : \A v \in U : u <= v
  BY <1>1, LeastNat
<1>3. PICK m \in T : u = n - m
  BY <1>2
<1>4. \A k \in T : n - m <= n - k
  BY <1>2, <1>3
<1> QED BY <1>3, <1>4

\* The first place of an element of a sequence.
LEMMA PlaceIs ==
    ASSUME NEW S, NEW s \in Seq(S), NEW k \in Range(s)
    PROVE  /\ Place(s, k) \in 1..Len(s) /\ s[Place(s, k)] = k
           /\ \A j \in 1..Place(s, k) - 1 : s[j] # k
<1> DEFINE T == {i \in 1..Len(s) : s[i] = k}
<1>1. DOMAIN s = 1..Len(s) /\ Len(s) \in Nat
  BY LenProperties
<1>2. T \in SUBSET Nat /\ T # {}
  BY <1>1 DEF Range
<1>3. PICK i \in T : \A j \in T : i <= j
  BY <1>2, LeastNat
<1>4. i \in DOMAIN s /\ s[i] = k /\ \A j \in 1..i - 1 : s[j] # k
  BY <1>1, <1>3
<1> QED BY <1>1, <1>4 DEF Place

\* pop(k) removes k and nothing else.
LEMMA WithoutIs ==
    ASSUME NEW S, NEW s \in Seq(S), IsInjective(s), NEW k
    PROVE  /\ Without(s, k) \in Seq(S)
           /\ Range(Without(s, k)) = Range(s) \ {k}
           /\ IsInjective(Without(s, k))
           /\ Len(Without(s, k)) = IF k \in Range(s) THEN Len(s) - 1 ELSE Len(s)
<1>1. DOMAIN s = 1..Len(s) /\ Len(s) \in Nat
  BY LenProperties
<1>2. CASE k \notin Range(s)
  BY <1>2 DEF Without
<1>3. CASE k \in Range(s)
  <2> DEFINE p == Place(s, k)
             u == SubSeq(s, 1, p - 1)
             v == SubSeq(s, p + 1, Len(s))
             w == Without(s, k)
  <2>1. w = u \o v
    BY <1>3 DEF Without, RemoveAt
  <2>2. p \in 1..Len(s) /\ s[p] = k
    BY <1>3, PlaceIs
  <2> HIDE DEF p
  <2>3. \A i \in 1..Len(s) : s[i] \in S
    BY ElementOfSeq
  <2>4. /\ u \in Seq(S) /\ Len(u) = p - 1 /\ \A i \in 1..p - 1 : u[i] = s[i]
        /\ v \in Seq(S) /\ Len(v) = Len(s) - p /\ \A i \in 1..Len(s) - p : v[i] = s[p + i]
    <3>1. \A i \in 1..p - 1 : s[i] \in S
      BY <1>1, <2>2, <2>3
    <3>2. \A i \in p + 1..Len(s) : s[i] \in S
      BY <1>1, <2>2, <2>3
    <3>3. u \in Seq(S) /\ Len(u) = p - 1 /\ \A i \in 1..p - 1 : u[i] = s[i]
      BY <1>1, <2>2, <3>1, SubSeqProperties
    <3>4. /\ v \in Seq(S) /\ Len(v) = (IF p + 1 <= Len(s) THEN Len(s) - (p + 1) + 1 ELSE 0)
          /\ \A i \in 1..Len(s) - (p + 1) + 1 : v[i] = s[p + 1 + i - 1]
      BY <1>1, <2>2, <3>2, SubSeqProperties
    <3> HIDE DEF u, v
    <3>5. Len(v) = Len(s) - p
      BY <1>1, <2>2, <3>4
    <3>6. ASSUME NEW i \in 1..Len(s) - p PROVE v[i] = s[p + i]
      <4>1. i \in 1..Len(s) - (p + 1) + 1 /\ p + 1 + i - 1 = p + i
        BY <1>1, <2>2
      <4> QED BY <3>4, <4>1
    <3> QED BY <3>3, <3>4, <3>5, <3>6
  <2> HIDE DEF u, v, w
  <2>5. /\ w \in Seq(S) /\ Len(w) = Len(s) - 1
        /\ \A i \in 1..Len(s) - 1 : w[i] = IF i < p THEN s[i] ELSE s[i + 1]
    <3>1. /\ w \in Seq(S) /\ Len(w) = Len(u) + Len(v)
          /\ \A i \in 1..Len(u) + Len(v) : w[i] = IF i <= Len(u) THEN u[i] ELSE v[i - Len(u)]
      BY <2>1, <2>4, ConcatProperties
    <3>2. Len(w) = Len(s) - 1
      BY <1>1, <2>2, <2>4, <3>1
    <3>3. ASSUME NEW i \in 1..Len(s) - 1 PROVE w[i] = IF i < p THEN s[i] ELSE s[i + 1]
      <4>1. w[i] = IF i <= p - 1 THEN u[i] ELSE v[i - (p - 1)]
        BY <1>1, <2>2, <2>4, <3>1
      <4>2. CASE i < p
        BY <1>1, <2>2, <2>4, <4>1, <4>2
      <4>3. CASE ~(i < p)
        <5>1. i - (p - 1) \in 1..Len(s) - p /\ p + (i - (p - 1)) = i + 1
          BY <1>1, <2>2, <4>3
        <5> QED BY <1>1, <2>2, <2>4, <4>1, <4>3, <5>1
      <4> QED BY <4>2, <4>3
    <3> QED BY <3>1, <3>2, <3>3
  <2>6. DOMAIN w = 1..Len(s) - 1
    BY <2>5, LenProperties
  <2>7. \A i, j \in 1..Len(s) : s[i] = s[j] => i = j
    BY <1>1 DEF IsInjective
  <2>8. IsInjective(w)
    BY <1>1, <2>2, <2>5, <2>6, <2>7 DEF IsInjective
  <2>9. ASSUME NEW i \in 1..Len(s) - 1 PROVE w[i] \in Range(s) /\ w[i] # k
    <3>1. PICK j \in 1..Len(s) : w[i] = s[j] /\ j # p
      BY <1>1, <2>2, <2>5
    <3> QED BY <1>1, <2>2, <2>7, <3>1 DEF Range
  <2>10. ASSUME NEW i \in 1..Len(s), i # p PROVE s[i] \in Range(w)
    <3>1. CASE i < p
      <4>1. i \in DOMAIN w /\ w[i] = s[i]
        BY <1>1, <2>2, <2>5, <2>6, <3>1
      <4> QED BY <4>1 DEF Range
    <3>2. CASE i > p
      <4>1. i - 1 \in DOMAIN w /\ w[i - 1] = s[i]
        BY <1>1, <2>2, <2>5, <2>6, <3>2
      <4> QED BY <4>1 DEF Range
    <3> QED BY <1>1, <2>2, <2>10, <3>1, <3>2
  <2>11. Range(w) \subseteq Range(s) \ {k}
    BY <2>6, <2>9 DEF Range
  <2>12. Range(s) \ {k} \subseteq Range(w)
    BY <1>1, <2>2, <2>10 DEF Range
  <2> QED BY <1>3, <2>5, <2>8, <2>11, <2>12 DEF w
<1> QED BY <1>2, <1>3

\* A new key goes to the end.
LEMMA AppendIs ==
    ASSUME NEW S, NEW s \in Seq(S), NEW k \in S
    PROVE  /\ Append(s, k) \in Seq(S) /\ Len(Append(s, k)) = Len(s) + 1
           /\ Range(Append(s, k)) = Range(s) \cup {k}
           /\ IsInjective(s) /\ k \notin Range(s) => IsInjective(Append(s, k))
<1> DEFINE a == Append(s, k)
<1>1. /\ a \in Seq(S) /\ Len(a) = Len(s) + 1 /\ a[Len(s) + 1] = k
      /\ \A i \in 1..Len(s) : a[i] = s[i]
  BY AppendProperties
<1>2. DOMAIN s = 1..Len(s) /\ Len(s) \in Nat /\ DOMAIN a = 1..Len(s) + 1
  BY <1>1, LenProperties
<1> HIDE DEF a
<1>3. Range(a) = Range(s) \cup {k}
  BY <1>1, <1>2 DEF Range
<1>4. IsInjective(s) /\ k \notin Range(s) => IsInjective(a)
  BY <1>1, <1>2 DEF IsInjective, Range
<1> QED BY <1>1, <1>3, <1>4 DEF a

\* move_to_end changes neither which keys there are nor that each is there once.
LEMMA MovedToEndIs ==
    ASSUME NEW S, NEW s \in Seq(S), NEW h, NEW T, h \in Seq(T), NEW r \in MovedToEnd(s, h)
    PROVE  r \in Seq(S) /\ Range(r) = Range(s) /\ IsInjective(r)
<1>1. DOMAIN s = 1..Len(s) /\ Len(s) \in Nat /\ Range(s) \subseteq S
  BY LenProperties, RangeOfSeq
<1>2. r \in [1..Len(s) -> Range(s)] /\ Range(r) = Range(s)
  BY <1>1 DEF MovedToEnd
<1>3. r \in [1..Len(s) -> S] /\ r \in Seq(S)
  <2>1. r \in [1..Len(s) -> S]
    BY <1>1, <1>2
  <2> QED BY <1>1, <2>1, SeqDef
<1>4. ASSUME NEW i \in 1..Len(s), NEW j \in 1..Len(s), i < j PROVE r[i] # r[j]
  <2>1. \/ r[i] \notin Range(h) /\ r[j] \in Range(h)
        \/ r[i] \notin Range(h) /\ r[j] \notin Range(h) /\ Place(s, r[i]) < Place(s, r[j])
        \/ r[i] \in Range(h) /\ r[j] \in Range(h) /\ Place(h, r[i]) > Place(h, r[j])
    BY <1>2, <1>4 DEF MovedToEnd
  <2>2. r[i] \in Range(s) /\ Place(s, r[i]) \in 1..Len(s)
    BY <1>2, PlaceIs
  <2>3. r[i] \in Range(h) => Place(h, r[i]) \in 1..Len(h) /\ Len(h) \in Nat
    BY PlaceIs, LenProperties
  <2> QED BY <1>1, <2>1, <2>2, <2>3
<1>5. IsInjective(r)
  <2>1. DOMAIN r = 1..Len(s)
    BY <1>2
  <2>2. ASSUME NEW i \in 1..Len(s), NEW j \in 1..Len(s), r[i] = r[j] PROVE i = j
    <3>1. i \in Int /\ j \in Int
      BY <1>1
    <3> QED BY <1>4, <2>2, <3>1
  <2> QED BY <2>1, <2>2 DEF IsInjective
<1> QED BY <1>2, <1>3, <1>5
\* A set has no more elements than what it is indexed by.
LEMMA ImageSize ==
    ASSUME NEW S, IsFiniteSet(S), NEW f, NEW T, T = {f[x] : x \in S}
    PROVE  IsFiniteSet(T) /\ Cardinality(T) <= Cardinality(S)
<1> DEFINE m == [x \in S |-> f[x]]
<1>1. m \in Surjection(S, T)
  BY DEF Surjection
<1> QED BY <1>1, FS_Surjection

-----------------------------------------------------------------------------
(* The sum of the weights of the elements of a finite set, as MapThenSumSet  *)
(* takes it: element by element, what is left after the first summed first. *)

Chosen(s) == CHOOSE x \in s : TRUE
SumStep(w, g, s) == IF s = {} THEN 0 ELSE w[Chosen(s)] + g[s \ {Chosen(s)}]
IsSum(w, g, D) == g = [s \in D |-> SumStep(w, g, s)]
Sum(w, T) == (CHOOSE g : IsSum(w, g, SUBSET T))[T]

\* Without one of its elements a set is smaller.
LEMMA ChosenSmaller ==
    ASSUME NEW s, IsFiniteSet(s), s # {}
    PROVE  /\ Chosen(s) \in s
           /\ IsFiniteSet(s \ {Chosen(s)})
           /\ Cardinality(s) \in Nat /\ Cardinality(s \ {Chosen(s)}) \in Nat
           /\ Cardinality(s \ {Chosen(s)}) = Cardinality(s) - 1
<1>1. Chosen(s) \in s
  BY DEF Chosen
<1>2. IsFiniteSet(s \ {Chosen(s)}) /\ Cardinality(s \ {Chosen(s)}) = Cardinality(s) - 1
  BY <1>1, FS_RemoveElement
<1> QED BY <1>1, <1>2, FS_CardinalityType

\* The function that sums the subsets of a finite set exists.
LEMMA SumExists ==
    ASSUME NEW w, NEW T, IsFiniteSet(T)
    PROVE  \E g : IsSum(w, g, SUBSET T)
<1> DEFINE Small(n) == {s \in SUBSET T : Cardinality(s) <= n}
           Bad == {n \in Nat : ~\E g : IsSum(w, g, Small(n))}
<1>0. \A s \in SUBSET T : IsFiniteSet(s) /\ Cardinality(s) \in Nat /\ Cardinality(s) <= Cardinality(T)
  BY FS_Subset, FS_CardinalityType
<1>1. Bad = {}
  <2> SUFFICES ASSUME Bad # {} PROVE FALSE
    OBVIOUS
  <2>1. PICK m \in Bad : \A n \in Bad : m <= n
    BY LeastNat
  <2>2. CASE m = 0
    <3>1. \A s \in Small(0) : s = {}
      BY <1>0, FS_EmptySet
    <3> DEFINE g == [s \in Small(0) |-> 0]
    <3>2. IsSum(w, g, Small(0))
      BY <3>1 DEF IsSum, SumStep
    <3> QED BY <2>1, <2>2, <3>2
  <2>3. CASE m # 0
    <3>0. m \in Nat /\ m - 1 \in Nat /\ ~(m <= m - 1)
      <4>1. m \in Nat
        BY <2>1
      <4> QED BY <4>1, <2>3
    <3>1. m - 1 \in Nat /\ m - 1 \notin Bad
      BY ONLY <3>0, <2>1
    <3>2. PICK g : IsSum(w, g, Small(m - 1))
      BY <3>1
    <3> DEFINE h == [s \in Small(m) |-> SumStep(w, g, s)]
    <3>3. ASSUME NEW s \in Small(m) PROVE SumStep(w, g, s) = SumStep(w, h, s)
      <4>1. CASE s = {}
        BY <4>1 DEF SumStep
      <4>2. CASE s # {}
        <5> DEFINE r == s \ {Chosen(s)}
        <5>1. r \in Small(m - 1) /\ r \in Small(m)
          BY <1>0, <2>1, <4>2, ChosenSmaller
        <5>2. h[r] = g[r]
          BY <3>2, <5>1 DEF IsSum
        <5> QED BY <4>2, <5>2 DEF SumStep
      <4> QED BY <4>1, <4>2
    <3>4. IsSum(w, h, Small(m))
      BY <3>3 DEF IsSum
    <3> QED BY <2>1, <3>4
  <2> QED BY <2>2, <2>3
<1>2. SUBSET T = Small(Cardinality(T)) /\ Cardinality(T) \in Nat
  BY <1>0
<1>3. \E g : IsSum(w, g, Small(Cardinality(T)))
  BY ONLY <1>1, <1>2
<1> HIDE DEF Small, Bad
<1> QED BY ONLY <1>2, <1>3

\* Two such functions agree on the subsets they have in common, and sum to a natural.
LEMMA SumUnique ==
    ASSUME NEW E, NEW w \in [E -> Nat], NEW T \in SUBSET E, IsFiniteSet(T), NEW S \in SUBSET T,
           NEW f, IsSum(w, f, SUBSET T), NEW g, IsSum(w, g, SUBSET S)
    PROVE  \A s \in SUBSET S : f[s] = g[s] /\ f[s] \in Nat
<1> DEFINE Good(s) == f[s] = g[s] /\ f[s] \in Nat
           Bad == {s \in SUBSET S : ~Good(s)}
           Sizes == {Cardinality(s) : s \in Bad}
<1>0. \A s \in SUBSET T : IsFiniteSet(s) /\ Cardinality(s) \in Nat
  BY FS_Subset, FS_CardinalityType
<1>1. SUFFICES ASSUME Bad # {} PROVE FALSE
  OBVIOUS
<1>2. Sizes \in SUBSET Nat /\ Sizes # {}
  BY <1>0, <1>1
<1>3. PICK n \in Sizes : \A k \in Sizes : n <= k
  BY <1>2, LeastNat
<1>4. PICK s \in Bad : Cardinality(s) = n
  BY <1>3
<1>5. f[s] = SumStep(w, f, s) /\ g[s] = SumStep(w, g, s)
  BY <1>4 DEF IsSum
<1>6. s # {}
  BY <1>4, <1>5 DEF SumStep
<1> DEFINE r == s \ {Chosen(s)}
<1>7. Chosen(s) \in s /\ r \in SUBSET S /\ Cardinality(r) \in Nat /\ Cardinality(r) = n - 1 /\ n \in Nat
  BY <1>0, <1>4, <1>6, ChosenSmaller
<1>8. r \notin Bad
  BY <1>3, <1>7
<1>9. Good(r)
  BY <1>7, <1>8
<1>10. w[Chosen(s)] \in Nat
  BY <1>7
<1>11. Good(s)
  BY <1>5, <1>6, <1>9, <1>10 DEF SumStep
<1> QED BY <1>4, <1>11

\* The sum one element at a time.
LEMMA SumByStep ==
    ASSUME NEW E, NEW w \in [E -> Nat], NEW T \in SUBSET E, IsFiniteSet(T)
    PROVE  /\ Sum(w, T) \in Nat
           /\ T = {} => Sum(w, T) = 0
           /\ T # {} => Sum(w, T) = w[Chosen(T)] + Sum(w, T \ {Chosen(T)})
<1> DEFINE r == T \ {Chosen(T)}
<1>1. IsFiniteSet(r) /\ r \in SUBSET T /\ r \in SUBSET E
  BY FS_Subset
<1> HIDE DEF r
<1>2. PICK f : f = CHOOSE g : IsSum(w, g, SUBSET T)
  OBVIOUS
<1>3. PICK h : h = CHOOSE g : IsSum(w, g, SUBSET r)
  OBVIOUS
<1>4. IsSum(w, f, SUBSET T)
  BY <1>2, SumExists
<1>5. IsSum(w, h, SUBSET r)
  BY <1>1, <1>3, SumExists
<1>6. Sum(w, T) = f[T] /\ Sum(w, r) = h[r]
  BY <1>2, <1>3 DEF Sum
<1>7. f[T] \in Nat
  BY <1>4, SumUnique
<1>8. f[r] = h[r]
  <2>1. \A s \in SUBSET r : f[s] = h[s] /\ f[s] \in Nat
    BY <1>1, <1>4, <1>5, SumUnique
  <2> QED BY <2>1
<1>9. f[T] = SumStep(w, f, T)
  BY <1>4 DEF IsSum
<1> QED BY <1>6, <1>7, <1>8, <1>9 DEF SumStep, r

\* An element more adds its weight.
LEMMA SumAdd ==
    ASSUME NEW E, NEW w \in [E -> Nat], NEW T \in SUBSET E, IsFiniteSet(T), NEW x \in E, x \notin T
    PROVE  Sum(w, T \cup {x}) = Sum(w, T) + w[x]
<1> DEFINE Good(s) == \A y \in E : y \notin s => Sum(w, s \cup {y}) = Sum(w, s) + w[y]
           Bad == {s \in SUBSET T : ~Good(s)}
           Sizes == {Cardinality(s) : s \in Bad}
<1>0. \A s \in SUBSET T : IsFiniteSet(s) /\ Cardinality(s) \in Nat
  BY FS_Subset, FS_CardinalityType
<1>1. SUFFICES ASSUME Bad # {} PROVE FALSE
  OBVIOUS
<1>2. Sizes \in SUBSET Nat /\ Sizes # {}
  BY <1>0, <1>1
<1>3. PICK n \in Sizes : \A k \in Sizes : n <= k
  BY <1>2, LeastNat
<1>4. PICK s \in Bad : Cardinality(s) = n
  BY <1>3
<1>5. PICK y \in E : y \notin s /\ Sum(w, s \cup {y}) # Sum(w, s) + w[y]
  BY <1>4
<1> DEFINE t == s \cup {y}
<1>6. t \in SUBSET E /\ t # {} /\ IsFiniteSet(t) /\ IsFiniteSet(s) /\ s \in SUBSET E
  BY <1>0, <1>4, FS_AddElement
<1>7. PICK c : c = Chosen(t)
  OBVIOUS
<1>8. c \in t /\ Sum(w, t) = w[c] + Sum(w, t \ {c})
  <2>1. PICK u : u = t
    OBVIOUS
  <2>2. u \in SUBSET E /\ IsFiniteSet(u) /\ u # {}
    BY ONLY <1>6, <2>1
  <2>3. Sum(w, u) = w[Chosen(u)] + Sum(w, u \ {Chosen(u)})
    BY ONLY <2>2, SumByStep, w \in [E -> Nat]
  <2>4. Chosen(u) \in u
    BY ONLY <2>2, ChosenSmaller
  <2> QED BY ONLY <1>7, <2>1, <2>3, <2>4
<1>9. c # y
  <2> SUFFICES ASSUME c = y PROVE FALSE
    OBVIOUS
  <2>1. t \ {c} = s
    BY <1>5
  <2>2. Sum(w, s) \in Nat /\ w[y] \in Nat
    BY <1>6, SumByStep
  <2>3. PICK d : d = t \ {c}
    OBVIOUS
  <2>4. d = s
    BY <2>1, <2>3
  <2>5. Sum(w, t) = w[y] + Sum(w, d)
    BY <1>8, <2>3
  <2>6. Sum(w, t) = w[y] + Sum(w, s)
    BY ONLY <2>4, <2>5
  <2>7. Sum(w, t) = Sum(w, s) + w[y]
    BY <2>2, <2>6
  <2> QED BY <1>5, <2>7
<1>10. c \in s /\ c \in E
  BY <1>6, <1>8, <1>9
<1> DEFINE r == s \ {c}
<1>11. IsFiniteSet(r) /\ r \in SUBSET T /\ r \in SUBSET E /\ Cardinality(r) \in Nat
       /\ Cardinality(r) = n - 1 /\ n \in Nat
  BY <1>0, <1>4, <1>6, <1>10, FS_RemoveElement
<1>12. r \notin Bad
  <2>1. r \in Bad => Cardinality(r) \in Sizes
    OBVIOUS
  <2>2. Cardinality(r) \notin Sizes
    BY ONLY <1>3, <1>11
  <2> QED BY ONLY <2>1, <2>2
<1>13. Good(r)
  BY <1>11, <1>12
<1>14. t \ {c} = r \cup {y} /\ s = r \cup {c} /\ y \notin r /\ c \notin r
  BY <1>5, <1>9, <1>10
<1>15. Sum(w, s) = Sum(w, r) + w[c] /\ Sum(w, t \ {c}) = Sum(w, r) + w[y]
  BY <1>10, <1>13, <1>14
<1>16. Sum(w, r) \in Nat /\ w[c] \in Nat /\ w[y] \in Nat
  BY <1>10, <1>11, SumByStep
<1>17. \A a, b, u, v, z \in Nat : a = u + v /\ b = u + z => v + b = a + z
  OBVIOUS
<1>18. w[c] + Sum(w, t \ {c}) = Sum(w, s) + w[y]
  BY ONLY <1>15, <1>16, <1>17
<1> QED BY <1>5, <1>8, <1>18

\* An element less takes it away.
LEMMA SumRemove ==
    ASSUME NEW E, NEW w \in [E -> Nat], NEW T \in SUBSET E, IsFiniteSet(T), NEW x \in T
    PROVE  /\ IsFiniteSet(T \ {x})
           /\ Sum(w, T \ {x}) = Sum(w, T) - w[x]
<1>0. PICK d : d = T \ {x}
  OBVIOUS
<1>1. IsFiniteSet(d) /\ d \in SUBSET E /\ x \in E /\ x \notin d /\ d \cup {x} = T
  BY <1>0, FS_RemoveElement
<1>2. Sum(w, d \cup {x}) = Sum(w, d) + w[x]
  BY <1>1, SumAdd
<1>3. Sum(w, T) = Sum(w, d) + w[x]
  BY <1>1, <1>2
<1>4. Sum(w, d) \in Nat /\ w[x] \in Nat
  BY <1>1, SumByStep
<1>5. Sum(w, d) = Sum(w, T) - w[x]
  BY ONLY <1>3, <1>4
<1> QED BY <1>0, <1>1, <1>5

\* What is mapped one to one to elements at least as heavy weighs no more.
LEMMA SumInjective ==
    ASSUME NEW E, NEW w \in [E -> Nat], NEW S \in SUBSET E, IsFiniteSet(S),
           NEW F, NEW v \in [F -> Nat], NEW T \in SUBSET F, IsFiniteSet(T),
           NEW h \in [S -> T], \A x, y \in S : h[x] = h[y] => x = y,
           \A x \in S : w[x] <= v[h[x]]
    PROVE  Sum(w, S) <= Sum(v, T)
<1> DEFINE Image(s) == {h[x] : x \in s}
           Good(s) == \A t \in SUBSET T : Image(s) \subseteq t => Sum(w, s) <= Sum(v, t)
           Bad == {s \in SUBSET S : ~Good(s)}
           Sizes == {Cardinality(s) : s \in Bad}
<1>0. /\ \A s \in SUBSET S : IsFiniteSet(s) /\ Cardinality(s) \in Nat
      /\ \A t \in SUBSET T : IsFiniteSet(t)
  BY FS_Subset, FS_CardinalityType
<1>1. Bad = {}
  <2> SUFFICES ASSUME Bad # {} PROVE FALSE
    OBVIOUS
  <2>1. Sizes \in SUBSET Nat /\ Sizes # {}
    BY <1>0
  <2>2. PICK n \in Sizes : \A k \in Sizes : n <= k
    BY <2>1, LeastNat
  <2>3. PICK s \in Bad : Cardinality(s) = n
    BY <2>2
  <2>4. PICK t \in SUBSET T : Image(s) \subseteq t /\ ~(Sum(w, s) <= Sum(v, t))
    BY <2>3
  <2>5. s \in SUBSET E /\ IsFiniteSet(s) /\ t \in SUBSET F /\ IsFiniteSet(t) /\ s \in SUBSET S
    BY <1>0, <2>3, <2>4
  <2>6. Sum(w, s) \in Nat /\ Sum(v, t) \in Nat
    BY ONLY <2>5, SumByStep, w \in [E -> Nat], v \in [F -> Nat]
  <2>7. s # {}
    <3>1. s = {} => Sum(w, s) = 0
      BY ONLY <2>5, SumByStep, w \in [E -> Nat]
    <3> QED BY <2>4, <2>6, <3>1
  <2>8. PICK c \in s : TRUE
    BY <2>7
  <2>9. PICK r : r = s \ {c}
    OBVIOUS
  <2>10. PICK u : u = t \ {h[c]}
    OBVIOUS
  <2>11. r \in SUBSET S /\ u \in SUBSET T /\ Image(r) \subseteq u /\ h[c] \in t
    BY <2>4, <2>5, <2>8, <2>9, <2>10
  <2>12. IsFiniteSet(r) /\ Cardinality(r) = n - 1 /\ Cardinality(r) \in Nat /\ n \in Nat
    BY <1>0, <2>1, <2>2, <2>3, <2>5, <2>8, <2>9, FS_RemoveElement
  <2>13. r \notin Bad
    <3>1. r \in Bad => Cardinality(r) \in Sizes
      OBVIOUS
    <3>2. Cardinality(r) \in Sizes => n <= Cardinality(r)
      BY ONLY <2>2
    <3>3. ~(n <= Cardinality(r))
      BY ONLY <2>12
    <3> QED BY ONLY <3>1, <3>2, <3>3
  <2>14. Good(r)
    BY ONLY <2>11, <2>13
  <2>15. Sum(w, r) <= Sum(v, u)
    BY <2>11, <2>14
  <2>16. Sum(w, r) = Sum(w, s) - w[c]
    BY ONLY <2>5, <2>8, <2>9, SumRemove, w \in [E -> Nat]
  <2>17. Sum(v, u) = Sum(v, t) - v[h[c]]
    BY ONLY <2>5, <2>10, <2>11, SumRemove, v \in [F -> Nat]
  <2>18. w[c] \in Nat /\ v[h[c]] \in Nat /\ w[c] <= v[h[c]]
    BY <2>5, <2>8, <2>11
  <2> QED BY ONLY <2>4, <2>6, <2>15, <2>16, <2>17, <2>18
<1>2. Good(S)
  BY <1>1
<1> QED BY <1>2
=============================================================================
