---------------------------- MODULE WorkerProofs ----------------------------
(***************************************************************************)
(* Proofs about AncestryLayers and Worker, for any instances, detectors,   *)
(* images and contents: that what computeAncestryLayers computes, layer by *)
(* layer, is what the image holds; what the tables hold of a layer that    *)
(* counts as scanned; and that the rows a transaction refers to are there. *)
(***************************************************************************)
EXTENDS Worker, TLAPS, WellFoundedInduction

-----------------------------------------------------------------------------
(* computeAncestryLayers goes through the layers one by one, so what it     *)
(* computes is shown by induction: the least layer at which a claim fails.  *)

\* A set of numbers that is not empty has a least one.
LEMMA LeastNumber ==
    ASSUME NEW T \in SUBSET Nat, T # {}
    PROVE  \E n \in T : \A m \in T : n <= m
<1>1. PICK n \in T : \A m \in T : ~ (<<m, n>> \in OpToRel(<, Nat))
  BY NatLessThanWellFounded, WFMin, Zenon
<1>2. \A m \in T : ~ (m < n)
  BY <1>1, Zenon DEF OpToRel
<1> QED
  BY <1>2

\* Min is the least number of a set.
LEMMA MinIsLeast ==
    ASSUME NEW T \in SUBSET Nat, NEW n \in T, \A m \in T : n <= m
    PROVE  Min(T) = n
<1>1. \A m \in T : (\A k \in T : m <= k) => m = n
  OBVIOUS
<1> QED
  BY <1>1, Zenon DEF Min

\* Max is the greatest number of a set.
LEMMA MaxIsGreatest ==
    ASSUME NEW T \in SUBSET Nat, NEW n \in T, \A m \in T : m <= n
    PROVE  Max(T) = n
<1>1. \A m \in T : (\A k \in T : m >= k) => m = n
  OBVIOUS
<1> QED
  BY <1>1, Zenon DEF Max

\* The positions of an image's layers.
LEMMA Positions ==
    ASSUME NEW a \in Ancestries
    PROVE  /\ Len(LayersOf[a]) \in Nat \ {0}
           /\ DOMAIN LayersOf[a] = 1 .. Len(LayersOf[a])
           /\ \A i \in 1 .. Len(LayersOf[a]) : LayersOf[a][i] \in Layers
BY LayerAssumption

\* seen is what detectors by find in the layers of image a.
IsSeen(seen, a, by) ==
    /\ DOMAIN seen = DOMAIN LayersOf[a]
    /\ \A i \in DOMAIN LayersOf[a] : seen[i] = FoundIn(by, LayersOf[a][i])

\* Another position is up to a position when it is up to the one before.
LEMMA Before ==
    ASSUME NEW i \in Nat \ {0}, NEW j \in Nat, j # i
    PROVE  j <= i <=> j <= i - 1
OBVIOUS

\* A layer without a namespace of a format is under the namespaces that the
\* layer below it is under; a layer that has some is under these.
LEMMA NamespacesStep ==
    ASSUME NEW a \in Ancestries, NEW by, NEW v, NEW i \in DOMAIN LayersOf[a]
    PROVE  LET own == OfFormat(FoundIn(by, LayersOf[a][i]) \cap Namespaces, v)
           IN  NamespacesAt(a, by, i, v) =
                 IF own # {} THEN own ELSE IF i = 1 THEN {} ELSE NamespacesAt(a, by, i - 1, v)
<1> DEFINE own == OfFormat(FoundIn(by, LayersOf[a][i]) \cap Namespaces, v)
           with == With(a, by, Namespaces, v)
           lower(k) == {j \in with : j <= k}
<1>1. with \subseteq Nat \ {0} /\ i \in Nat \ {0}
  BY Positions DEF With
<1>2. i \in with <=> own # {}
  BY DEF With
<1>3. \A k : NamespacesAt(a, by, k, v) =
               IF lower(k) = {} THEN {}
               ELSE OfFormat(FoundIn(by, LayersOf[a][Max(lower(k))]) \cap Namespaces, v)
  BY DEF NamespacesAt
<1>4. CASE own # {}
  <2>1. i \in lower(i) /\ lower(i) \in SUBSET Nat /\ \A m \in lower(i) : m <= i
    BY <1>1, <1>2, <1>4
  <2>2. Max(lower(i)) = i
    <3> HIDE DEF lower, with
    <3> QED
      BY <2>1, MaxIsGreatest
  <2> QED
    BY <1>3, <1>4, <2>1, <2>2, Zenon
<1>5. CASE own = {} /\ i # 1
  <2>1. \A j \in with : j <= i <=> j <= i - 1
    <3>1. i \notin with
      BY <1>2, <1>5, Zenon
    <3>2. ASSUME NEW j \in with PROVE i \in Nat \ {0} /\ j \in Nat /\ j # i
      BY <1>1, <3>1, Zenon
    <3> QED
      BY <3>2, Before, Zenon
  <2>2. lower(i) = lower(i - 1)
    BY <2>1
  <2> QED
    BY <1>3, <1>5, <2>2, Zenon
<1>6. CASE own = {} /\ i = 1
  <2>1. i \notin with
    BY <1>2, <1>6, Zenon
  <2>2. lower(i) = {}
    <3> SUFFICES ASSUME NEW j \in with, j <= i PROVE FALSE
      OBVIOUS
    <3> HIDE DEF with
    <3> QED
      BY <1>1, <1>6, <2>1
  <2> QED
    BY <1>3, <1>6, <2>2, Zenon
<1> QED
  BY <1>4, <1>5, <1>6

\* The maps of namespaces hold, after each layer, a namespace that the layer is
\* under, whichever order its namespaces are listed in.
LEMMA NamespacesInForce ==
    ASSUME NEW a \in Ancestries, NEW by, NEW seen, IsSeen(seen, a, by),
           NEW ns \in NamespacesOf(seen), NEW v \in Formats
    PROVE  \A i \in DOMAIN LayersOf[a] :
             /\ NamespacesAt(a, by, i, v) = {} => ns[i][v] = NoNamespace
             /\ NamespacesAt(a, by, i, v) # {} =>
                  ns[i][v] \in NamespacesAt(a, by, i, v) /\ ns[i][v] # NoNamespace
<1> DEFINE own(i) == OfFormat(FoundIn(by, LayersOf[a][i]) \cap Namespaces, v)
           at(i) == NamespacesAt(a, by, i, v)
           Good(i) == /\ at(i) = {} => ns[i][v] = NoNamespace
                      /\ at(i) # {} => ns[i][v] \in at(i) /\ ns[i][v] # NoNamespace
           Bad == {i \in DOMAIN LayersOf[a] : ~ Good(i)}
<1>1. /\ DOMAIN LayersOf[a] \subseteq Nat
      /\ \A i \in DOMAIN LayersOf[a] : i # 1 => i - 1 \in DOMAIN LayersOf[a]
  BY Positions
<1>2. ASSUME NEW i \in DOMAIN LayersOf[a]
      PROVE  at(i) = IF own(i) # {} THEN own(i) ELSE IF i = 1 THEN {} ELSE at(i - 1)
  BY NamespacesStep, Zenon
<1>3. ASSUME NEW i \in DOMAIN LayersOf[a]
      PROVE  IF own(i) # {} THEN ns[i][v] \in own(i)
             ELSE ns[i][v] = IF i = 1 THEN NoNamespace ELSE ns[i - 1][v]
  BY Zenon DEF NamespacesOf, IsSeen
<1>4. \A i : own(i) \subseteq Namespaces
  BY DEF OfFormat
<1>5. ASSUME NEW i \in DOMAIN LayersOf[a], i # 1 => Good(i - 1) PROVE Good(i)
  <2> HIDE DEF own, at
  <2> QED
    BY <1>2, <1>3, <1>4, <1>5, LayerAssumption
<1>6. Bad = {}
  <2> SUFFICES ASSUME Bad # {} PROVE FALSE
    OBVIOUS
  <2>1. PICK i \in Bad : \A m \in Bad : i <= m
    <3> HIDE DEF Good
    <3> QED
      BY <1>1, LeastNumber, Zenon
  <2>2. i # 1 => i - 1 \notin Bad
    <3> HIDE DEF Good
    <3> QED
      BY <1>1, <2>1
  <2> QED
    BY <1>1, <1>5, <2>1, <2>2
<1> QED
  BY <1>6

-----------------------------------------------------------------------------
\* HeldFrom, as far as the layers up to i tell.
HeldUpTo(a, by, f, i) ==
    {k \in With(a, by, Features, Format[f]) :
        /\ k <= i
        /\ \A j \in With(a, by, Features, Format[f]) :
             k <= j /\ j <= i => f \in FoundIn(by, LayersOf[a][j])}

\* A run of layers that hold a feature lies within the layers read so far.
LEMMA HeldIsPosition ==
    ASSUME NEW a \in Ancestries, NEW by, NEW f, NEW i \in Nat
    PROVE  HeldUpTo(a, by, f, i) \subseteq 1 .. i
BY Positions DEF HeldUpTo, With

\* After the last layer it is HeldFrom.
LEMMA HeldByAll ==
    ASSUME NEW a \in Ancestries, NEW by, NEW f
    PROVE  HeldUpTo(a, by, f, Len(LayersOf[a])) = HeldFrom(a, by, f)
<1>1. \A k \in With(a, by, Features, Format[f]) : k \in Nat /\ k <= Len(LayersOf[a])
  BY Positions DEF With
<1> QED
  BY <1>1 DEF HeldUpTo, HeldFrom

\* A layer with features of f's format keeps f or drops it; other layers leave
\* it alone.
LEMMA HeldStep ==
    ASSUME NEW a \in Ancestries, NEW by, NEW f, NEW i \in DOMAIN LayersOf[a]
    PROVE  HeldUpTo(a, by, f, i) =
             IF i \notin With(a, by, Features, Format[f]) THEN HeldUpTo(a, by, f, i - 1)
             ELSE IF f \in FoundIn(by, LayersOf[a][i]) THEN HeldUpTo(a, by, f, i - 1) \cup {i}
             ELSE {}
<1> DEFINE with == With(a, by, Features, Format[f])
           has(j) == f \in FoundIn(by, LayersOf[a][j])
           held(n) == {k \in with : k <= n /\ \A j \in with : k <= j /\ j <= n => has(j)}
<1>1. with \subseteq Nat \ {0} /\ i \in Nat \ {0}
  BY Positions DEF With
<1>2. \A n : HeldUpTo(a, by, f, n) = held(n)
  BY DEF HeldUpTo
<1> HIDE DEF with, has
<1>3. CASE i \notin with
  <2>1. \A j \in with : j <= i <=> j <= i - 1
    BY <1>1, <1>3
  <2>2. held(i) = held(i - 1)
    BY <2>1
  <2> QED
    BY <1>2, <1>3, <2>2, Zenon DEF with
<1>4. CASE i \in with /\ has(i)
  <2>1. \A j \in with : j <= i <=> j <= i - 1 \/ j = i
    BY <1>1, <1>4
  <2>2. \A j \in with : j <= i - 1 => j # i /\ j <= i
    BY <1>1
  <2>3. ASSUME NEW k \in held(i) PROVE k \in held(i - 1) \cup {i}
    BY <2>1, <2>2
  <2>4. ASSUME NEW k \in held(i - 1) PROVE k \in held(i)
    BY <1>4, <2>1, <2>2
  <2>5. i \in held(i)
    BY <1>1, <1>4
  <2>6. held(i) = held(i - 1) \cup {i}
    <3> HIDE DEF held
    <3> QED
      BY <2>3, <2>4, <2>5
  <2> QED
    BY <1>2, <1>4, <2>6 DEF with, has
<1>5. CASE i \in with /\ ~ has(i)
  <2>1. held(i) = {}
    BY <1>1, <1>5
  <2> QED
    BY <1>2, <1>5, <2>1 DEF with, has
<1> QED
  BY <1>3, <1>4, <1>5 DEF with, has

\* The layer that introduced f is the first one to hold it.
Introduction(a, by, ns, f, i) ==
    [feature |-> f, namespace |-> ns[Min(HeldUpTo(a, by, f, i))][Format[f]],
     index |-> Min(HeldUpTo(a, by, f, i))]

\* The features of format v that the layers up to i introduced and hold.
IntroducedUpTo(a, by, ns, v, i) ==
    {Introduction(a, by, ns, f, i) :
        f \in {g \in OfFormat(Features, v) : HeldUpTo(a, by, g, i) # {}}}

\* A feature that is held stays introduced where it was.
LEMMA IntroductionStays ==
    ASSUME NEW a \in Ancestries, NEW by, NEW ns, NEW f, NEW i \in DOMAIN LayersOf[a],
           HeldUpTo(a, by, f, i) # {}
    PROVE  Introduction(a, by, ns, f, i) =
             IF HeldUpTo(a, by, f, i - 1) # {} THEN Introduction(a, by, ns, f, i - 1)
             ELSE [feature |-> f, namespace |-> ns[i][Format[f]], index |-> i]
<1> DEFINE old == HeldUpTo(a, by, f, i - 1)
           new == HeldUpTo(a, by, f, i)
<1>1. i \in Nat /\ i - 1 \in Nat
  BY Positions
<1>2. old \subseteq 1 .. i - 1
  BY <1>1, HeldIsPosition
<1>3. new = old \/ new = old \cup {i}
  BY HeldStep
<1> HIDE DEF old, new
<1>4. CASE old = {}
  <2>1. new = {i}
    BY <1>3, <1>4 DEF new
  <2>2. Min(new) = i
    BY <1>1, <2>1, MinIsLeast
  <2> QED
    BY <1>4, <2>2 DEF Introduction, old, new
<1>5. CASE old # {}
  <2>1. old \in SUBSET Nat /\ new \in SUBSET Nat
    <3>1. \A k \in old : k \in Nat
      BY <1>1, <1>2
    <3> QED
      BY <1>1, <1>3, <3>1
  <2>2. PICK n \in old : \A m \in old : n <= m
    BY <1>5, <2>1, LeastNumber
  <2>3. Min(old) = n
    BY <2>1, <2>2, MinIsLeast
  <2>4. n <= i
    BY <1>1, <1>2
  <2>5. n \in new /\ \A m \in new : n <= m
    BY <1>3, <2>2, <2>4
  <2>6. Min(new) = n
    BY <2>1, <2>5, MinIsLeast
  <2> QED
    BY <1>5, <2>3, <2>6 DEF Introduction, old, new
<1> QED
  BY <1>4, <1>5 DEF old

\* One turn of the loop over the layers.
LEMMA IntroducedStep ==
    ASSUME NEW a \in Ancestries, NEW by, NEW seen, IsSeen(seen, a, by), NEW ns,
           NEW i \in DOMAIN LayersOf[a]
    PROVE  AfterLayer(seen, ns, i, [v \in Formats |-> IntroducedUpTo(a, by, ns, v, i - 1)])
             = [v \in Formats |-> IntroducedUpTo(a, by, ns, v, i)]
<1> DEFINE parents == [v \in Formats |-> IntroducedUpTo(a, by, ns, v, i - 1)]
           cur(v) == OfFormat(seen[i] \cap Features, v)
           step(v) == IF cur(v) = {} THEN parents[v]
                      ELSE {p \in parents[v] : p.feature \in cur(v)}
                           \cup {[feature |-> f, namespace |-> ns[i][v], index |-> i] :
                                   f \in cur(v) \ {p.feature : p \in parents[v]}}
<1> SUFFICES ASSUME NEW v \in Formats
             PROVE  step(v) = IntroducedUpTo(a, by, ns, v, i)
  BY Zenon DEF AfterLayer
<1> DEFINE current == OfFormat(FoundIn(by, LayersOf[a][i]) \cap Features, v)
           F(k) == {g \in OfFormat(Features, v) : HeldUpTo(a, by, g, k) # {}}
           intro(f, k) == Introduction(a, by, ns, f, k)
           before == {intro(f, i - 1) : f \in F(i - 1)}
<1>1. cur(v) = current /\ parents[v] = before
  BY Zenon DEF IsSeen, IntroducedUpTo
<1>2. IntroducedUpTo(a, by, ns, v, i) = {intro(f, i) : f \in F(i)}
  BY Zenon DEF IntroducedUpTo
<1>3. \A f \in OfFormat(Features, v) :
        /\ Format[f] = v
        /\ f \in current <=> f \in FoundIn(by, LayersOf[a][i])
        /\ i \in With(a, by, Features, Format[f]) <=> current # {}
  BY Zenon DEF OfFormat, With
<1>4. current \subseteq OfFormat(Features, v)
  BY Zenon DEF OfFormat
<1>5. ASSUME NEW f \in OfFormat(Features, v)
      PROVE  HeldUpTo(a, by, f, i) =
               IF current = {} THEN HeldUpTo(a, by, f, i - 1)
               ELSE IF f \in current THEN HeldUpTo(a, by, f, i - 1) \cup {i} ELSE {}
  BY <1>3, HeldStep, Zenon
<1>6. ASSUME NEW f \in F(i)
      PROVE  intro(f, i) = IF f \in F(i - 1) THEN intro(f, i - 1)
                           ELSE [feature |-> f, namespace |-> ns[i][v], index |-> i]
  <2>1. f \in OfFormat(Features, v) /\ HeldUpTo(a, by, f, i) # {}
    OBVIOUS
  <2>2. intro(f, i) = IF HeldUpTo(a, by, f, i - 1) # {} THEN intro(f, i - 1)
                      ELSE [feature |-> f, namespace |-> ns[i][Format[f]], index |-> i]
    BY <2>1, IntroductionStays
  <2>3. f \in F(i - 1) <=> HeldUpTo(a, by, f, i - 1) # {}
    BY <2>1, Zenon
  <2>4. Format[f] = v
    BY <1>3, <2>1, Zenon
  <2> HIDE DEF F, intro
  <2> QED
    BY <2>2, <2>3, <2>4, Zenon
<1>7. \A f, k : intro(f, k).feature = f
  BY DEF Introduction
<1> HIDE DEF current, intro
<1>8. CASE current = {}
  <2>1. F(i) = F(i - 1)
    BY <1>5, <1>8
  <2>2. {intro(f, i) : f \in F(i)} = before
    <3> HIDE DEF F
    <3> QED
      BY <1>6, <2>1
  <2> QED
    BY <1>1, <1>2, <1>8, <2>2, Zenon
<1>9. CASE current # {}
  <2>1. F(i) = current
    BY <1>4, <1>5, <1>9
  <2> HIDE DEF F
  <2>2. {p.feature : p \in before} = F(i - 1)
    BY <1>7
  <2>3. {p \in before : p.feature \in current} = {intro(f, i - 1) : f \in F(i - 1) \cap current}
    BY <1>7
  <2> DEFINE kept == {intro(f, i - 1) : f \in F(i - 1) \cap current}
             added == {[feature |-> f, namespace |-> ns[i][v], index |-> i] :
                         f \in current \ F(i - 1)}
  <2>4. step(v) = kept \cup added
    BY <1>1, <1>9, <2>2, <2>3, Zenon
  <2>5. ASSUME NEW f \in current PROVE intro(f, i) \in kept \cup added
    BY <1>6, <2>1
  <2>6. ASSUME NEW p \in kept \cup added PROVE \E f \in current : p = intro(f, i)
    BY <1>6, <2>1
  <2>7. kept \cup added = {intro(f, i) : f \in current}
    <3> HIDE DEF kept, added
    <3> QED
      BY <2>5, <2>6, Zenon
  <2> QED
    BY <1>2, <2>1, <2>4, <2>7, Zenon
<1> QED
  BY <1>8, <1>9, Zenon

\* What the loop has introduced after all layers.
LEMMA IntroducedByAll ==
    ASSUME NEW a \in Ancestries, NEW by, NEW seen, IsSeen(seen, a, by), NEW ns,
           Len(seen) = Len(LayersOf[a])
    PROVE  Introduced(seen, ns) =
             UNION {IntroducedUpTo(a, by, ns, v, Len(seen)) : v \in Formats}
<1> DEFINE N == Len(seen)
           Loop(g) == [i \in 0 .. N |-> IF i = 0 THEN [v \in Formats |-> {}]
                                        ELSE AfterLayer(seen, ns, i, g[i - 1])]
           upTo(i) == [v \in Formats |-> IntroducedUpTo(a, by, ns, v, i)]
           all == [i \in 0 .. N |-> upTo(i)]
           after == CHOOSE g : g = Loop(g)
<1>1. N \in Nat /\ DOMAIN LayersOf[a] = 1 .. N
  BY Positions
<1>2. upTo(0) = [v \in Formats |-> {}]
  <2>1. \A f : HeldUpTo(a, by, f, 0) = {}
    BY HeldIsPosition
  <2>2. \A v : IntroducedUpTo(a, by, ns, v, 0) = {}
    BY <2>1, Zenon DEF IntroducedUpTo
  <2> QED
    BY <2>2, Zenon
<1>3. ASSUME NEW i \in 1 .. N PROVE upTo(i) = AfterLayer(seen, ns, i, upTo(i - 1))
  <2>1. i \in DOMAIN LayersOf[a]
    BY <1>1, Zenon
  <2>2. AfterLayer(seen, ns, i, upTo(i - 1)) = upTo(i)
    BY <2>1, IntroducedStep
  <2> QED
    BY <2>2, Zenon
<1> HIDE DEF upTo, N
<1>4. all = Loop(all)
  <2> SUFFICES ASSUME NEW i \in 0 .. N
               PROVE  upTo(i) = IF i = 0 THEN [v \in Formats |-> {}]
                                ELSE AfterLayer(seen, ns, i, all[i - 1])
    OBVIOUS
  <2>1. CASE i = 0
    BY <1>2, <2>1, Zenon
  <2>2. CASE i # 0
    <3>1. i \in 1 .. N /\ i - 1 \in 0 .. N
      BY <1>1, <2>2
    <3>2. all[i - 1] = upTo(i - 1)
      BY <3>1, Zenon
    <3> QED
      BY <1>3, <2>2, <3>1, <3>2, Zenon
  <2> QED
    BY <2>1, <2>2
<1> HIDE DEF all
<1>5. after = Loop(after)
  <2> HIDE DEF Loop
  <2> QED
    BY <1>4, Zenon
<1>6. Introduced(seen, ns) = UNION Range(after[N])
  BY Zenon DEF Introduced, N
<1> HIDE DEF after
<1> DEFINE Bad == {i \in 0 .. N : after[i] # upTo(i)}
<1>7. Bad = {}
  <2> SUFFICES ASSUME Bad # {} PROVE FALSE
    OBVIOUS
  <2>1. PICK i \in Bad : \A m \in Bad : i <= m
    <3>1. Bad \in SUBSET Nat
      BY <1>1
    <3> QED
      BY <3>1, LeastNumber, Zenon
  <2>2. after[i] = IF i = 0 THEN [v \in Formats |-> {}] ELSE AfterLayer(seen, ns, i, after[i - 1])
    BY <1>5, Zenon
  <2>3. CASE i = 0
    BY <1>2, <2>2, <2>3, Zenon
  <2>4. CASE i # 0
    <3>1. i \in 1 .. N /\ i - 1 \in 0 .. N /\ i - 1 \notin Bad
      BY <1>1, <2>1, <2>4
    <3>2. after[i - 1] = upTo(i - 1)
      BY <3>1, Zenon
    <3> QED
      BY <1>3, <2>2, <2>4, <3>1, <3>2, Zenon
  <2> QED
    BY <2>3, <2>4
<1>8. after[N] = upTo(N)
  <2>1. N \in 0 .. N
    BY <1>1
  <2> QED
    BY <1>7, <2>1, Zenon
<1>9. Range(upTo(N)) = {IntroducedUpTo(a, by, ns, v, N) : v \in Formats}
  BY Zenon DEF Range, upTo
<1> QED
  BY <1>6, <1>8, <1>9, Zenon DEF N

-----------------------------------------------------------------------------
(* What computeAncestryLayers returns.                                      *)

\* A feature has a version format.
LEMMA FeatureFormat ==
    ASSUME NEW f \in Features
    PROVE  Format[f] \in Formats
BY LayerAssumption DEF Items

\* computeAncestryLayers refuses an image in which some feature comes before every
\* namespace of its version format, and no other.
THEOREM RefusesIllFormed ==
    ASSUME NEW a \in Ancestries, NEW by, NEW seen, IsSeen(seen, a, by),
           NEW ns \in NamespacesOf(seen)
    PROVE  NoCorrespondingFormat(seen, ns) <=> IllFormed(a, by)
<1>1. ASSUME NEW i \in DOMAIN LayersOf[a], NEW f \in Features
      PROVE  ns[i][Format[f]] = NoNamespace <=> NamespacesAt(a, by, i, Format[f]) = {}
  <2>1. Format[f] \in Formats
    BY FeatureFormat
  <2> QED
    BY <2>1, NamespacesInForce
<1>2. NoCorrespondingFormat(seen, ns) <=>
        \E i \in DOMAIN LayersOf[a] : \E f \in FoundIn(by, LayersOf[a][i]) \cap Features :
            ns[i][Format[f]] = NoNamespace
  BY Zenon DEF NoCorrespondingFormat, IsSeen
<1> QED
  BY <1>1, <1>2, Zenon DEF IllFormed

\* Where it introduces the features, by HeldFrom.
LEMMA IntroducedIsHeld ==
    ASSUME NEW a \in Ancestries, NEW by, NEW seen, IsSeen(seen, a, by), NEW ns,
           Len(seen) = Len(LayersOf[a])
    PROVE  Introduced(seen, ns) =
             {[feature |-> f, namespace |-> ns[Min(HeldFrom(a, by, f))][Format[f]],
               index |-> Min(HeldFrom(a, by, f))] :
                f \in {g \in Features : HeldFrom(a, by, g) # {}}}
<1> DEFINE held(f) == HeldUpTo(a, by, f, Len(seen))
           rec(f) == [feature |-> f, namespace |-> ns[Min(held(f))][Format[f]],
                      index |-> Min(held(f))]
           upTo(v) == {rec(f) : f \in {g \in OfFormat(Features, v) : held(g) # {}}}
<1>1. Introduced(seen, ns) = UNION {upTo(v) : v \in Formats}
  <2>1. Introduced(seen, ns) = UNION {IntroducedUpTo(a, by, ns, v, Len(seen)) : v \in Formats}
    BY IntroducedByAll
  <2>2. \A v : IntroducedUpTo(a, by, ns, v, Len(seen)) = upTo(v)
    BY Zenon DEF IntroducedUpTo, Introduction
  <2> QED
    BY <2>1, <2>2, Zenon
<1>2. \A f \in Features : f \in OfFormat(Features, Format[f]) /\ Format[f] \in Formats
  BY FeatureFormat DEF OfFormat
<1>3. \A v : OfFormat(Features, v) \subseteq Features
  BY DEF OfFormat
<1>4. \A f : held(f) = HeldFrom(a, by, f)
  BY HeldByAll, Zenon
<1> HIDE DEF held
<1>5. UNION {upTo(v) : v \in Formats} = {rec(f) : f \in {g \in Features : held(g) # {}}}
  <2> HIDE DEF rec
  <2>1. ASSUME NEW f \in Features, held(f) # {}
        PROVE  Format[f] \in Formats /\ rec(f) \in upTo(Format[f])
    BY <1>2, <2>1, Zenon
  <2>2. ASSUME NEW v \in Formats, NEW p \in upTo(v)
        PROVE  p \in {rec(f) : f \in {g \in Features : held(g) # {}}}
    BY <1>3, <2>2, Zenon
  <2> QED
    BY <2>1, <2>2, Zenon
<1> QED
  BY <1>1, <1>4, <1>5, Zenon

\* What computeAncestryLayers returns is a scan of the image by the common detectors.
THEOREM ComputedIsScan ==
    ASSUME NEW a \in Ancestries, NEW by, NEW seen, IsSeen(seen, a, by),
           NEW ns \in NamespacesOf(seen), Len(seen) = Len(LayersOf[a]),
           ~ NoCorrespondingFormat(seen, ns)
    PROVE  IsScanOf(computeAncestryLayers(by, seen, ns), a)
<1> DEFINE scan == computeAncestryLayers(by, seen, ns)
           from(f) == HeldFrom(a, by, f)
           rec(f) == [feature |-> f, namespace |-> ns[Min(from(f))][Format[f]],
                      index |-> Min(from(f))]
           held == {g \in Features : from(g) # {}}
           inLayer(i) == {<<p.feature, p.namespace>> :
                            p \in {q \in {rec(f) : f \in held} : q.index = i}}
<1>1. scan = [by |-> by, layers |-> [i \in DOMAIN seen |-> inLayer(i)]]
  <2>1. Introduced(seen, ns) = {rec(f) : f \in held}
    BY IntroducedIsHeld
  <2> QED
    BY <2>1, Zenon DEF computeAncestryLayers
<1>2. /\ scan.by = by
      /\ DOMAIN scan.layers = DOMAIN LayersOf[a]
      /\ \A i \in DOMAIN LayersOf[a] : scan.layers[i] = inLayer(i)
  <2> HIDE DEF inLayer, scan
  <2> QED
    BY <1>1 DEF IsSeen
<1>3. ASSUME NEW f \in held
      PROVE  /\ Min(from(f)) \in DOMAIN LayersOf[a]
             /\ f \in FoundIn(by, LayersOf[a][Min(from(f))])
  <2>1. from(f) \in SUBSET Nat
    BY Positions DEF HeldFrom, With
  <2>2. PICK n \in from(f) : \A m \in from(f) : n <= m
    BY <2>1, LeastNumber
  <2>3. Min(from(f)) = n
    BY <2>1, <2>2, MinIsLeast
  <2>4. n \in DOMAIN LayersOf[a] /\ f \in FoundIn(by, LayersOf[a][n])
    BY <2>1, <2>2, Zenon DEF HeldFrom, With
  <2> QED
    BY <2>3, <2>4
<1> HIDE DEF from, scan
<1>4. ASSUME NEW i, NEW p
      PROVE  p \in inLayer(i) <=>
               \E f \in held : i = Min(from(f)) /\ p = <<f, ns[i][Format[f]]>>
  <2>1. \A f : rec(f).feature = f /\ rec(f).index = Min(from(f))
                /\ rec(f).namespace = ns[Min(from(f))][Format[f]]
    OBVIOUS
  <2> HIDE DEF rec
  <2>2. ASSUME p \in inLayer(i)
        PROVE  \E f \in held : i = Min(from(f)) /\ p = <<f, ns[i][Format[f]]>>
    <3>1. PICK f \in held : rec(f).index = i /\ p = <<rec(f).feature, rec(f).namespace>>
      BY <2>2, Zenon
    <3> QED
      BY <2>1, <3>1, Zenon
  <2>3. ASSUME NEW f \in held, i = Min(from(f))
        PROVE  <<f, ns[i][Format[f]]>> \in inLayer(i)
    BY <2>1, <2>3
  <2> HIDE DEF inLayer, held
  <2> QED
    BY <2>2, <2>3, Zenon
<1> HIDE DEF inLayer
<1>5. ASSUME NEW i \in DOMAIN LayersOf[a]
      PROVE  {p[1] : p \in inLayer(i)} = {f \in Features : from(f) # {} /\ i = Min(from(f))}
  <2>1. \A p \in inLayer(i) : p[1] \in held /\ i = Min(from(p[1]))
    BY <1>4
  <2>2. \A f \in held : i = Min(from(f)) => \E p \in inLayer(i) : p[1] = f
    <3> SUFFICES ASSUME NEW f \in held, i = Min(from(f))
                 PROVE  \E p \in inLayer(i) : p[1] = f
      OBVIOUS
    <3>1. <<f, ns[i][Format[f]]>> \in inLayer(i) /\ <<f, ns[i][Format[f]]>>[1] = f
      BY <1>4
    <3> QED
      BY <3>1, Zenon
  <2> QED
    BY <2>1, <2>2, Zenon
<1>6. ASSUME NEW i \in DOMAIN LayersOf[a], NEW p \in inLayer(i)
      PROVE  p[2] \in NamespacesAt(a, by, i, Format[p[1]])
  <2>1. PICK f \in held : i = Min(from(f)) /\ p = <<f, ns[i][Format[f]]>>
    BY <1>4
  <2>2. f \in Features /\ f \in FoundIn(by, LayersOf[a][i])
    BY <1>3, <2>1, Zenon
  <2>3. ns[i][Format[f]] # NoNamespace
    BY <2>2, Zenon DEF NoCorrespondingFormat, IsSeen
  <2>4. ns[i][Format[f]] \in NamespacesAt(a, by, i, Format[f])
    <3>1. Format[f] \in Formats
      BY <2>2, FeatureFormat
    <3> QED
      BY <2>3, <3>1, NamespacesInForce
  <2>5. p[1] = f /\ p[2] = ns[i][Format[f]]
    BY <2>1
  <2> QED
    BY <2>4, <2>5, Zenon
<1>7. ASSUME NEW b, b = by, NEW i \in DOMAIN LayersOf[a]
      PROVE  /\ {p[1] : p \in scan.layers[i]} =
                  {f \in Features : HeldFrom(a, b, f) # {} /\ i = Min(HeldFrom(a, b, f))}
             /\ \A p \in scan.layers[i] : p[2] \in NamespacesAt(a, b, i, Format[p[1]])
  BY <1>2, <1>5, <1>6, <1>7, Zenon DEF from
<1>8. ASSUME NEW i \in DOMAIN scan.layers
      PROVE  /\ {p[1] : p \in scan.layers[i]} =
                  {f \in Features : /\ HeldFrom(a, scan.by, f) # {}
                                   /\ i = Min(HeldFrom(a, scan.by, f))}
             /\ \A p \in scan.layers[i] : p[2] \in NamespacesAt(a, scan.by, i, Format[p[1]])
  <2>1. scan.by = by /\ i \in DOMAIN LayersOf[a]
    BY <1>2, Zenon
  <2> QED
    BY <1>7, <2>1, Zenon
<1>9. IsScanOf(scan, a)
  BY <1>2, <1>8, Zenon DEF IsScanOf
<1> QED
  BY <1>9 DEF scan

\* Whether a result is a scan of an image depends on its detectors and on what
\* each of its layers lists, only.
LEMMA SameScan ==
    ASSUME NEW s, NEW t, NEW a, IsScanOf(s, a), t.by = s.by,
           DOMAIN t.layers = DOMAIN s.layers,
           \A i \in DOMAIN s.layers : t.layers[i] = s.layers[i]
    PROVE  IsScanOf(t, a)
<1>1. ASSUME NEW by, by = s.by, t.by = by PROVE IsScanOf(t, a)
  <2>1. ASSUME NEW i \in DOMAIN s.layers, NEW ps, ps = s.layers[i], t.layers[i] = ps
        PROVE  /\ {p[1] : p \in t.layers[i]} =
                    {f \in Features : /\ HeldFrom(a, t.by, f) # {}
                                     /\ i = Min(HeldFrom(a, t.by, f))}
               /\ \A p \in t.layers[i] : p[2] \in NamespacesAt(a, t.by, i, Format[p[1]])
    BY <1>1, <2>1, Zenon DEF IsScanOf
  <2> QED
    BY <1>1, <2>1, Zenon DEF IsScanOf
<1> QED
  BY <1>1

-----------------------------------------------------------------------------
(* What is kept of a scanned layer.                                         *)

\* What is detected in a layer is all that its new detectors find there.
DetectedIsFound ==
    \A w \in Workers, l \in Layers :
        detected[w][l].content =
            {r \in Items \X detected[w][l].by : r[1] \in Finds[r[2]][l]}

KeptInv ==
    /\ scanned \in [Layers -> SUBSET Detectors]
    /\ content \in [Layers -> SUBSET (Items \X Detectors)]
    /\ detected \in [Workers -> [Layers -> Layer]]
    /\ DetectedIsFound
    /\ ScannedIsKept

\* INSERT ... ON CONFLICT DO NOTHING keeps a row for every item, and adds only
\* rows that it was given.
LEMMA InsertedItems ==
    ASSUME NEW old, NEW rows, NEW new \in Inserted(old, rows)
    PROVE  /\ new \subseteq old \cup rows
           /\ {r[1] : r \in new} = {r[1] : r \in old} \cup {r[1] : r \in rows}
<1> DEFINE fresh == {r \in rows : \A o \in old : o[1] # r[1]}
<1>1. PICK s \in SUBSET fresh :
        new = old \cup s /\ \A r \in fresh : \E q \in s : q[1] = r[1]
  BY DEF Inserted
<1>2. \A r \in rows : \E q \in new : q[1] = r[1]
  BY <1>1
<1> QED
  BY <1>1, <1>2

\* A goroutine forgets what it detected.
LEMMA ForgetKeeps ==
    ASSUME KeptInv, NEW w \in Workers, UNCHANGED <<scanned, content>>,
           detected' = [detected EXCEPT ![w] = [l \in Layers |-> EmptyLayer]]
    PROVE  KeptInv'
<1>1. EmptyLayer \in Layer /\ EmptyLayer.by = {} /\ EmptyLayer.content = {}
  BY DEF EmptyLayer, Layer
<1>2. detected' \in [Workers -> [Layers -> Layer]]
  BY <1>1 DEF KeptInv
<1>3. DetectedIsFound'
  <2> SUFFICES ASSUME NEW x \in Workers, NEW l \in Layers
               PROVE  detected'[x][l].content =
                        {r \in Items \X detected'[x][l].by : r[1] \in Finds[r[2]][l]}
    BY DEF DetectedIsFound
  <2>1. CASE x = w
    BY <1>1, <2>1 DEF KeptInv
  <2>2. CASE x # w
    BY <2>2 DEF KeptInv, DetectedIsFound
  <2> QED
    BY <2>1, <2>2
<1>4. ScannedIsKept'
  BY Zenon DEF KeptInv, ScannedIsKept, FoundIn
<1> QED
  BY <1>2, <1>3, <1>4 DEF KeptInv

\* A step that leaves these tables and what is detected alone.
LEMMA SameKeeps == KeptInv /\ UNCHANGED <<scanned, content, detected>> => KeptInv'
<1> SUFFICES ASSUME KeptInv, UNCHANGED <<scanned, content, detected>> PROVE KeptInv'
  OBVIOUS
<1>1. DetectedIsFound'
  BY DEF KeptInv, DetectedIsFound
<1>2. ScannedIsKept'
  BY Zenon DEF KeptInv, ScannedIsKept, FoundIn
<1> QED
  BY <1>1, <1>2 DEF KeptInv

\* What detectContent returns.
LEMMA DetectContentIsFound ==
    ASSUME NEW w \in Workers, NEW l \in Layers
    PROVE  /\ detectContent(w, l) \in Layer
           /\ detectContent(w, l).by \subseteq Enabled[w]
           /\ detectContent(w, l).content =
                {r \in Items \X detectContent(w, l).by : r[1] \in Finds[r[2]][l]}
<1>1. Enabled[w] \subseteq Detectors
  BY DetectorAssumption
<1> QED
  BY <1>1 DEF detectContent, Layer

\* processRequests detects exactly what is there.
LEMMA DetectKeeps ==
    ASSUME KeptInv, NEW w \in Workers, PersistNamespaces(w)
    PROVE  KeptInv'
<1>1. /\ detected' = [detected EXCEPT ![w] = processRequests(w)]
      /\ UNCHANGED <<scanned, content>>
  BY Zenon DEF PersistNamespaces
<1>2. ASSUME NEW l \in Layers
      PROVE  /\ processRequests(w)[l] \in Layer
             /\ processRequests(w)[l].content =
                  {r \in Items \X processRequests(w)[l].by : r[1] \in Finds[r[2]][l]}
  <2>1. CASE l \in Requested(w)
    BY <2>1, DetectContentIsFound DEF processRequests
  <2>2. CASE l \notin Requested(w)
    <3>1. processRequests(w)[l] = detected[w][l]
      BY <2>2 DEF processRequests
    <3> QED
      BY <3>1 DEF KeptInv, DetectedIsFound
  <2> QED
    BY <2>1, <2>2, Zenon
<1>3. processRequests(w) \in [Layers -> Layer]
  BY <1>2 DEF processRequests
<1>4. detected' \in [Workers -> [Layers -> Layer]]
  BY <1>1, <1>3 DEF KeptInv
<1>5. DetectedIsFound'
  <2> SUFFICES ASSUME NEW x \in Workers, NEW l \in Layers
               PROVE  detected'[x][l].content =
                        {r \in Items \X detected'[x][l].by : r[1] \in Finds[r[2]][l]}
    BY DEF DetectedIsFound
  <2>1. CASE x = w
    <3>1. detected'[x][l] = processRequests(w)[l]
      BY <1>1, <2>1 DEF KeptInv
    <3> QED
      BY <1>2, <3>1
  <2>2. CASE x # w
    <3>1. detected'[x][l] = detected[x][l]
      BY <1>1, <2>2 DEF KeptInv
    <3> QED
      BY <3>1 DEF KeptInv, DetectedIsFound
  <2> QED
    BY <2>1, <2>2
<1>6. ScannedIsKept'
  BY <1>1, Zenon DEF KeptInv, ScannedIsKept, FoundIn
<1> QED
  BY <1>1, <1>4, <1>5, <1>6 DEF KeptInv

\* PersistLayer adds the detectors of a layer together with what they found.
LEMMA PersistKeeps ==
    ASSUME KeptInv, NEW w \in Workers, NEW l \in Layers, PersistLayer(w, l)
    PROVE  KeptInv'
<1> DEFINE part == detected[w][l]
<1>1. PICK new \in Inserted(content[l], part.content) :
        content' = [content EXCEPT ![l] = new]
  BY Zenon DEF PersistLayer
<1>2. scanned' = [scanned EXCEPT ![l] = @ \cup part.by] /\ UNCHANGED detected
  BY Zenon DEF PersistLayer
<1>3. /\ part \in Layer /\ part.by \subseteq Detectors
      /\ part.content = {r \in Items \X part.by : r[1] \in Finds[r[2]][l]}
  BY DEF KeptInv, DetectedIsFound, Layer
<1> HIDE DEF part
<1>4. part.content \subseteq Items \X Detectors
  BY <1>3
<1>5. /\ new \subseteq content[l] \cup part.content
      /\ {r[1] : r \in new} = {r[1] : r \in content[l]} \cup {r[1] : r \in part.content}
  BY InsertedItems, Zenon
<1>6. /\ scanned' \in [Layers -> SUBSET Detectors]
      /\ content' \in [Layers -> SUBSET (Items \X Detectors)]
  BY <1>1, <1>2, <1>3, <1>4, <1>5, Zenon DEF KeptInv
<1>7. {r[1] : r \in part.content} = FoundIn(part.by, l)
  <2>1. \A d \in part.by : Finds[d][l] \subseteq Items
    BY <1>3, LayerAssumption
  <2>2. ASSUME NEW i \in FoundIn(part.by, l) PROVE \E r \in part.content : r[1] = i
    <3>1. PICK d \in part.by : i \in Finds[d][l]
      BY DEF FoundIn
    <3>2. <<i, d>> \in part.content
      BY <1>3, <2>1, <3>1
    <3> QED
      BY <3>2
  <2>3. ASSUME NEW r \in part.content PROVE r[1] \in FoundIn(part.by, l)
    BY <1>3 DEF FoundIn
  <2> QED
    BY <2>2, <2>3
<1>8. ScannedIsKept'
  <2> SUFFICES ASSUME NEW m \in Layers
               PROVE  {r[1] : r \in content'[m]} = FoundIn(scanned'[m], m)
    BY DEF ScannedIsKept
  <2>1. {r[1] : r \in content[m]} = FoundIn(scanned[m], m)
    BY DEF KeptInv, ScannedIsKept
  <2>2. CASE m = l
    <3>1. content'[m] = new /\ scanned'[m] = scanned[l] \cup part.by
      BY <1>1, <1>2, <2>2 DEF KeptInv
    <3>2. FoundIn(scanned[l] \cup part.by, l) = FoundIn(scanned[l], l) \cup FoundIn(part.by, l)
      BY DEF FoundIn
    <3> QED
      BY <1>5, <1>7, <2>1, <2>2, <3>1, <3>2, Zenon
  <2>3. CASE m # l
    BY <1>1, <1>2, <2>1, <2>3 DEF KeptInv
  <2> QED
    BY <2>2, <2>3
<1>9. DetectedIsFound'
  BY <1>2 DEF KeptInv, DetectedIsFound
<1> QED
  BY <1>2, <1>6, <1>8, <1>9 DEF KeptInv

LEMMA NextKeeps == KeptInv /\ [Next]_vars => KeptInv'
<1> SUFFICES ASSUME KeptInv, [Next]_vars PROVE KeptInv'
  OBVIOUS
<1>1. CASE UNCHANGED vars
  BY <1>1, SameKeeps DEF vars, tables, local
<1>2. CASE Calm
  BY <1>2, SameKeeps DEF Calm, tables, local
<1>3. ASSUME NEW w \in Workers, NEW kind, NEW a, Receive(w, kind, a)
      PROVE  KeptInv'
  BY <1>3, SameKeeps DEF Receive, tables
<1>4. ASSUME NEW w \in Workers, Return(w), UNCHANGED tables
      PROVE  KeptInv'
  BY <1>4, ForgetKeeps, Zenon DEF Return, tables
<1>5. ASSUME NEW w \in Workers, Fail(w) PROVE KeptInv'
  BY <1>4, <1>5 DEF Fail
<1>6. ASSUME NEW w \in Workers, Run(w) PROVE KeptInv'
  <2>1. CASE InitWorker(w) \/ FindAncestryID(w)
    BY <2>1, SameKeeps, Zenon DEF InitWorker, FindAncestryID, tables
  <2>2. CASE AlreadyProcessed(w) \/ ComputeFailed(w) \/ AncestryNotFound(w) \/ Reply(w)
    BY <1>4, <2>2, Zenon DEF AlreadyProcessed, ComputeFailed, AncestryNotFound, Reply
  <2>3. CASE NewAncestry(w) \/ NotProcessed(w)
    BY <2>3, SameKeeps, Zenon DEF NewAncestry, NotProcessed, tables
  <2>4. CASE FindAncestryDetectors(w) \/ FindAncestryLayerHashes(w) \/ FindAncestryFeatures(w)
    BY <2>4, SameKeeps
       DEF FindAncestryDetectors, FindAncestryLayerHashes, FindAncestryFeatures, tables
  <2>5. CASE ComputeAncestry(w)
    BY <2>5, SameKeeps DEF ComputeAncestry
  <2>6. CASE Upsert(w)
    BY <2>6, ForgetKeeps, Zenon DEF Upsert
  <2>7. CASE LayerNotFound(w) \/ FindLayerID(w) \/ FindLayerDetectors(w)
             \/ FindLayerFeatures(w) \/ FindLayerNamespaces(w)
    BY <2>7, SameKeeps DEF LayerNotFound, FindLayerID, FindLayerDetectors,
                           FindLayerFeatures, FindLayerNamespaces, tables
  <2>8. CASE PersistNamespaces(w)
    BY <2>8, DetectKeeps
  <2>9. CASE PersistFeatures(w)
    BY <2>9, SameKeeps DEF PersistFeatures
  <2>10. CASE \E l \in Layers : PersistLayer(w, l)
    BY <2>10, PersistKeeps
  <2> QED
    BY <1>6, <2>1, <2>2, <2>3, <2>4, <2>5, <2>6, <2>7, <2>8, <2>9, <2>10
       DEF Run, ProcessAncestry, ProcessLayers, GetAncestry
<1> QED
  BY <1>1, <1>2, <1>3, <1>5, <1>6 DEF Next

\* The invariant that ScannedIsKept rests on.
LEMMA KeptInvariant == Spec => []KeptInv
<1>1. Init => KeptInv
  <2> SUFFICES ASSUME Init PROVE KeptInv
    OBVIOUS
  <2>1. EmptyLayer \in Layer /\ EmptyLayer.by = {} /\ EmptyLayer.content = {}
    BY DEF EmptyLayer, Layer
  <2>2. detected = [w \in Workers |-> [l \in Layers |-> EmptyLayer]]
    BY DEF Init
  <2>3. DetectedIsFound /\ detected \in [Workers -> [Layers -> Layer]]
    BY <2>1, <2>2 DEF DetectedIsFound
  <2>4. ScannedIsKept
    BY Zenon DEF Init, ScannedIsKept, FoundIn
  <2> QED
    BY <2>3, <2>4 DEF Init, KeptInv
<1> QED
  BY <1>1, NextKeeps, PTL DEF Spec

\* A layer that counts as scanned by a detector holds what it finds there and
\* nothing else, for any number of instances with any detectors that persist
\* their layers in any order and fail anywhere.
THEOREM ScansAreKept == Spec => []ScannedIsKept
<1>1. KeptInv => ScannedIsKept
  BY DEF KeptInv
<1> QED
  BY <1>1, KeptInvariant, PTL

-----------------------------------------------------------------------------
(* The rows that a transaction refers to.                                   *)

\* The goroutines' memory has its type.  The ancestry of an idle one is never read.
Shape ==
    /\ pc = [w \in Workers |-> pc[w]]
    /\ ancestry = [w \in Workers |-> ancestry[w]]
    /\ \A w \in Workers : pc[w] \notin {"off", "idle"} => ancestry[w] \in Ancestries
    /\ read \in [Workers -> [Layers -> Layer]]
    /\ todo \in [Workers -> SUBSET Layers]
    /\ result = [w \in Workers |-> result[w]]

\* A detector is registered before an instance runs it, so all that have
\* scanned, or that a goroutine has read or run, are in the table.
AllRegistered ==
    /\ \A l \in Layers : scanned[l] \subseteq detectors
    /\ \A w \in Workers : pc[w] # "off" => Enabled[w] \subseteq detectors
    /\ \A w \in Workers, l \in Layers :
         read[w][l].by \subseteq detectors /\ detected[w][l].by \subseteq detectors

\* What the transactions of w's request have committed so far.
Committed(w) ==
    /\ pc[w] = "persistFeatures" => ItemsOf(detected[w]) \cap Namespaces \subseteq entities
    /\ pc[w] = "persistLayers" => /\ ItemsOf(detected[w]) \subseteq entities
                                 /\ Requested(w) \subseteq layers \cup todo[w]
    /\ pc[w] \in {"compute", "upsert"} => Requested(w) \subseteq layers
    /\ pc[w] = "upsert" => /\ UNION Range(result[w].layers) \subseteq namespaced
                          /\ result[w].by \subseteq detectors

RowsInv == Shape /\ AllRegistered /\ \A w \in Workers : Committed(w)

\* The tables of RowsInv never lose a row.
Grow ==
    /\ detectors \subseteq detectors' /\ layers \subseteq layers'
    /\ entities \subseteq entities' /\ namespaced \subseteq namespaced'

\* What another goroutine committed stays.
LEMMA OthersKeep ==
    ASSUME NEW x \in Workers, Committed(x), Grow,
           pc'[x] = pc[x], ancestry'[x] = ancestry[x], detected'[x] = detected[x],
           todo'[x] = todo[x], result'[x] = result[x]
    PROVE  Committed(x)'
BY Zenon DEF Committed, Grow, Requested, ItemsOf

\* The items that are detected are features or namespaces.
LEMMA DetectedItems ==
    ASSUME KeptInv, NEW w \in Workers
    PROVE  /\ ItemsOf(detected[w]) \subseteq Items
           /\ \A l \in Layers : \A r \in detected[w][l].content : r[1] \in ItemsOf(detected[w])
<1>1. \A l \in Layers : detected[w][l].content \subseteq Items \X (Detectors \cup {NoDetector})
  BY DEF KeptInv, Layer
<1> QED
  BY <1>1 DEF ItemsOf

\* The layers of a request are layers.
LEMMA RequestedLayers ==
    ASSUME NEW w \in Workers, ancestry[w] \in Ancestries
    PROVE  Requested(w) \subseteq Layers
BY LayerAssumption DEF Requested, Range

\* A step of w that ends in a place where nothing is asked of w, and leaves the
\* tables alone.
Quiet == {"off", "idle", "find", "detectors", "hashes", "ancestry", "reply", "layer", "by",
          "content", "namespaces", "persistNamespaces"}

LEMMA QuietStep ==
    ASSUME KeptInv, RowsInv, NEW w \in Workers, UNCHANGED <<tables, ancestry>>,
           NEW to \in Quiet, pc' = [pc EXCEPT ![w] = to],
           pc[w] # "off", to \notin {"off", "idle"} => ancestry[w] \in Ancestries,
           read' \in [Workers -> [Layers -> Layer]],
           \A l \in Layers : read'[w][l].by \subseteq detectors,
           \A x \in Workers \ {w} : read'[x] = read[x],
           \/ UNCHANGED detected
           \/ detected' = [detected EXCEPT ![w] = [l \in Layers |-> EmptyLayer]],
           \/ UNCHANGED todo
           \/ todo' = [todo EXCEPT ![w] = {}],
           NEW answer, UNCHANGED result \/ result' = [result EXCEPT ![w] = answer]
    PROVE  RowsInv'
<1>1. Shape'
  <2>1. pc' = [x \in Workers |-> pc'[x]] /\ ancestry' = [x \in Workers |-> ancestry'[x]]
    BY Zenon DEF RowsInv, Shape
  <2>2. \A x \in Workers : pc'[x] \notin {"off", "idle"} => ancestry'[x] \in Ancestries
    BY DEF RowsInv, Shape
  <2>3. todo' \in [Workers -> SUBSET Layers]
    BY Zenon DEF RowsInv, Shape
  <2>4. result' = [x \in Workers |-> result'[x]]
    BY DEF RowsInv, Shape
  <2> QED
    BY <2>1, <2>2, <2>3, <2>4 DEF Shape
<1>2. EmptyLayer.by = {}
  BY Zenon DEF EmptyLayer
<1>3. AllRegistered'
  <2>1. UNCHANGED <<detectors, scanned>>
    BY Zenon DEF tables
  <2>2. \A x \in Workers : pc'[x] # "off" => pc[x] # "off"
    BY DEF RowsInv, Shape
  <2>3. \A x \in Workers, l \in Layers : read'[x][l].by \subseteq detectors
    BY Zenon DEF RowsInv, AllRegistered
  <2>4. \A x \in Workers, l \in Layers : detected'[x][l].by \subseteq detectors
    <3>1. CASE UNCHANGED detected
      BY <3>1, Zenon DEF RowsInv, AllRegistered
    <3>2. CASE detected' = [detected EXCEPT ![w] = [l \in Layers |-> EmptyLayer]]
      BY <1>2, <3>2, Zenon DEF RowsInv, AllRegistered, KeptInv
    <3> QED
      BY <3>1, <3>2, Zenon
  <2> QED
    BY <2>1, <2>2, <2>3, <2>4, Zenon DEF RowsInv, AllRegistered
<1>4. Grow
  BY Zenon DEF Grow, tables
<1>5. ASSUME NEW x \in Workers PROVE Committed(x)'
  <2>1. CASE x = w
    <3>1. pc'[x] = to
      BY <2>1 DEF RowsInv, Shape
    <3> QED
      BY <3>1, Zenon DEF Committed, Quiet
  <2>2. CASE x # w
    <3>1. /\ pc'[x] = pc[x] /\ ancestry'[x] = ancestry[x] /\ detected'[x] = detected[x]
          /\ todo'[x] = todo[x] /\ result'[x] = result[x]
      BY <2>2 DEF RowsInv, Shape, KeptInv
    <3> QED
      BY <1>4, <3>1, OthersKeep, Zenon DEF RowsInv
  <2> QED
    BY <2>1, <2>2, Zenon
<1> QED
  BY <1>1, <1>3, <1>5, Zenon DEF RowsInv

LEMMA ReturnStep ==
    ASSUME KeptInv, RowsInv, NEW w \in Workers, Return(w), pc[w] # "off", UNCHANGED tables
    PROVE  RowsInv'
<1>1. EmptyLayer \in Layer /\ EmptyLayer.by = {}
  BY Zenon DEF EmptyLayer, Layer
<1>2. /\ read' \in [Workers -> [Layers -> Layer]]
      /\ \A l \in Layers : read'[w][l].by \subseteq detectors
      /\ \A x \in Workers \ {w} : read'[x] = read[x]
  BY <1>1 DEF Return, RowsInv, Shape
<1>3. "idle" \in Quiet
  BY DEF Quiet
<1> QED
  BY <1>2, <1>3, QuietStep, Zenon DEF Return

\* A step of w that leaves the tables and the layers it read alone.
LEMMA ReadNothing ==
    ASSUME KeptInv, RowsInv, NEW w \in Workers,
           UNCHANGED <<tables, ancestry, read, detected, todo>>,
           NEW to \in Quiet \ {"off", "idle"}, pc' = [pc EXCEPT ![w] = to],
           pc[w] \notin {"off", "idle"},
           NEW answer, UNCHANGED result \/ result' = [result EXCEPT ![w] = answer]
    PROVE  RowsInv'
<1>1. /\ read' \in [Workers -> [Layers -> Layer]] /\ ancestry[w] \in Ancestries
      /\ \A l \in Layers : read'[w][l].by \subseteq detectors
      /\ \A x \in Workers \ {w} : read'[x] = read[x]
  BY DEF RowsInv, Shape, AllRegistered
<1> QED
  BY <1>1, QuietStep, Zenon

\* FindAncestry, and the step from isAncestryProcessed to processLayers.
LEMMA FindAncestryStep ==
    ASSUME KeptInv, RowsInv, NEW w \in Workers,
           \/ NewAncestry(w) \/ FindAncestryID(w) \/ NotProcessed(w)
           \/ FindAncestryDetectors(w) \/ FindAncestryLayerHashes(w)
           \/ FindAncestryFeatures(w)
    PROVE  RowsInv'
<1> USE DEF Go, Quiet
<1>1. CASE NewAncestry(w)
  BY <1>1, ReadNothing, Zenon DEF NewAncestry
<1>2. CASE FindAncestryID(w)
  BY <1>2, ReadNothing, Zenon DEF FindAncestryID
<1>3. CASE NotProcessed(w)
  BY <1>3, ReadNothing, Zenon DEF NotProcessed
<1>4. CASE FindAncestryDetectors(w)
  <2>1. \E answer : result' = [result EXCEPT ![w] = answer]
    BY <1>4, Zenon DEF FindAncestryDetectors
  <2> QED
    BY <1>4, <2>1, ReadNothing, Zenon DEF FindAncestryDetectors
<1>5. CASE FindAncestryLayerHashes(w)
  <2>1. \E answer : result' = [result EXCEPT ![w] = answer]
    BY <1>5, Zenon DEF FindAncestryLayerHashes
  <2> QED
    BY <1>5, <2>1, ReadNothing, Zenon DEF FindAncestryLayerHashes
<1>6. CASE FindAncestryFeatures(w)
  <2>1. \E answer : result' = [result EXCEPT ![w] = answer]
    BY <1>6, Zenon DEF FindAncestryFeatures
  <2> QED
    BY <1>6, <2>1, ReadNothing, Zenon DEF FindAncestryFeatures
<1> QED
  BY <1>1, <1>2, <1>3, <1>4, <1>5, <1>6

\* What a query reads of the content of a layer.
LEMMA RowsOfLayer ==
    ASSUME KeptInv, NEW w \in Workers, NEW S, Hash(w) \in Layers
    PROVE  RowsOf(w, S) \subseteq Items \X (Detectors \cup {NoDetector})
<1>1. content[Hash(w)] \subseteq Items \X Detectors
  BY DEF KeptInv
<1> QED
  BY <1>1 DEF RowsOf

\* FindLayer.
LEMMA FindLayerStep ==
    ASSUME KeptInv, RowsInv, NEW w \in Workers,
           \/ LayerNotFound(w) \/ FindLayerID(w) \/ FindLayerDetectors(w)
           \/ FindLayerFeatures(w) \/ FindLayerNamespaces(w)
    PROVE  RowsInv'
<1> DEFINE h == Hash(w)
<1>1. /\ UNCHANGED <<tables, ancestry, detected, todo, result>>
      /\ pc[w] \in {"layer", "by", "content", "namespaces"}
      /\ \E to \in Quiet \ {"off", "idle"} : pc' = [pc EXCEPT ![w] = to]
  BY Zenon DEF LayerNotFound, FindLayerID, FindLayerDetectors, FindLayerFeatures,
         FindLayerNamespaces, NextLayer, Go, Quiet
<1>2. \/ UNCHANGED read
      \/ \E layer : /\ read' = [read EXCEPT ![w][h] = layer]
                    /\ h \in Layers => layer \in Layer /\ layer.by \subseteq detectors
  <2>1. CASE LayerNotFound(w)
    <3>1. EmptyLayer \in Layer /\ EmptyLayer.by \subseteq detectors
      BY Zenon DEF EmptyLayer, Layer
    <3> QED
      BY <2>1, <3>1, Zenon DEF LayerNotFound
  <2>2. CASE FindLayerID(w)
    BY <2>2 DEF FindLayerID
  <2>3. CASE FindLayerDetectors(w)
    <3> DEFINE layer == [by |-> scanned[h], content |-> {}]
    <3>1. read' = [read EXCEPT ![w][h] = layer]
      BY <2>3 DEF FindLayerDetectors
    <3>2. h \in Layers => layer \in Layer /\ layer.by \subseteq detectors
      BY Zenon DEF KeptInv, RowsInv, AllRegistered, Layer
    <3> QED
      BY <3>1, <3>2, Zenon
  <2>4. CASE FindLayerFeatures(w)
    <3> DEFINE layer == [read[w][h] EXCEPT !.content = RowsOf(w, Features)]
    <3>1. read' = [read EXCEPT ![w][h] = layer]
      BY <2>4 DEF FindLayerFeatures
    <3>2. h \in Layers => layer \in Layer /\ layer.by \subseteq detectors
      <4>1. h \in Layers => read[w][h] \in Layer /\ read[w][h].by \subseteq detectors
        BY DEF RowsInv, Shape, AllRegistered
      <4>2. h \in Layers => RowsOf(w, Features) \subseteq Items \X (Detectors \cup {NoDetector})
        BY RowsOfLayer
      <4> QED
        BY <4>1, <4>2 DEF Layer
    <3> QED
      BY <3>1, <3>2, Zenon
  <2>5. CASE FindLayerNamespaces(w)
    <3> DEFINE layer == [read[w][h] EXCEPT !.content = @ \cup RowsOf(w, Namespaces)]
    <3>1. read' = [read EXCEPT ![w][h] = layer]
      BY <2>5 DEF FindLayerNamespaces
    <3>2. h \in Layers => layer \in Layer /\ layer.by \subseteq detectors
      <4>1. h \in Layers => read[w][h] \in Layer /\ read[w][h].by \subseteq detectors
        BY DEF RowsInv, Shape, AllRegistered
      <4>2. h \in Layers => RowsOf(w, Namespaces) \subseteq Items \X (Detectors \cup {NoDetector})
        BY RowsOfLayer
      <4> QED
        BY <4>1, <4>2 DEF Layer
    <3> QED
      BY <3>1, <3>2, Zenon
  <2> QED
    BY <2>1, <2>2, <2>3, <2>4, <2>5
<1> HIDE DEF h
<1>3. /\ read' \in [Workers -> [Layers -> Layer]]
      /\ \A l \in Layers : read'[w][l].by \subseteq detectors
      /\ \A x \in Workers \ {w} : read'[x] = read[x]
  <2>1. CASE UNCHANGED read
    BY <2>1 DEF RowsInv, Shape, AllRegistered
  <2>2. ASSUME NEW layer, read' = [read EXCEPT ![w][h] = layer],
               h \in Layers => layer \in Layer /\ layer.by \subseteq detectors
        PROVE  <1>3
    BY <2>2, Zenon DEF RowsInv, Shape, AllRegistered
  <2> QED
    BY <1>2, <2>1, <2>2
<1>4. ancestry[w] \in Ancestries
  BY <1>1 DEF RowsInv, Shape
<1> QED
  BY <1>1, <1>3, <1>4, QuietStep, Zenon

\* InitWorker registers the detectors of an instance.
LEMMA InitWorkerStep ==
    ASSUME KeptInv, RowsInv, NEW w \in Workers, InitWorker(w)
    PROVE  RowsInv'
<1>1. /\ pc' = [pc EXCEPT ![w] = "idle"] /\ detectors' = detectors \cup Enabled[w]
      /\ UNCHANGED <<scanned, layers, entities, namespaced,
                     ancestry, read, detected, todo, result>>
  BY DEF InitWorker, Go
<1>2. Shape'
  BY <1>1 DEF RowsInv, Shape
<1>3. AllRegistered'
  BY <1>1, Zenon DEF RowsInv, Shape, AllRegistered
<1>4. ASSUME NEW x \in Workers PROVE Committed(x)'
  <2>1. CASE x = w
    <3>1. pc'[x] = "idle"
      BY <1>1, <2>1 DEF RowsInv, Shape
    <3> QED
      BY <3>1, Zenon DEF Committed
  <2>2. CASE x # w
    <3>1. pc'[x] = pc[x] /\ Grow
      BY <1>1, <2>2 DEF RowsInv, Shape, Grow
    <3> QED
      BY <1>1, <3>1, OthersKeep, Zenon DEF RowsInv
  <2> QED
    BY <2>1, <2>2
<1> QED
  BY <1>2, <1>3, <1>4 DEF RowsInv

\* A request arrives.
LEMMA ReceiveStep ==
    ASSUME KeptInv, RowsInv, NEW w \in Workers, NEW kind, NEW a \in Ancestries,
           Receive(w, kind, a)
    PROVE  RowsInv'
<1>1. /\ pc' = [pc EXCEPT ![w] = "find"] /\ pc[w] = "idle"
      /\ ancestry' = [ancestry EXCEPT ![w] = a]
      /\ UNCHANGED <<detectors, scanned, layers, entities, namespaced,
                     read, detected, todo, result>>
  BY DEF Receive, Go, tables
<1>2. Shape'
  BY <1>1, Zenon DEF RowsInv, Shape
<1>3. AllRegistered'
  BY <1>1, Zenon DEF RowsInv, Shape, AllRegistered
<1>4. ASSUME NEW x \in Workers PROVE Committed(x)'
  <2>1. CASE x = w
    <3>1. pc'[x] = "find"
      BY <1>1, <2>1 DEF RowsInv, Shape
    <3> QED
      BY <3>1, Zenon DEF Committed
  <2>2. CASE x # w
    <3>1. pc'[x] = pc[x] /\ ancestry'[x] = ancestry[x] /\ Grow
      BY <1>1, <2>2 DEF RowsInv, Shape, Grow
    <3> QED
      BY <1>1, <3>1, OthersKeep, Zenon DEF RowsInv
  <2> QED
    BY <2>1, <2>2
<1> QED
  BY <1>2, <1>3, <1>4 DEF RowsInv

\* processRequests runs registered detectors, and the namespaces that they
\* find are stored.
LEMMA PersistNamespacesStep ==
    ASSUME KeptInv, RowsInv, NEW w \in Workers, PersistNamespaces(w)
    PROVE  RowsInv'
<1> DEFINE merged == [l \in Layers |-> MergeLayers(read[w][l], detected'[w][l])]
<1>1. /\ pc' = [pc EXCEPT ![w] = "persistFeatures"] /\ pc[w] = "persistNamespaces"
      /\ entities' = entities \cup (ItemsOf(detected'[w]) \cap Namespaces)
      /\ detected' = [detected EXCEPT ![w] = processRequests(w)]
      /\ UNCHANGED <<detectors, scanned, layers, namespaced, ancestry, todo, result>>
  BY Zenon DEF PersistNamespaces, Go
<1>2. read' = [read EXCEPT ![w] = merged]
  BY Zenon DEF PersistNamespaces
<1>3. detected' \in [Workers -> [Layers -> Layer]] /\ detected'[w] = processRequests(w)
  BY <1>1, DetectKeeps DEF KeptInv
<1>4. Enabled[w] \subseteq detectors
  BY <1>1, Zenon DEF RowsInv, AllRegistered
<1>5. ASSUME NEW l \in Layers
      PROVE  processRequests(w)[l].by \subseteq detectors
  BY <1>4, DetectContentIsFound, Zenon DEF processRequests, RowsInv, AllRegistered
<1>6. ASSUME NEW l \in Layers
      PROVE  merged[l] \in Layer /\ merged[l].by \subseteq detectors
  <2>1. read[w][l] \in Layer /\ read[w][l].by \subseteq detectors
    BY DEF RowsInv, Shape, AllRegistered
  <2>2. detected'[w][l] \in Layer /\ detected'[w][l].by \subseteq detectors
    BY <1>3, <1>5, Zenon
  <2> QED
    BY <2>1, <2>2, Zenon DEF MergeLayers, Layer
<1>7. merged \in [Layers -> Layer]
  BY <1>6, Zenon
<1> HIDE DEF merged
<1>8. Shape'
  BY <1>1, <1>2, <1>7, Zenon DEF RowsInv, Shape
<1>9. AllRegistered'
  <2>1. \A x \in Workers, l \in Layers : read'[x][l].by \subseteq detectors
    BY <1>2, <1>6 DEF RowsInv, Shape, AllRegistered
  <2>2. \A x \in Workers, l \in Layers : detected'[x][l].by \subseteq detectors
    BY <1>1, <1>5, Zenon DEF RowsInv, KeptInv, AllRegistered
  <2>3. \A x \in Workers : pc'[x] # "off" => pc[x] # "off"
    BY <1>1 DEF RowsInv, Shape
  <2> QED
    BY <1>1, <2>1, <2>2, <2>3, Zenon DEF RowsInv, AllRegistered
<1>10. ASSUME NEW x \in Workers PROVE Committed(x)'
  <2>1. CASE x = w
    <3>1. pc'[x] = "persistFeatures"
      BY <1>1, <2>1 DEF RowsInv, Shape
    <3>2. ItemsOf(detected'[x]) \cap Namespaces \subseteq entities'
      BY <1>1, <2>1
    <3> QED
      BY <3>1, <3>2, Zenon DEF Committed
  <2>2. CASE x # w
    <3>1. pc'[x] = pc[x] /\ detected'[x] = detected[x] /\ Grow
      BY <1>1, <2>2 DEF RowsInv, Shape, KeptInv, Grow
    <3> QED
      BY <1>1, <3>1, OthersKeep, Zenon DEF RowsInv
  <2> QED
    BY <2>1, <2>2
<1> QED
  BY <1>8, <1>9, <1>10 DEF RowsInv

\* The features that they find are stored.
LEMMA PersistFeaturesStep ==
    ASSUME KeptInv, RowsInv, NEW w \in Workers, PersistFeatures(w)
    PROVE  RowsInv'
<1>1. /\ pc' = [pc EXCEPT ![w] = "persistLayers"] /\ pc[w] = "persistFeatures"
      /\ entities' = entities \cup (ItemsOf(detected[w]) \cap Features)
      /\ todo' = [todo EXCEPT ![w] = Requested(w)]
      /\ UNCHANGED <<detectors, scanned, layers, namespaced, ancestry, read, detected, result>>
  BY Zenon DEF PersistFeatures, Go
<1>2. Requested(w) \subseteq Layers
  BY <1>1, RequestedLayers DEF RowsInv, Shape
<1>3. Shape'
  BY <1>1, <1>2, Zenon DEF RowsInv, Shape
<1>4. AllRegistered'
  BY <1>1 DEF RowsInv, Shape, AllRegistered
<1>5. ASSUME NEW x \in Workers PROVE Committed(x)'
  <2>1. CASE x = w
    <3>1. pc'[x] = "persistLayers" /\ todo'[x] = Requested(x)
      BY <1>1, <2>1 DEF RowsInv, Shape
    <3>2. ItemsOf(detected[x]) \cap Namespaces \subseteq entities
      BY <1>1, <2>1, Zenon DEF RowsInv, Committed
    <3>3. ItemsOf(detected[x]) \subseteq entities'
      BY <1>1, <2>1, <3>2, DetectedItems, Zenon DEF Items
    <3>4. Requested(x)' = Requested(x)
      BY <1>1, Zenon DEF Requested
    <3> QED
      BY <1>1, <3>1, <3>3, <3>4, Zenon DEF Committed
  <2>2. CASE x # w
    <3>1. pc'[x] = pc[x] /\ todo'[x] = todo[x] /\ Grow
      BY <1>1, <2>2 DEF RowsInv, Shape, Grow
    <3> QED
      BY <1>1, <3>1, OthersKeep, Zenon DEF RowsInv
  <2> QED
    BY <2>1, <2>2
<1> QED
  BY <1>3, <1>4, <1>5 DEF RowsInv

\* A layer is stored, with registered detectors.
LEMMA PersistLayerStep ==
    ASSUME KeptInv, RowsInv, NEW w \in Workers, NEW l \in Layers, PersistLayer(w, l)
    PROVE  RowsInv'
<1>1. /\ pc' = [pc EXCEPT ![w] = IF todo[w] = {l} THEN "compute" ELSE @]
      /\ pc[w] = "persistLayers" /\ detected[w][l].by \subseteq detectors
      /\ scanned' = [scanned EXCEPT ![l] = @ \cup detected[w][l].by]
      /\ layers' = layers \cup {l} /\ todo' = [todo EXCEPT ![w] = @ \ {l}]
      /\ UNCHANGED <<detectors, entities, namespaced, ancestry, read, detected, result>>
  BY Zenon DEF PersistLayer, NoMissingEntities
<1>2. Shape'
  BY <1>1, Zenon DEF RowsInv, Shape
<1>3. AllRegistered'
  <2>1. \A m \in Layers : scanned'[m] \subseteq detectors
    BY <1>1, Zenon DEF KeptInv, RowsInv, AllRegistered
  <2>2. \A x \in Workers : pc'[x] # "off" => pc[x] # "off"
    BY <1>1, Zenon DEF RowsInv, Shape
  <2> QED
    BY <1>1, <2>1, <2>2, Zenon DEF RowsInv, AllRegistered
<1>4. ASSUME NEW x \in Workers PROVE Committed(x)'
  <2>1. CASE x = w
    <3>1. /\ pc'[x] = IF todo[x] = {l} THEN "compute" ELSE "persistLayers"
          /\ todo'[x] = todo[x] \ {l}
      BY <1>1, <2>1 DEF RowsInv, Shape
    <3>2. ItemsOf(detected[x]) \subseteq entities /\ Requested(x) \subseteq layers \cup todo[x]
      BY <1>1, <2>1, Zenon DEF RowsInv, Committed
    <3>3. Requested(x)' = Requested(x)
      BY <1>1, Zenon DEF Requested
    <3>4. /\ Requested(x) \subseteq layers' \cup todo'[x]
          /\ todo[x] = {l} => Requested(x) \subseteq layers'
      BY <1>1, <3>1, <3>2, Zenon
    <3>5. UNCHANGED <<entities, detected>>
      BY <1>1, Zenon
    <3>6. CASE todo[x] = {l}
      BY <3>1, <3>3, <3>4, <3>6, Zenon DEF Committed
    <3>7. CASE todo[x] # {l}
      <4>1. ItemsOf(detected[x])' \subseteq entities'
        BY <3>2, <3>5, Zenon DEF ItemsOf
      <4> QED
        BY <3>1, <3>3, <3>4, <3>7, <4>1, Zenon DEF Committed
    <3> QED
      BY <3>6, <3>7
  <2>2. CASE x # w
    <3>1. pc'[x] = pc[x] /\ todo'[x] = todo[x] /\ Grow
      BY <1>1, <2>2, Zenon DEF RowsInv, Shape, Grow
    <3> QED
      BY <1>1, <3>1, OthersKeep, Zenon DEF RowsInv
  <2> QED
    BY <2>1, <2>2
<1> QED
  BY <1>2, <1>3, <1>4 DEF RowsInv

\* The detectors that all layers of a request have in common are registered:
\* there is at least one layer.
LEMMA CommonAreRegistered ==
    ASSUME RowsInv, NEW w \in Workers, ancestry[w] \in Ancestries
    PROVE  getCommonDetectors(MergedLayers(w)) \subseteq detectors
<1> DEFINE ls == MergedLayers(w)
<1>1. LayersOf[ancestry[w]] \in Seq(Layers) /\ LayersOf[ancestry[w]] # <<>>
  BY LayerAssumption
<1>2. 1 \in DOMAIN LayersOf[ancestry[w]] /\ LayersOf[ancestry[w]][1] \in Layers
  BY <1>1
<1>3. 1 \in DOMAIN ls /\ ls[1] = read[w][LayersOf[ancestry[w]][1]]
  BY <1>2, Zenon DEF MergedLayers
<1>4. ls[1].by \subseteq detectors
  BY <1>2, <1>3, Zenon DEF RowsInv, AllRegistered
<1> QED
  BY <1>3, <1>4, Zenon DEF getCommonDetectors

\* The ancestry is computed and its features are stored with their namespaces.
LEMMA ComputeStep ==
    ASSUME KeptInv, RowsInv, NEW w \in Workers, ComputeAncestry(w)
    PROVE  RowsInv'
<1>1. /\ pc' = [pc EXCEPT ![w] = "upsert"] /\ pc[w] = "compute"
      /\ namespaced' = namespaced \cup UNION Range(result'[w].layers)
      /\ UNCHANGED <<detectors, scanned, layers, entities, ancestry, read, detected, todo>>
  BY Zenon DEF ComputeAncestry, Go
<1>2. PICK answer : /\ result' = [result EXCEPT ![w] = answer]
                    /\ answer.by = getCommonDetectors(MergedLayers(w))
  <2>1. PICK seen, ns :
          result' = [result EXCEPT ![w] =
            computeAncestryLayers(getCommonDetectors(MergedLayers(w)), seen, ns)]
    BY Zenon DEF ComputeAncestry
  <2>2. computeAncestryLayers(getCommonDetectors(MergedLayers(w)), seen, ns).by =
          getCommonDetectors(MergedLayers(w))
    BY Zenon DEF computeAncestryLayers
  <2> QED
    BY <2>1, <2>2, Zenon
<1>3. answer.by \subseteq detectors
  BY <1>1, <1>2, CommonAreRegistered, Zenon DEF RowsInv, Shape
<1>4. Shape'
  BY <1>1, <1>2, Zenon DEF RowsInv, Shape
<1>5. AllRegistered'
  BY <1>1, Zenon DEF RowsInv, Shape, AllRegistered
<1>6. ASSUME NEW x \in Workers PROVE Committed(x)'
  <2>1. CASE x = w
    <3>1. pc'[x] = "upsert" /\ result'[x] = answer
      BY <1>1, <1>2, <2>1, Zenon DEF RowsInv, Shape
    <3>2. Requested(x) \subseteq layers /\ Requested(x)' = Requested(x)
      BY <1>1, <2>1, Zenon DEF RowsInv, Committed, Requested
    <3>3. UNION Range(result'[x].layers) \subseteq namespaced' /\ result'[x].by \subseteq detectors'
      BY <1>1, <1>3, <2>1, <3>1, Zenon
    <3> QED
      BY <1>1, <3>1, <3>2, <3>3, Zenon DEF Committed
  <2>2. CASE x # w
    <3>1. pc'[x] = pc[x] /\ result'[x] = result[x] /\ Grow
      BY <1>1, <1>2, <2>2, Zenon DEF RowsInv, Shape, Grow
    <3> QED
      BY <1>1, <3>1, OthersKeep, Zenon DEF RowsInv
  <2> QED
    BY <2>1, <2>2
<1> QED
  BY <1>4, <1>5, <1>6 DEF RowsInv

\* The ancestry is stored.
LEMMA UpsertStep ==
    ASSUME KeptInv, RowsInv, NEW w \in Workers, Upsert(w)
    PROVE  RowsInv'
<1>1. /\ pc' = [pc EXCEPT ![w] = "idle"] /\ pc[w] = "upsert"
      /\ read' = [read EXCEPT ![w] = [l \in Layers |-> EmptyLayer]]
      /\ detected' = [detected EXCEPT ![w] = [l \in Layers |-> EmptyLayer]]
      /\ result' = [result EXCEPT ![w] = EmptyResult]
      /\ UNCHANGED <<detectors, scanned, layers, entities, namespaced, ancestry, todo>>
  BY Zenon DEF Upsert
<1>2. EmptyLayer \in Layer /\ EmptyLayer.by = {}
  BY Zenon DEF EmptyLayer, Layer
<1>3. Shape'
  BY <1>1, <1>2, Zenon DEF RowsInv, Shape
<1>4. AllRegistered'
  <2>1. \A x \in Workers, l \in Layers : read'[x][l].by \subseteq detectors
    BY <1>1, <1>2, Zenon DEF RowsInv, Shape, AllRegistered
  <2>2. \A x \in Workers, l \in Layers : detected'[x][l].by \subseteq detectors
    BY <1>1, <1>2, Zenon DEF RowsInv, KeptInv, AllRegistered
  <2>3. \A x \in Workers : pc'[x] # "off" => pc[x] # "off"
    BY <1>1, Zenon DEF RowsInv, Shape
  <2> QED
    BY <1>1, <2>1, <2>2, <2>3, Zenon DEF RowsInv, AllRegistered
<1>5. ASSUME NEW x \in Workers PROVE Committed(x)'
  <2>1. CASE x = w
    <3>1. pc'[x] = "idle"
      BY <1>1, <2>1 DEF RowsInv, Shape
    <3> QED
      BY <3>1, Zenon DEF Committed
  <2>2. CASE x # w
    <3>1. pc'[x] = pc[x] /\ detected'[x] = detected[x] /\ result'[x] = result[x] /\ Grow
      BY <1>1, <2>2, Zenon DEF RowsInv, Shape, KeptInv, Grow
    <3> QED
      BY <1>1, <3>1, OthersKeep, Zenon DEF RowsInv
  <2> QED
    BY <2>1, <2>2
<1> QED
  BY <1>3, <1>4, <1>5 DEF RowsInv

LEMMA NextRows == KeptInv /\ RowsInv /\ [Next]_vars => RowsInv'
<1> SUFFICES ASSUME KeptInv, RowsInv, [Next]_vars PROVE RowsInv'
  OBVIOUS
<1>1. CASE UNCHANGED <<tables, local>>
  <2>1. /\ UNCHANGED <<detectors, scanned, layers, entities, namespaced,
                       pc, ancestry, read, detected, todo, result>>
        /\ Grow
    BY <1>1 DEF tables, local, Grow
  <2>2. Shape' /\ AllRegistered'
    BY <2>1, Zenon DEF RowsInv, Shape, AllRegistered
  <2>3. \A w \in Workers : Committed(w)'
    BY <2>1, OthersKeep, Zenon DEF RowsInv
  <2> QED
    BY <2>2, <2>3 DEF RowsInv
<1>2. CASE Calm
  BY <1>1, <1>2 DEF Calm
<1>3. ASSUME NEW w \in Workers, NEW kind, NEW a \in Ancestries, Receive(w, kind, a)
      PROVE  RowsInv'
  BY <1>3, ReceiveStep
<1>4. ASSUME NEW w \in Workers, Fail(w) PROVE RowsInv'
  BY <1>4, ReturnStep DEF Fail
<1>5. ASSUME NEW w \in Workers, Run(w) PROVE RowsInv'
  <2>1. CASE InitWorker(w)
    BY <2>1, InitWorkerStep
  <2>2. CASE AlreadyProcessed(w) \/ ComputeFailed(w) \/ AncestryNotFound(w) \/ Reply(w)
    BY <2>2, ReturnStep, Zenon DEF AlreadyProcessed, ComputeFailed, AncestryNotFound, Reply
  <2>3. CASE \/ NewAncestry(w) \/ FindAncestryID(w) \/ NotProcessed(w)
             \/ FindAncestryDetectors(w) \/ FindAncestryLayerHashes(w)
             \/ FindAncestryFeatures(w)
    BY <2>3, FindAncestryStep
  <2>4. CASE \/ LayerNotFound(w) \/ FindLayerID(w) \/ FindLayerDetectors(w)
             \/ FindLayerFeatures(w) \/ FindLayerNamespaces(w)
    BY <2>4, FindLayerStep
  <2>5. CASE PersistNamespaces(w)
    BY <2>5, PersistNamespacesStep
  <2>6. CASE PersistFeatures(w)
    BY <2>6, PersistFeaturesStep
  <2>7. CASE \E l \in Layers : PersistLayer(w, l)
    BY <2>7, PersistLayerStep
  <2>8. CASE ComputeAncestry(w)
    BY <2>8, ComputeStep
  <2>9. CASE Upsert(w)
    BY <2>9, UpsertStep
  <2> QED
    BY <1>5, <2>1, <2>2, <2>3, <2>4, <2>5, <2>6, <2>7, <2>8, <2>9, Zenon
       DEF Run, ProcessAncestry, ProcessLayers, GetAncestry
<1> QED
  BY <1>1, <1>2, <1>3, <1>4, <1>5 DEF Next, vars

\* The invariant that NothingIsMissing rests on.
LEMMA RowsInvariant == Spec => []RowsInv
<1>1. Init => RowsInv
  <2> SUFFICES ASSUME Init PROVE RowsInv
    OBVIOUS
  <2>1. EmptyLayer \in Layer /\ EmptyLayer.by = {}
    BY Zenon DEF EmptyLayer, Layer
  <2>2. read = [w \in Workers |-> [l \in Layers |-> EmptyLayer]] /\ detected = read
    BY DEF Init
  <2>3. Shape
    <3>1. read \in [Workers -> [Layers -> Layer]]
      BY <2>1, <2>2
    <3>2. \A w \in Workers : pc[w] = "off"
      BY DEF Init
    <3>3. /\ pc = [w \in Workers |-> pc[w]] /\ ancestry = [w \in Workers |-> ancestry[w]]
          /\ todo \in [Workers -> SUBSET Layers] /\ result = [w \in Workers |-> result[w]]
      BY DEF Init
    <3> QED
      BY <3>1, <3>2, <3>3 DEF Shape
  <2>4. AllRegistered
    <3>1. \A w \in Workers, l \in Layers : read[w][l].by = {} /\ detected[w][l].by = {}
      BY <2>1, <2>2, Zenon
    <3>2. \A w \in Workers : pc[w] = "off"
      BY DEF Init
    <3>3. \A l \in Layers : scanned[l] = {}
      BY DEF Init
    <3> QED
      BY <3>1, <3>2, <3>3, Zenon DEF AllRegistered
  <2>5. \A w \in Workers : Committed(w)
    BY Zenon DEF Init, Committed
  <2> QED
    BY <2>3, <2>4, <2>5 DEF RowsInv
<1> QED
  BY <1>1, NextRows, KeptInvariant, PTL DEF Spec

\* PersistLayer and UpsertAncestry find every row they refer to, for any
\* instances and images: ErrMissingEntities is never returned.
THEOREM RowsAreThere == Spec => []NothingIsMissing
<1>1. KeptInv /\ RowsInv => NothingIsMissing
  <2> SUFFICES ASSUME KeptInv, RowsInv, NEW w \in Workers
               PROVE  /\ pc[w] = "persistLayers" =>
                           \A l \in todo[w] : NoMissingEntities(w, l)
                      /\ pc[w] = "upsert" =>
                           /\ Requested(w) \subseteq layers
                           /\ UNION Range(result[w].layers) \subseteq namespaced
                           /\ result[w].by \subseteq detectors
    BY Zenon DEF NothingIsMissing
  <2>1. ASSUME pc[w] = "persistLayers", NEW l \in todo[w] PROVE NoMissingEntities(w, l)
    <3>1. l \in Layers
      BY DEF RowsInv, Shape
    <3>2. detected[w][l].by \subseteq detectors
      BY <3>1, Zenon DEF RowsInv, AllRegistered
    <3>3. ItemsOf(detected[w]) \subseteq entities
      BY <2>1, Zenon DEF RowsInv, Committed
    <3>4. \A r \in detected[w][l].content : r[1] \in entities
      BY <3>1, <3>3, DetectedItems, Zenon
    <3> QED
      BY <3>2, <3>4, Zenon DEF NoMissingEntities
  <2> QED
    BY <2>1, Zenon DEF RowsInv, Committed
<1> QED
  BY <1>1, KeptInvariant, RowsInvariant, PTL

=============================================================================
