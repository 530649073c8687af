--------------------------- MODULE AncestryLayers ---------------------------
(***************************************************************************)
(* What processAncestry makes of the layers of an image, once they are     *)
(* read or scanned: getCommonDetectors and computeAncestryLayers, as pure  *)
(* operators on what the detectors found, layer by layer; and what an      *)
(* image holds for a set of detectors, defined on its own layers.          *)
(***************************************************************************)
EXTENDS Naturals, Sequences, FiniteSetsExt, Functions

CONSTANTS Detectors,    \* detectors: a name, a version and a type
          Layers,       \* layer hashes
          Ancestries,   \* ancestry names
          LayersOf,     \* the layers of each one, the base layer first
          Features,     \* features: a name, a version and a version format
          Namespaces,   \* namespaces
          NoNamespace,  \* what a map yields that has no such version format
          Formats,      \* version formats
          Format,       \* the one of every feature and namespace
          Finds         \* what each detector finds in each layer

Items == Features \cup Namespaces

ASSUME LayerAssumption ==
    /\ \A a \in Ancestries : LayersOf[a] \in Seq(Layers) /\ LayersOf[a] # <<>>
    /\ Features \cap Namespaces = {} /\ NoNamespace \notin Namespaces
    /\ Format \in [Items -> Formats]
    /\ Finds \in [Detectors -> [Layers -> SUBSET Items]]

-----------------------------------------------------------------------------
(* getCommonDetectors and computeAncestryLayers.                           *)

getCommonDetectors(ls) == {d \in Detectors : \A i \in DOMAIN ls : d \in ls[i].by}

OfFormat(S, v) == {x \in S : Format[x] = v}

\* The items of each layer that a common detector found; the others are
\* filtered out.
Seen(ls) ==
    LET common == getCommonDetectors(ls)
    IN  [i \in DOMAIN ls |-> {r[1] : r \in {c \in ls[i].content : c[2] \in common}}]

\* A faulty variant: a layer does not inherit its parents' namespaces.
OwnNamespacesOf(seen) ==
    {ns \in [DOMAIN seen -> [Formats -> Namespaces \cup {NoNamespace}]] :
        \A i \in DOMAIN seen, v \in Formats :
            LET own == OfFormat(seen[i] \cap Namespaces, v)
            IN  IF own # {} THEN ns[i][v] \in own ELSE ns[i][v] = NoNamespace}

\* The maps from version format to namespace after each layer: the layer's own
\* namespace, whichever it lists last if it has several, or its parent's.
NamespacesOf(seen) ==
    {ns \in [DOMAIN seen -> [Formats -> Namespaces \cup {NoNamespace}]] :
        \A i \in DOMAIN seen, v \in Formats :
            LET own == OfFormat(seen[i] \cap Namespaces, v)
            IN  IF own # {} THEN ns[i][v] \in own
                ELSE ns[i][v] = IF i = 1 THEN NoNamespace ELSE ns[i - 1][v]}

\* "No corresponding version format": a feature comes before any namespace of
\* its version format.
NoCorrespondingFormat(seen, ns) ==
    \E i \in DOMAIN seen : \E f \in seen[i] \cap Features : ns[i][Format[f]] = NoNamespace

\* The map of introduced features after layer i, given the one before it.  A
\* layer that has features of a version format replaces those of its parents,
\* but features that they have too stay introduced where they were.
AfterLayer(seen, ns, i, parents) ==
    [v \in Formats |->
        LET current == OfFormat(seen[i] \cap Features, v)
        IN  IF current = {} THEN parents[v]
            ELSE {p \in parents[v] : p.feature \in current}
                 \cup {[feature |-> f, namespace |-> ns[i][v], index |-> i] :
                         f \in current \ {p.feature : p \in parents[v]}}]

\* The introduced features after all layers.
Introduced(seen, ns) ==
    LET after[i \in 0 .. Len(seen)] ==
            IF i = 0 THEN [v \in Formats |-> {}]
            ELSE AfterLayer(seen, ns, i, after[i - 1])
    IN  UNION Range(after[Len(seen)])

computeAncestryLayers(by, seen, ns) ==
    LET features == Introduced(seen, ns)
    IN  [by |-> by,
         layers |-> [i \in DOMAIN seen |->
                       {<<p.feature, p.namespace>> : p \in {q \in features : q.index = i}}]]

-----------------------------------------------------------------------------
(* What an image holds for a set of detectors, defined on its own layers.  *)

FoundIn(by, l) == UNION {Finds[d][l] : d \in by}

\* The layers of a that have something of version format v in S.
With(a, by, S, v) ==
    {i \in DOMAIN LayersOf[a] : OfFormat(FoundIn(by, LayersOf[a][i]) \cap S, v) # {}}

\* The layers from which on every layer with features of f's format has f.
HeldFrom(a, by, f) ==
    {i \in With(a, by, Features, Format[f]) :
        \A j \in With(a, by, Features, Format[f]) :
            j >= i => f \in FoundIn(by, LayersOf[a][j])}

\* The namespaces in which layer i of a has its features of format v.
NamespacesAt(a, by, i, v) ==
    LET lower == {j \in With(a, by, Namespaces, v) : j <= i}
    IN  IF lower = {} THEN {}
        ELSE OfFormat(FoundIn(by, LayersOf[a][Max(lower)]) \cap Namespaces, v)

IllFormed(a, by) ==
    \E i \in DOMAIN LayersOf[a] : \E f \in FoundIn(by, LayersOf[a][i]) \cap Features :
        NamespacesAt(a, by, i, Format[f]) = {}

\* The features of scan are those of image a as its detectors see it, each at
\* the layer that introduced it, in a namespace in force there.
IsScanOf(scan, a) ==
    /\ DOMAIN scan.layers = DOMAIN LayersOf[a]
    /\ \A i \in DOMAIN scan.layers :
         /\ {p[1] : p \in scan.layers[i]} =
              {f \in Features : /\ HeldFrom(a, scan.by, f) # {}
                               /\ i = Min(HeldFrom(a, scan.by, f))}
         /\ \A p \in scan.layers[i] : p[2] \in NamespacesAt(a, scan.by, i, Format[p[1]])
=============================================================================
