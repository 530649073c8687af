----------------------------- MODULE ScanProofs -----------------------------
(***************************************************************************)
(* Proofs about what Worker's ancestries hold, for any number of instances *)
(* that scan and report images at the same time.                           *)
(***************************************************************************)
EXTENDS WorkerProofs


-----------------------------------------------------------------------------
(* What a goroutine has read of a layer.  FindLayer reads the detectors of  *)
(* a layer before its features and these before its namespaces, each in a   *)
(* snapshot of its own.  For the detectors that it read it has all that     *)
(* they find, provided that the tables tell them apart:                     *)

\* The detectors that some instance uses.
Used == UNION {Enabled[w] : w \in Workers}

\* No two detectors find the same thing in a layer; layer_feature and
\* layer_namespace keep one of them only.
OneFinder ==
    \A d, e \in Used : \A l \in Layers : Finds[d][l] \cap Finds[e][l] # {} => d = e

\* No detector is new, so that findAllDetectors knows whoever scans afterwards.
NoneIsNew == Used \subseteq Registered

\* A layer's rows name who found them.
RowsAreFound ==
    /\ Used \subseteq detectors
    /\ \A l \in Layers :
         /\ scanned[l] \subseteq Used
         /\ \A r \in content[l] : r[2] \in Used /\ r[1] \in Finds[r[2]][l]

\* Where FindLayer has found the layer and has queries to make.
Reading == {"by", "content", "namespaces"}

\* What w is to have read of layer l: FindLayer goes step by step.
ReadOf(w, l) ==
    IF pc[w] \notin {"content", "namespaces"} \/ l # Hash(w) THEN Items
    ELSE IF pc[w] = "namespaces" THEN Features ELSE {}

\* All that the detectors of a layer find is there, and what is there was
\* found by the detector that it names.
IsRead(w, l) ==
    /\ \A r \in read[w][l].content : r[2] \in Detectors => r[1] \in Finds[r[2]][l]
    /\ \A d \in read[w][l].by : \A x \in Finds[d][l] \cap ReadOf(w, l) :
         <<x, d>> \in read[w][l].content

\* w is at a layer of its image, and has read and kept only what was found.
ReadOK(w) ==
    /\ pc[w] \notin Reading \cup {"layer"} => next[w] = 1
    /\ pc[w] \in Reading \cup {"layer"} => next[w] \in DOMAIN LayersOf[ancestry[w]]
    /\ pc[w] \in Reading => Used \subseteq known[w]
    /\ pc[w] \in {"content", "namespaces"} => read[w][Hash(w)].by \subseteq scanned[Hash(w)]
    /\ \A l \in Layers : detected[w][l].by \subseteq Used /\ IsRead(w, l)

\* The invariant that RefusesIllFormedOnly needs.
ReadInv ==
    /\ next = [w \in Workers |-> next[w]] /\ known = [w \in Workers |-> known[w]]
    /\ RowsAreFound
    /\ \A w \in Workers : ReadOK(w)

-----------------------------------------------------------------------------
(* What a goroutine has computed, or read of an ancestry.  The queries of   *)
(* FindAncestry go by the row's id and so see one scan or nothing.          *)

\* While the row is there, what w has read of it is what it holds.
ResultOK(w) ==
    /\ row[w] => /\ pc[w] \in {"detectors", "hashes", "ancestry", "reply"}
                 /\ ancestries[ancestry[w]] # NoAncestry
    /\ DOMAIN result[w] = {"by", "layers"}
    /\ pc[w] \in {"hashes", "ancestry"} /\ row[w] =>
         result[w].by = ancestries[ancestry[w]].by
    /\ pc[w] = "ancestry" /\ row[w] =>
         DOMAIN result[w].layers = DOMAIN ancestries[ancestry[w]].layers
    /\ pc[w] = "reply" /\ UNION Range(result[w].layers) # {} => IsScanOf(result[w], ancestry[w])
    /\ pc[w] = "upsert" => IsScanOf(result[w], ancestry[w])

\* The invariant that AncestryIsExact and ReportIsOneScan need.
ScanInv ==
    /\ row = [w \in Workers |-> row[w]]
    /\ ancestries = [a \in Ancestries |-> ancestries[a]]
    /\ AncestryIsExact
    /\ \A w \in Workers : ResultOK(w)

-----------------------------------------------------------------------------
(* ReadInv is inductive.                                                    *)

\* A step of w leaves the memory of the others alone.
Others(w) ==
    /\ \A x \in Workers \ {w} :
         /\ pc'[x] = pc[x] /\ ancestry'[x] = ancestry[x] /\ next'[x] = next[x]
         /\ known'[x] = known[x] /\ read'[x] = read[x] /\ detected'[x] = detected[x]
         /\ result'[x] = result[x]
    /\ next' = [x \in Workers |-> next'[x]] /\ known' = [x \in Workers |-> known'[x]]

\* The goroutines' memory is made of functions.
Memory ==
    /\ pc = [x \in Workers |-> pc[x]] /\ ancestry = [x \in Workers |-> ancestry[x]]
    /\ next = [x \in Workers |-> next[x]] /\ known = [x \in Workers |-> known[x]]
    /\ read = [x \in Workers |-> read[x]] /\ detected = [x \in Workers |-> detected[x]]
    /\ result = [x \in Workers |-> result[x]]

\* The end of a request changes one goroutine only.
LEMMA ReturnIsLocal ==
    ASSUME Memory, NEW w \in Workers, Return(w)
    PROVE  Others(w)
BY Zenon DEF Memory, Return, Others

\* So does a step before the layers are read, or of a GET.
LEMMA RequestIsLocal ==
    ASSUME Memory, NEW w \in Workers,
           \/ InitWorker(w) \/ \E kind \in {"post", "get"}, a \in Ancestries : Receive(w, kind, a)
           \/ NewAncestry(w) \/ FindAncestryID(w) \/ NotProcessed(w)
           \/ FindAncestryDetectors(w) \/ FindAncestryLayerHashes(w) \/ FindAncestryFeatures(w)
    PROVE  Others(w)
BY Zenon DEF Memory, Others, InitWorker, Receive, NewAncestry, FindAncestryID, NotProcessed,
       FindAncestryDetectors, FindAncestryLayerHashes, FindAncestryFeatures, Go, local

\* So does a step that reads or writes layers.
LEMMA ScanIsLocal ==
    ASSUME Memory, NEW w \in Workers,
           \/ LayerNotFound(w) \/ FindLayerID(w) \/ FindLayerDetectors(w)
           \/ FindLayerFeatures(w) \/ FindLayerNamespaces(w)
           \/ PersistNamespaces(w) \/ PersistFeatures(w) \/ \E l \in Layers : PersistLayer(w, l)
           \/ ComputeAncestry(w) \/ Upsert(w)
    PROVE  Others(w)
<1>1. CASE \/ LayerNotFound(w) \/ FindLayerID(w) \/ FindLayerDetectors(w)
           \/ FindLayerFeatures(w) \/ FindLayerNamespaces(w)
  BY <1>1, Zenon DEF Memory, Others, LayerNotFound, FindLayerID, FindLayerDetectors,
              FindLayerFeatures, FindLayerNamespaces, NextLayer, Go
<1>2. CASE PersistNamespaces(w) \/ PersistFeatures(w) \/ \E l \in Layers : PersistLayer(w, l)
  BY <1>2, Zenon DEF Memory, Others, PersistNamespaces, PersistFeatures, PersistLayer, Go
<1>3. CASE ComputeAncestry(w) \/ Upsert(w)
  BY <1>3 DEF Memory, Others, ComputeAncestry, Upsert, Go
<1> QED
  BY <1>1, <1>2, <1>3

\* The layer that FindLayer reads is a layer.
LEMMA HashIsLayer ==
    ASSUME RowsInv, NEW w \in Workers, ReadOK(w), pc[w] \in Reading \cup {"layer"}
    PROVE  ancestry[w] \in Ancestries /\ Hash(w) \in Layers
<1>1. ancestry[w] \in Ancestries
  BY DEF RowsInv, Shape, Reading
<1>2. next[w] \in DOMAIN LayersOf[ancestry[w]]
  BY DEF ReadOK
<1> QED
  BY <1>1, <1>2, Positions DEF Hash

\* What another goroutine has read stays right while layers are being scanned.
LEMMA OthersRead ==
    ASSUME RowsInv, NEW w \in Workers, Others(w), NEW x \in Workers \ {w}, ReadOK(x),
           \A l \in Layers : scanned[l] \subseteq scanned'[l]
    PROVE  ReadOK(x)'
<1>1. /\ pc'[x] = pc[x] /\ ancestry'[x] = ancestry[x] /\ next'[x] = next[x]
      /\ known'[x] = known[x] /\ read'[x] = read[x] /\ detected'[x] = detected[x]
  BY DEF Others
<1>2. Hash(x)' = Hash(x)
  BY <1>1 DEF Hash
<1>3. ASSUME NEW l \in Layers PROVE ReadOf(x, l)' = ReadOf(x, l)
  BY <1>1, <1>2, Zenon DEF ReadOf
<1>4. ASSUME NEW l \in Layers PROVE IsRead(x, l)'
  <2>1. IsRead(x, l)
    BY DEF ReadOK
  <2> QED
    BY <1>1, <1>3, <2>1, Zenon DEF IsRead
<1>5. pc[x] \in {"content", "namespaces"} => Hash(x) \in Layers
  BY HashIsLayer DEF Reading
<1>6. pc'[x] \in {"content", "namespaces"} => read'[x][Hash(x)'].by \subseteq scanned'[Hash(x)']
  BY <1>1, <1>2, <1>5 DEF ReadOK
<1> QED
  BY <1>1, <1>4, <1>6, Zenon DEF ReadOK

\* So a step has to be right about its own goroutine only.
LEMMA OwnStep ==
    ASSUME RowsInv, ReadInv, NEW w \in Workers, Others(w),
           \A l \in Layers : scanned[l] \subseteq scanned'[l],
           RowsAreFound', ReadOK(w)'
    PROVE  ReadInv'
<1>1. ASSUME NEW x \in Workers PROVE ReadOK(x)'
  BY OthersRead DEF ReadInv
<1> QED
  BY <1>1 DEF ReadInv, Others

\* A step that leaves the tables of the layers alone keeps what their rows say.
LEMMA SameRows ==
    ASSUME RowsAreFound, UNCHANGED <<detectors, scanned, content>>
    PROVE  RowsAreFound' /\ \A l \in Layers : scanned[l] \subseteq scanned'[l]
BY DEF RowsAreFound

\* A step before or after FindLayer.
LEMMA StillRead ==
    ASSUME NEW w \in Workers, ReadOK(w), pc[w] \notin Reading \cup {"layer"},
           pc'[w] \notin Reading, pc'[w] = "layer" => ancestry'[w] \in Ancestries,
           next'[w] = next[w], read'[w] = read[w], detected'[w] = detected[w]
    PROVE  ReadOK(w)'
<1>1. pc'[w] = "layer" => next'[w] \in DOMAIN LayersOf[ancestry'[w]]
  BY Positions DEF ReadOK
<1>2. pc[w] \notin {"content", "namespaces"} /\ pc'[w] \notin {"content", "namespaces"}
  BY DEF Reading
<1>3. ASSUME NEW l \in Layers PROVE IsRead(w, l)'
  <2>1. ReadOf(w, l) = Items /\ ReadOf(w, l)' = Items
    BY <1>2 DEF ReadOf
  <2> QED
    BY <2>1, Zenon DEF ReadOK, IsRead
<1> QED
  BY <1>1, <1>2, <1>3 DEF ReadOK

\* A goroutine without anything in memory.
LEMMA NothingRead ==
    ASSUME NEW w \in Workers, pc'[w] = "idle", next'[w] = 1,
           read'[w] = [l \in Layers |-> EmptyLayer],
           detected'[w] = [l \in Layers |-> EmptyLayer]
    PROVE  ReadOK(w)'
<1>1. \A l \in Layers : /\ read'[w][l].by = {} /\ read'[w][l].content = {}
                        /\ detected'[w][l].by = {}
  BY DEF EmptyLayer
<1> QED
  BY <1>1 DEF ReadOK, IsRead, Reading

\* The end of a request keeps what the goroutines have read.
LEMMA ReturnReads ==
    ASSUME KeptInv, RowsInv, ReadInv, Memory, NEW w \in Workers, Return(w), UNCHANGED tables
    PROVE  ReadInv'
<1>1. /\ pc'[w] = "idle" /\ next'[w] = 1
      /\ read'[w] = [l \in Layers |-> EmptyLayer]
      /\ detected'[w] = [l \in Layers |-> EmptyLayer]
  BY Zenon DEF Memory, Return
<1>2. ReadOK(w)'
  BY <1>1, NothingRead
<1>3. RowsAreFound' /\ \A l \in Layers : scanned[l] \subseteq scanned'[l]
  BY SameRows DEF tables, ReadInv
<1> QED
  BY <1>2, <1>3, ReturnIsLocal, OwnStep

\* A request arrives or is begun.
LEMMA RequestReads ==
    ASSUME RowsInv, ReadInv, Memory, NEW w \in Workers,
           \/ InitWorker(w) \/ \E kind \in {"post", "get"}, a \in Ancestries : Receive(w, kind, a)
           \/ NewAncestry(w) \/ FindAncestryID(w) \/ NotProcessed(w)
           \/ FindAncestryDetectors(w) \/ FindAncestryLayerHashes(w) \/ FindAncestryFeatures(w)
    PROVE  ReadInv'
<1>1. /\ pc[w] \in {"off", "idle", "find", "detectors", "hashes", "ancestry"}
      /\ pc'[w] \in {"idle", "find", "detectors", "hashes", "ancestry", "reply", "layer"}
      /\ pc'[w] = "layer" => pc[w] \in {"find", "detectors"} /\ ancestry'[w] = ancestry[w]
      /\ UNCHANGED <<next, read, detected>>
      /\ UNCHANGED <<scanned, content>> /\ detectors \subseteq detectors'
  BY Zenon DEF Memory, InitWorker, Receive, NewAncestry, FindAncestryID, NotProcessed,
         FindAncestryDetectors, FindAncestryLayerHashes, FindAncestryFeatures, Go, tables
<1>2. pc'[w] = "layer" => ancestry'[w] \in Ancestries
  BY <1>1 DEF RowsInv, Shape
<1>3. ReadOK(w)'
  BY <1>1, <1>2, StillRead DEF ReadInv, Reading
<1>4. RowsAreFound'
  BY <1>1 DEF ReadInv, RowsAreFound
<1> QED
  BY <1>1, <1>3, <1>4, RequestIsLocal, OwnStep

\* The detectors that scanned a layer have a row for each thing they find in it.
LEMMA LayerRows ==
    ASSUME OneFinder, KeptInv, RowsAreFound, NEW l \in Layers,
           NEW d \in scanned[l], NEW x \in Finds[d][l]
    PROVE  <<x, d>> \in content[l]
<1>1. d \in Used
  BY DEF RowsAreFound
<1>2. x \in FoundIn(scanned[l], l)
  BY DEF FoundIn
<1>3. PICK r \in content[l] : r[1] = x
  BY <1>2 DEF KeptInv, ScannedIsKept
<1>4. r[2] \in Used /\ x \in Finds[r[2]][l]
  BY <1>3 DEF RowsAreFound
<1>5. r[2] = d
  BY <1>1, <1>4 DEF OneFinder
<1>6. r \in Items \X Detectors
  BY DEF KeptInv
<1>7. r = <<r[1], r[2]>>
  BY <1>6
<1> QED
  BY <1>3, <1>5, <1>7

\* A query of FindLayer finds the rows of the detectors that were read before.
LEMMA RowsOfRead ==
    ASSUME OneFinder, KeptInv, RowsInv, ReadInv, NEW w \in Workers,
           pc[w] \in {"content", "namespaces"}, NEW S
    PROVE  /\ Hash(w) \in Layers
           /\ \A r \in RowsOf(w, S) : r[2] \in Detectors => r[1] \in Finds[r[2]][Hash(w)]
           /\ \A d \in read[w][Hash(w)].by : \A x \in Finds[d][Hash(w)] \cap S :
                <<x, d>> \in RowsOf(w, S)
<1> DEFINE h == Hash(w)
<1>1. ReadOK(w) /\ RowsAreFound
  BY DEF ReadInv
<1>2. h \in Layers
  BY <1>1, HashIsLayer DEF Reading
<1>3. read[w][h].by \subseteq scanned[h] /\ Used \subseteq known[w]
  BY <1>1 DEF ReadOK, Reading
<1>4. \A c \in content[h] : c[1] \in Finds[c[2]][h]
  BY <1>1, <1>2 DEF RowsAreFound
<1>5. scanned[h] \subseteq Used
  BY <1>1, <1>2 DEF RowsAreFound
<1> HIDE DEF h
<1>6. ASSUME NEW r \in RowsOf(w, S), r[2] \in Detectors PROVE r[1] \in Finds[r[2]][h]
  <2>1. PICK c \in content[h] : r = <<c[1], IF c[2] \in known[w] THEN c[2] ELSE NoDetector>>
    BY DEF RowsOf, h
  <2> QED
    BY <1>4, <1>6, <2>1, DetectorAssumption
<1>7. ASSUME NEW d \in read[w][h].by, NEW x \in Finds[d][h] \cap S
      PROVE  <<x, d>> \in RowsOf(w, S)
  <2>1. <<x, d>> \in content[h]
    BY <1>1, <1>2, <1>3, LayerRows
  <2>2. d \in known[w]
    BY <1>3, <1>5
  <2>3. <<x, d>>[1] = x /\ <<x, d>>[2] = d
    OBVIOUS
  <2> QED
    BY <2>1, <2>2, <2>3, Zenon DEF RowsOf, h
<1> QED
  BY <1>2, <1>6, <1>7 DEF h

\* FindLayer goes on to the next layer.
LEMMA NextLayerReads ==
    ASSUME RowsInv, Memory, NEW w \in Workers, ReadOK(w), pc[w] \in Reading \cup {"layer"},
           NextLayer(w), UNCHANGED <<ancestry, detected>>,
           \A l \in Layers :
               /\ \A r \in read'[w][l].content : r[2] \in Detectors => r[1] \in Finds[r[2]][l]
               /\ \A d \in read'[w][l].by : \A x \in Finds[d][l] \cap Items :
                    <<x, d>> \in read'[w][l].content
    PROVE  ReadOK(w)'
<1>1. next[w] \in DOMAIN LayersOf[ancestry[w]] /\ ancestry[w] \in Ancestries
  BY HashIsLayer, Zenon DEF ReadOK
<1>2. \/ /\ pc'[w] = "layer" /\ next[w] < Len(LayersOf[ancestry[w]])
         /\ next'[w] = next[w] + 1
      \/ pc'[w] = "persistNamespaces" /\ next'[w] = 1
  BY DEF Memory, NextLayer
<1>3. pc'[w] = "layer" => next'[w] \in DOMAIN LayersOf[ancestry'[w]]
  BY <1>1, <1>2, Positions
<1>4. \A l \in Layers : ReadOf(w, l)' = Items
  BY <1>2 DEF ReadOf
<1>5. \A l \in Layers : IsRead(w, l)'
  BY <1>4, Zenon DEF IsRead
<1> QED
  BY <1>2, <1>3, <1>5, Zenon DEF ReadOK, Reading

\* FindLayer reads something more of the layer that it is at.
LEMMA ReadMore ==
    ASSUME RowsInv, Memory, NEW w \in Workers, ReadOK(w), pc[w] \in Reading,
           NEW to \in {"content", "namespaces"}, pc' = [pc EXCEPT ![w] = to],
           UNCHANGED <<ancestry, next, known, detected>>,
           \A l \in Layers \ {Hash(w)} : read'[w][l] = read[w][l],
           read'[w][Hash(w)].by \subseteq scanned'[Hash(w)],
           \A r \in read'[w][Hash(w)].content :
               r[2] \in Detectors => r[1] \in Finds[r[2]][Hash(w)],
           to = "namespaces" =>
               \A d \in read'[w][Hash(w)].by : \A x \in Finds[d][Hash(w)] \cap Features :
                   <<x, d>> \in read'[w][Hash(w)].content
    PROVE  ReadOK(w)'
<1>1. pc'[w] = to /\ Hash(w)' = Hash(w)
  BY Zenon DEF Memory, Hash
<1>2. ASSUME NEW l \in Layers, l # Hash(w) PROVE IsRead(w, l)'
  <2>1. ReadOf(w, l) = Items /\ ReadOf(w, l)' = Items /\ read'[w][l] = read[w][l]
    BY <1>1, <1>2, Zenon DEF ReadOf
  <2> QED
    BY <2>1, Zenon DEF IsRead, ReadOK
<1>3. IsRead(w, Hash(w))'
  <2>1. ReadOf(w, Hash(w))' = IF to = "namespaces" THEN Features ELSE {}
    BY <1>1, Zenon DEF ReadOf
  <2> QED
    BY <1>1, <2>1, Zenon DEF IsRead
<1>4. \A l \in Layers : IsRead(w, l)'
  BY <1>1, <1>2, <1>3, Zenon
<1> QED
  BY <1>1, <1>4, Zenon DEF ReadOK, Reading

\* FindLayer.
LEMMA FindLayerReads ==
    ASSUME OneFinder, KeptInv, RowsInv, ReadInv, Memory, NEW w \in Workers,
           \/ LayerNotFound(w) \/ FindLayerID(w) \/ FindLayerDetectors(w)
           \/ FindLayerFeatures(w) \/ FindLayerNamespaces(w)
    PROVE  ReadInv'
<1> DEFINE h == Hash(w)
<1>1. UNCHANGED <<detectors, scanned, content, ancestry, detected>> /\ UNCHANGED tables
  BY DEF LayerNotFound, FindLayerID, FindLayerDetectors, FindLayerFeatures,
         FindLayerNamespaces, tables
<1>2. pc[w] \in Reading \cup {"layer"} /\ ReadOK(w)
  BY DEF LayerNotFound, FindLayerID, FindLayerDetectors, FindLayerFeatures,
         FindLayerNamespaces, Go, Reading, ReadInv
<1>3. h \in Layers /\ ancestry[w] \in Ancestries
  BY <1>2, HashIsLayer
<1>4. read \in [Workers -> [Layers -> Layer]]
  BY DEF RowsInv, Shape
<1>5. ReadOK(w)'
  <2>1. CASE LayerNotFound(w)
    <3>1. /\ NextLayer(w) /\ read'[w][h] = EmptyLayer
          /\ \A l \in Layers \ {h} : read'[w][l] = read[w][l] /\ ReadOf(w, l) = Items
      BY <1>3, <1>4, <2>1 DEF LayerNotFound, ReadOf
    <3>2. \A l \in Layers : 
               /\ \A r \in read'[w][l].content : r[2] \in Detectors => r[1] \in Finds[r[2]][l]
               /\ \A d \in read'[w][l].by : \A x \in Finds[d][l] \cap Items :
                    <<x, d>> \in read'[w][l].content
      BY <1>2, <3>1 DEF EmptyLayer, ReadOK, IsRead
    <3> QED
      BY <1>1, <1>2, <3>1, <3>2, NextLayerReads
  <2>2. CASE FindLayerID(w)
    <3>1. /\ pc'[w] = "by" /\ pc[w] = "layer" /\ known'[w] = detectors
          /\ UNCHANGED <<next, read>>
      BY <2>2 DEF FindLayerID, Go, Memory
    <3>2. Used \subseteq detectors
      BY DEF ReadInv, RowsAreFound
    <3>3. \A l \in Layers : ReadOf(w, l) = Items /\ ReadOf(w, l)' = Items
      BY <3>1, Zenon DEF ReadOf
    <3>4. \A l \in Layers : IsRead(w, l)'
      BY <1>2, <3>1, <3>3, Zenon DEF ReadOK, IsRead
    <3> QED
      BY <1>1, <1>2, <3>1, <3>2, <3>4, Zenon DEF ReadOK, Reading
  <2>3. CASE FindLayerDetectors(w)
    <3>1. /\ pc' = [pc EXCEPT ![w] = "content"] /\ pc[w] = "by"
          /\ UNCHANGED <<next, known>>
      BY <2>3 DEF FindLayerDetectors, Go
    <3>2. /\ read'[w][h] = [by |-> scanned[h], content |-> {}]
          /\ \A l \in Layers \ {h} : read'[w][l] = read[w][l]
      BY <1>3, <1>4, <2>3, Zenon DEF FindLayerDetectors
    <3>3. /\ read'[w][h].by \subseteq scanned'[h]
          /\ \A r \in read'[w][h].content : r[2] \in Detectors => r[1] \in Finds[r[2]][h]
      BY <1>1, <3>2
    <3>4. pc[w] \in Reading /\ "content" # "namespaces"
      BY <3>1 DEF Reading
    <3> QED
      BY <1>1, <1>2, <3>1, <3>2, <3>3, <3>4, ReadMore, Zenon
  <2>4. CASE FindLayerFeatures(w)
    <3>1. /\ pc' = [pc EXCEPT ![w] = "namespaces"] /\ pc[w] = "content"
          /\ UNCHANGED <<next, known>>
      BY <2>4 DEF FindLayerFeatures, Go
    <3>2. /\ read'[w][h].by = read[w][h].by
          /\ read'[w][h].content = RowsOf(w, Features)
          /\ \A l \in Layers \ {h} : read'[w][l] = read[w][l]
      BY <1>3, <1>4, <2>4 DEF FindLayerFeatures, Layer
    <3>3. read'[w][h].by \subseteq scanned'[h]
      BY <1>1, <1>2, <3>1, <3>2, Zenon DEF ReadOK
    <3>4. /\ \A r \in read'[w][h].content : r[2] \in Detectors => r[1] \in Finds[r[2]][h]
          /\ \A d \in read'[w][h].by : \A x \in Finds[d][h] \cap Features :
               <<x, d>> \in read'[w][h].content
      BY <3>1, <3>2, RowsOfRead
    <3>5. pc[w] \in Reading
      BY <3>1 DEF Reading
    <3> QED
      BY <1>1, <1>2, <3>1, <3>2, <3>3, <3>4, <3>5, ReadMore, Zenon
  <2>5. CASE FindLayerNamespaces(w)
    <3>1. NextLayer(w) /\ pc[w] = "namespaces"
      BY <2>5 DEF FindLayerNamespaces
    <3>2. /\ read'[w][h].by = read[w][h].by
          /\ read'[w][h].content = read[w][h].content \cup RowsOf(w, Namespaces)
          /\ \A l \in Layers \ {h} : read'[w][l] = read[w][l]
      BY <1>3, <1>4, <2>5 DEF FindLayerNamespaces, Layer
    <3>3. \A l \in Layers : ReadOf(w, l) = IF l = h THEN Features ELSE Items
      BY <3>1 DEF ReadOf
    <3>4. ASSUME NEW l \in Layers
          PROVE  /\ \A r \in read'[w][l].content : r[2] \in Detectors => r[1] \in Finds[r[2]][l]
                 /\ \A d \in read'[w][l].by : \A x \in Finds[d][l] \cap Items :
                      <<x, d>> \in read'[w][l].content
      <4>1. IsRead(w, l)
        BY <1>2, Zenon DEF ReadOK
      <4>2. CASE l # h
        BY <3>2, <3>3, <4>1, <4>2, Zenon DEF IsRead
      <4>3. CASE l = h
        BY <3>1, <3>2, <3>3, <4>1, <4>3, RowsOfRead, Zenon DEF IsRead, Items
      <4> QED
        BY <4>2, <4>3
    <3> QED
      BY <1>1, <1>2, <3>1, <3>4, NextLayerReads
  <2> QED
    BY <2>1, <2>2, <2>3, <2>4, <2>5
<1>6. RowsAreFound' /\ \A l \in Layers : scanned[l] \subseteq scanned'[l]
  BY <1>1, SameRows DEF ReadInv
<1> QED
  BY <1>5, <1>6, ScanIsLocal, OwnStep, Zenon

\* detectContent adds to a layer the detectors that have not scanned it,
\* with all that they find.
LEMMA DetectionReads ==
    ASSUME KeptInv, RowsInv, ReadInv, Memory, NEW w \in Workers, PersistNamespaces(w)
    PROVE  ReadInv'
<1>1. /\ pc[w] = "persistNamespaces" /\ pc'[w] = "persistFeatures"
      /\ UNCHANGED <<detectors, scanned, content, next>>
      /\ detected'[w] = processRequests(w)
  BY Zenon DEF PersistNamespaces, Go, Memory
<1>2. ASSUME NEW l \in Layers
      PROVE  /\ read'[w][l].by = read[w][l].by \cup detected'[w][l].by
             /\ read'[w][l].content = read[w][l].content \cup detected'[w][l].content
  BY DEF PersistNamespaces, MergeLayers, Memory
<1>3. ReadOK(w) /\ RowsAreFound
  BY DEF ReadInv
<1>4. ASSUME NEW l \in Layers PROVE detected'[w][l].by \subseteq Used
  <2>1. Enabled[w] \subseteq Used
    BY DEF Used
  <2>2. CASE l \in Requested(w)
    BY <1>1, <2>1, <2>2, DetectContentIsFound DEF processRequests
  <2>3. CASE l \notin Requested(w)
    BY <1>1, <1>3, <2>3, Zenon DEF processRequests, ReadOK
  <2> QED
    BY <2>2, <2>3
<1>5. ASSUME NEW l \in Layers
      PROVE  detected'[w][l].content =
               {r \in Items \X detected'[w][l].by : r[1] \in Finds[r[2]][l]}
  BY DetectKeeps DEF KeptInv, DetectedIsFound
<1>6. ASSUME NEW l \in Layers PROVE IsRead(w, l)'
  <2>1. ReadOf(w, l) = Items /\ ReadOf(w, l)' = Items
    BY <1>1 DEF ReadOf
  <2>2. ASSUME NEW r \in read'[w][l].content, r[2] \in Detectors PROVE r[1] \in Finds[r[2]][l]
    BY <1>2, <1>3, <1>5, <2>2, Zenon DEF ReadOK, IsRead
  <2>3. ASSUME NEW d \in read'[w][l].by, NEW x \in Finds[d][l] \cap Items
        PROVE  <<x, d>> \in read'[w][l].content
    BY <1>2, <1>3, <1>5, <2>1, Zenon DEF ReadOK, IsRead
  <2> QED
    BY <2>1, <2>2, <2>3, Zenon DEF IsRead
<1>7. ReadOK(w)'
  BY <1>1, <1>3, <1>4, <1>6, Zenon DEF ReadOK, Reading
<1>8. RowsAreFound' /\ \A l \in Layers : scanned[l] \subseteq scanned'[l]
  BY <1>1, <1>3, SameRows
<1> QED
  BY <1>7, <1>8, ScanIsLocal, OwnStep, Zenon

\* PersistLayer adds rows that name who found them.
LEMMA PersistLayerReads ==
    ASSUME KeptInv, RowsInv, ReadInv, Memory, NEW w \in Workers, NEW l \in Layers,
           PersistLayer(w, l)
    PROVE  ReadInv'
<1> DEFINE part == detected[w][l]
<1>1. PICK new \in Inserted(content[l], part.content) :
        content' = [content EXCEPT ![l] = new]
  BY Zenon DEF PersistLayer
<1>2. /\ pc[w] = "persistLayers" /\ pc'[w] \in {"persistLayers", "compute"}
      /\ scanned' = [scanned EXCEPT ![l] = @ \cup part.by]
      /\ UNCHANGED <<detectors, ancestry, next, known, read, detected>>
  BY DEF PersistLayer, Memory
<1>3. new \subseteq content[l] \cup part.content
  BY <1>1, InsertedItems
<1>4. /\ scanned \in [Layers -> SUBSET Detectors]
      /\ content \in [Layers -> SUBSET (Items \X Detectors)]
      /\ part.content = {r \in Items \X part.by : r[1] \in Finds[r[2]][l]}
  BY DEF KeptInv, DetectedIsFound
<1>5. part.by \subseteq Used /\ ReadOK(w) /\ RowsAreFound
  BY DEF ReadInv, ReadOK
<1> HIDE DEF part
<1>6. ASSUME NEW m \in Layers
      PROVE  /\ scanned[m] \subseteq scanned'[m] /\ scanned'[m] \subseteq Used
             /\ \A r \in content'[m] : r[2] \in Used /\ r[1] \in Finds[r[2]][m]
  <2>1. scanned[m] \subseteq scanned'[m] /\ scanned'[m] \subseteq Used
    BY <1>2, <1>4, <1>5, Zenon DEF RowsAreFound
  <2>2. \A r \in part.content : r[2] \in Used /\ r[1] \in Finds[r[2]][l]
    BY <1>4, <1>5
  <2>3. \A r \in content[m] : r[2] \in Used /\ r[1] \in Finds[r[2]][m]
    BY <1>5 DEF RowsAreFound
  <2>4. content'[m] = IF m = l THEN new ELSE content[m]
    BY <1>1, <1>4, Zenon
  <2> QED
    BY <1>3, <2>1, <2>2, <2>3, <2>4, Zenon
<1>7. RowsAreFound'
  BY <1>2, <1>5, <1>6, Zenon DEF RowsAreFound
<1>8. ReadOK(w)'
  BY <1>2, <1>5, StillRead, Zenon DEF Reading
<1> QED
  BY <1>6, <1>7, <1>8, ScanIsLocal, OwnStep, Zenon

\* The steps that go on to PersistLayer and from it.
LEMMA ScanReads ==
    ASSUME RowsInv, ReadInv, Memory, NEW w \in Workers,
           PersistFeatures(w) \/ ComputeAncestry(w) \/ Upsert(w)
    PROVE  ReadInv'
<1>1. UNCHANGED <<detectors, scanned, content, next>>
  BY DEF PersistFeatures, ComputeAncestry, Upsert
<1>2. RowsAreFound' /\ \A l \in Layers : scanned[l] \subseteq scanned'[l]
  BY <1>1, SameRows DEF ReadInv
<1>3. ReadOK(w)
  BY DEF ReadInv
<1>4. CASE PersistFeatures(w) \/ ComputeAncestry(w)
  <2>1. /\ pc[w] \in {"persistFeatures", "compute"} /\ pc'[w] \in {"persistLayers", "upsert"}
        /\ UNCHANGED <<read, detected>>
    BY <1>4, Zenon DEF PersistFeatures, ComputeAncestry, Go, Memory
  <2>2. ReadOK(w)'
    BY <1>1, <1>3, <2>1, StillRead, Zenon DEF Reading
  <2> QED
    BY <1>2, <1>4, <2>2, ScanIsLocal, OwnStep, Zenon
<1>5. CASE Upsert(w)
  <2>1. /\ pc[w] = "upsert" /\ pc'[w] = "idle"
        /\ read'[w] = [l \in Layers |-> EmptyLayer]
        /\ detected'[w] = [l \in Layers |-> EmptyLayer]
    BY <1>5, Zenon DEF Upsert, Memory
  <2>2. next'[w] = 1
    BY <1>1, <1>3, <2>1 DEF ReadOK, Reading
  <2>3. ReadOK(w)'
    BY <2>1, <2>2, NothingRead
  <2> QED
    BY <1>2, <1>5, <2>3, ScanIsLocal, OwnStep, Zenon
<1> QED
  BY <1>4, <1>5

\* The invariants give each goroutine a memory of its own.
LEMMA HasMemory ==
    ASSUME KeptInv, RowsInv, ReadInv
    PROVE  Memory
BY DEF KeptInv, RowsInv, Shape, ReadInv, Memory

\* Each action keeps what the goroutines have read.
LEMMA NextReads == OneFinder /\ KeptInv /\ RowsInv /\ ReadInv /\ [Next]_vars => ReadInv'
<1> SUFFICES ASSUME OneFinder, KeptInv, RowsInv, ReadInv, [Next]_vars PROVE ReadInv'
  OBVIOUS
<1> USE HasMemory
<1>1. CASE Calm \/ UNCHANGED vars
  <2>1. /\ UNCHANGED <<detectors, scanned, content>>
        /\ UNCHANGED <<pc, ancestry, next, known, read, detected>>
    BY <1>1 DEF Calm, vars, tables, local
  <2>2. ASSUME NEW w \in Workers PROVE Hash(w)' = Hash(w)
    BY <2>1 DEF Hash
  <2>3. ASSUME NEW w \in Workers, NEW l \in Layers, IsRead(w, l) PROVE IsRead(w, l)'
    BY <2>1, <2>2, <2>3, Zenon DEF IsRead, ReadOf
  <2>4. ASSUME NEW w \in Workers PROVE ReadOK(w)'
    BY <2>1, <2>2, <2>3, Zenon DEF ReadInv, ReadOK
  <2> QED
    BY <2>1, <2>4 DEF ReadInv, RowsAreFound
<1>2. ASSUME NEW w \in Workers, Run(w) \/ Fail(w) PROVE ReadInv'
  <2>1. CASE \/ AncestryNotFound(w) \/ AlreadyProcessed(w) \/ Reply(w)
             \/ ComputeFailed(w) \/ Fail(w)
    <3>1. Return(w) /\ UNCHANGED tables
      BY <2>1 DEF AncestryNotFound, AlreadyProcessed, Reply, ComputeFailed, Fail
    <3> QED
      BY <3>1, ReturnReads
  <2>2. CASE \/ InitWorker(w) \/ NewAncestry(w) \/ FindAncestryID(w) \/ NotProcessed(w)
             \/ FindAncestryDetectors(w) \/ FindAncestryLayerHashes(w)
             \/ FindAncestryFeatures(w)
    BY <2>2, RequestReads
  <2>3. CASE \/ LayerNotFound(w) \/ FindLayerID(w) \/ FindLayerDetectors(w)
             \/ FindLayerFeatures(w) \/ FindLayerNamespaces(w)
    BY <2>3, FindLayerReads
  <2>4. CASE PersistNamespaces(w)
    BY <2>4, DetectionReads
  <2>5. CASE \E l \in Layers : PersistLayer(w, l)
    BY <2>5, PersistLayerReads
  <2>6. CASE PersistFeatures(w) \/ ComputeAncestry(w) \/ Upsert(w)
    BY <2>6, ScanReads
  <2> QED
    BY <1>2, <2>1, <2>2, <2>3, <2>4, <2>5, <2>6
       DEF Run, ProcessAncestry, ProcessLayers, GetAncestry
<1>3. ASSUME NEW w \in Workers, NEW kind \in {"post", "get"}, NEW a \in Ancestries,
             Receive(w, kind, a)
      PROVE  ReadInv'
  BY <1>3, RequestReads
<1> QED
  BY <1>1, <1>2, <1>3 DEF Next

\* A goroutine has all of what the detectors that it read for a layer find.
LEMMA ReadInvariant ==
    ASSUME OneFinder, NoneIsNew
    PROVE  Spec => []ReadInv
<1>1. Init => ReadInv
  <2> SUFFICES ASSUME Init PROVE ReadInv
    OBVIOUS
  <2>1. /\ \A w \in Workers : /\ pc[w] = "off" /\ next[w] = 1
                              /\ read[w] = [l \in Layers |-> EmptyLayer]
                              /\ detected[w] = [l \in Layers |-> EmptyLayer]
        /\ \A l \in Layers : scanned[l] = {} /\ content[l] = {}
        /\ next = [w \in Workers |-> next[w]] /\ known = [w \in Workers |-> known[w]]
        /\ detectors = Registered
    BY Zenon DEF Init
  <2>2. ASSUME NEW w \in Workers PROVE ReadOK(w)
    <3>1. \A l \in Layers : /\ read[w][l].by = {} /\ read[w][l].content = {}
                            /\ detected[w][l].by = {}
      BY <2>1 DEF EmptyLayer
    <3> QED
      BY <2>1, <3>1 DEF ReadOK, IsRead, Reading
  <2> QED
    BY <2>1, <2>2 DEF ReadInv, RowsAreFound, NoneIsNew
<1> QED
  BY <1>1, NextReads, KeptInvariant, RowsInvariant, PTL DEF Spec

-----------------------------------------------------------------------------
(* Hence computeAncestryLayers sees what the common detectors find.         *)

\* When an ancestry is computed, each layer holds exactly what the detectors that
\* are common to all layers find there.
LEMMA SeenIsFound ==
    ASSUME RowsInv, ReadInv, NEW w \in Workers, pc[w] = "compute"
    PROVE  LET seen == Seen(MergedLayers(w))
           IN  /\ ancestry[w] \in Ancestries
               /\ IsSeen(seen, ancestry[w], getCommonDetectors(MergedLayers(w)))
               /\ Len(seen) = Len(LayersOf[ancestry[w]])
<1> DEFINE ls == MergedLayers(w)
           common == getCommonDetectors(ls)
           L == LayersOf[ancestry[w]]
<1>1. ancestry[w] \in Ancestries
  BY DEF RowsInv, Shape
<1>2. Len(L) \in Nat /\ DOMAIN L = 1 .. Len(L) /\ \A i \in DOMAIN L : L[i] \in Layers
  BY <1>1, Positions, Zenon
<1>3. DOMAIN ls = DOMAIN L /\ \A i \in DOMAIN L : ls[i] = read[w][L[i]]
  BY Zenon DEF MergedLayers
<1>4. ASSUME NEW i \in DOMAIN L
      PROVE  {r[1] : r \in {c \in ls[i].content : c[2] \in common}} = FoundIn(common, L[i])
  <2>1. common \subseteq Detectors /\ common \subseteq ls[i].by
    BY <1>3, Zenon DEF getCommonDetectors
  <2>2. IsRead(w, L[i]) /\ ReadOf(w, L[i]) = Items
    BY <1>2 DEF ReadInv, ReadOK, ReadOf
  <2>3. \A d \in Detectors : Finds[d][L[i]] \subseteq Items
    BY <1>2, LayerAssumption
  <2> HIDE DEF common, ls, L
  <2>4. ASSUME NEW c \in ls[i].content, c[2] \in common PROVE c[1] \in FoundIn(common, L[i])
    BY <1>3, <2>1, <2>2, <2>4, Zenon DEF IsRead, FoundIn
  <2>5. ASSUME NEW x \in FoundIn(common, L[i])
        PROVE  \E c \in ls[i].content : c[2] \in common /\ x = c[1]
    <3>1. PICK d \in common : x \in Finds[d][L[i]]
      BY DEF FoundIn
    <3>2. <<x, d>> \in ls[i].content
      BY <1>3, <2>1, <2>2, <2>3, <3>1, Zenon DEF IsRead
    <3> QED
      BY <3>2
  <2> QED
    BY <2>4, <2>5, Zenon
<1>5. Seen(ls) = [i \in DOMAIN L |-> {r[1] : r \in {c \in ls[i].content : c[2] \in common}}]
  BY <1>3, Zenon DEF Seen
<1> HIDE DEF ls, common, L
<1>6. Seen(ls) = [i \in 1 .. Len(L) |-> FoundIn(common, L[i])]
  BY <1>2, <1>4, <1>5, Zenon
<1>7. Len(Seen(ls)) = Len(L)
  BY <1>2, <1>6
<1> QED
  BY <1>1, <1>2, <1>6, <1>7, Zenon DEF IsSeen, ls, common, L

\* computeAncestryLayers refuses an image if and only if some feature of it
\* comes before every namespace of its version format, however many instances
\* are scanning its layers at the time.
THEOREM OnlyIllFormedAreRefused ==
    ASSUME OneFinder, NoneIsNew
    PROVE  Spec => []RefusesIllFormedOnly
<1>1. RowsInv /\ ReadInv => RefusesIllFormedOnly
  BY SeenIsFound, RefusesIllFormed, Zenon DEF RefusesIllFormedOnly
<1> QED
  BY <1>1, RowsInvariant, ReadInvariant, PTL

-----------------------------------------------------------------------------
(* ScanInv is inductive.                                                    *)

\* A step that leaves the table alone has to be right about its own goroutine.
LEMMA OwnScan ==
    ASSUME ScanInv, NEW w \in Workers, Others(w), UNCHANGED ancestries,
           row' = [x \in Workers |-> row'[x]],
           \A x \in Workers \ {w} : row'[x] = row[x],
           ResultOK(w)'
    PROVE  ScanInv'
<1>1. ASSUME NEW x \in Workers \ {w} PROVE ResultOK(x)'
  <2>1. /\ pc'[x] = pc[x] /\ ancestry'[x] = ancestry[x] /\ result'[x] = result[x]
        /\ row'[x] = row[x] /\ ResultOK(x)
    BY DEF Others, ScanInv
  <2> QED
    BY <2>1, Zenon DEF ResultOK
<1> QED
  BY <1>1 DEF ScanInv, AncestryIsExact

\* A goroutine that neither reads nor has computed an ancestry.
LEMMA NoScan ==
    ASSUME NEW w \in Workers, ~ row'[w], DOMAIN result'[w] = {"by", "layers"},
           pc'[w] \notin {"hashes", "ancestry", "reply", "upsert"}
    PROVE  ResultOK(w)'
BY Zenon DEF ResultOK

\* The end of a request keeps the scans.
LEMMA ReturnScans ==
    ASSUME ScanInv, Memory, NEW w \in Workers, Return(w), UNCHANGED tables
    PROVE  ScanInv'
<1>1. /\ pc'[w] = "idle" /\ ~ row'[w] /\ result'[w] = EmptyResult
      /\ row' = [x \in Workers |-> row'[x]] /\ \A x \in Workers \ {w} : row'[x] = row[x]
      /\ UNCHANGED ancestries
  BY Zenon DEF Memory, ScanInv, Return, tables
<1>2. ResultOK(w)'
  BY <1>1, NoScan DEF EmptyResult
<1> QED
  BY <1>1, <1>2, ReturnIsLocal, OwnScan

\* FindAncestry: the queries that follow the first go by the row's id.
LEMMA FindAncestryScans ==
    ASSUME ScanInv, RowsInv, Memory, NEW w \in Workers,
           \/ FindAncestryID(w) \/ FindAncestryDetectors(w)
           \/ FindAncestryLayerHashes(w) \/ FindAncestryFeatures(w)
    PROVE  ScanInv'
<1> DEFINE anc == ancestries[ancestry[w]]
<1>1. /\ UNCHANGED <<ancestries, ancestry>>
      /\ row' = [x \in Workers |-> row'[x]] /\ \A x \in Workers \ {w} : row'[x] = row[x]
  BY Zenon DEF ScanInv, FindAncestryID, FindAncestryDetectors,
               FindAncestryLayerHashes, FindAncestryFeatures, tables
<1>2. ResultOK(w) /\ ancestry[w] \in Ancestries
  BY Zenon DEF ScanInv, RowsInv, Shape, FindAncestryID, FindAncestryDetectors,
         FindAncestryLayerHashes, FindAncestryFeatures, Go
<1>3. ASSUME FindAncestryID(w) PROVE ResultOK(w)'
  <2>1. pc'[w] = "detectors" /\ result'[w] = result[w] /\ anc # NoAncestry
    BY <1>3, Zenon DEF Memory, FindAncestryID, Go
  <2> QED
    BY <1>1, <1>2, <2>1, Zenon DEF ResultOK
<1>4. ASSUME FindAncestryDetectors(w) PROVE ResultOK(w)'
  <2>1. /\ pc[w] = "detectors" /\ pc'[w] = "hashes" /\ row'[w] = row[w]
        /\ result'[w] = [result[w] EXCEPT !.by = FoundRow(w).by]
    BY <1>4, Zenon DEF Memory, FindAncestryDetectors, Go
  <2>2. DOMAIN result'[w] = {"by", "layers"} /\ (row[w] => result'[w].by = anc.by)
    BY <1>2, <2>1 DEF ResultOK, FoundRow
  <2> QED
    BY <1>1, <1>2, <2>1, <2>2 DEF ResultOK
<1>5. ASSUME FindAncestryLayerHashes(w) PROVE ResultOK(w)'
  <2>1. /\ pc[w] = "hashes" /\ pc'[w] = "ancestry" /\ row'[w] = row[w]
        /\ result'[w] = [result[w] EXCEPT !.layers = [i \in DOMAIN FoundRow(w).layers |-> {}]]
    BY <1>5, Zenon DEF Memory, FindAncestryLayerHashes, Go
  <2>2. /\ DOMAIN result'[w] = {"by", "layers"} /\ result'[w].by = result[w].by
        /\ row[w] => DOMAIN result'[w].layers = DOMAIN anc.layers
    BY <1>2, <2>1 DEF ResultOK, FoundRow
  <2> QED
    BY <1>1, <1>2, <2>1, <2>2 DEF ResultOK
<1>6. ASSUME FindAncestryFeatures(w) PROVE ResultOK(w)'
  <2> DEFINE ls == result[w].layers
  <2>1. /\ pc[w] = "ancestry" /\ pc'[w] = "reply" /\ row'[w] = row[w]
        /\ result'[w] = [result[w] EXCEPT !.layers =
                           [i \in DOMAIN ls |-> IF row[w] THEN FoundRow(w).layers[i] ELSE {}]]
    BY <1>6, Zenon DEF Memory, FindAncestryFeatures, Go
  <2>2. /\ DOMAIN result'[w] = {"by", "layers"} /\ result'[w].by = result[w].by
        /\ result'[w].layers =
             [i \in DOMAIN ls |-> IF row[w] THEN FoundRow(w).layers[i] ELSE {}]
    BY <1>2, <2>1 DEF ResultOK
  <2>3. CASE row[w]
    <3>1. anc # NoAncestry /\ result[w].by = anc.by /\ DOMAIN ls = DOMAIN anc.layers
      BY <1>2, <2>1, <2>3 DEF ResultOK
    <3>2. IsScanOf(anc, ancestry[w])
      BY <1>2, <3>1 DEF ScanInv, AncestryIsExact
    <3>3. /\ result'[w].by = anc.by /\ DOMAIN result'[w].layers = DOMAIN anc.layers
          /\ \A i \in DOMAIN anc.layers : result'[w].layers[i] = anc.layers[i]
      BY <2>2, <2>3, <3>1 DEF FoundRow
    <3>4. IsScanOf(result'[w], ancestry'[w])
      BY <1>1, <3>2, <3>3, SameScan
    <3> QED
      BY <1>1, <2>1, <2>2, <3>1, <3>4 DEF ResultOK
  <2>4. CASE ~ row[w]
    <3>1. UNION Range(result'[w].layers) = {}
      BY <2>2, <2>4 DEF Range
    <3> QED
      BY <2>1, <2>2, <2>4, <3>1, Zenon DEF ResultOK
  <2> QED
    BY <2>3, <2>4
<1> QED
  BY <1>1, <1>3, <1>4, <1>5, <1>6, RequestIsLocal, OwnScan

\* Whatever a goroutine does on its way to computeAncestryLayers.
LEMMA OnTheWay ==
    ASSUME ScanInv, Memory, NEW w \in Workers,
           \/ InitWorker(w) \/ \E kind \in {"post", "get"}, a \in Ancestries : Receive(w, kind, a)
           \/ NewAncestry(w) \/ NotProcessed(w)
           \/ LayerNotFound(w) \/ FindLayerID(w) \/ FindLayerDetectors(w)
           \/ FindLayerFeatures(w) \/ FindLayerNamespaces(w)
           \/ PersistNamespaces(w) \/ PersistFeatures(w) \/ \E l \in Layers : PersistLayer(w, l)
    PROVE  ScanInv'
<1>1. /\ UNCHANGED <<ancestries, result>>
      /\ pc[w] \notin {"hashes", "ancestry", "reply", "upsert"}
      /\ pc'[w] \notin {"detectors", "hashes", "ancestry", "reply", "upsert"}
      /\ IF pc[w] = "detectors" THEN row' = [row EXCEPT ![w] = FALSE] ELSE row' = row
  <2>1. CASE \/ InitWorker(w) \/ NewAncestry(w) \/ NotProcessed(w)
             \/ \E kind \in {"post", "get"}, a \in Ancestries : Receive(w, kind, a)
    BY <2>1, Zenon DEF Memory, InitWorker, Receive, NewAncestry, NotProcessed, Go, tables
  <2>2. CASE \/ LayerNotFound(w) \/ FindLayerID(w) \/ FindLayerDetectors(w)
             \/ FindLayerFeatures(w) \/ FindLayerNamespaces(w)
    BY <2>2, Zenon DEF Memory, LayerNotFound, FindLayerID, FindLayerDetectors,
                FindLayerFeatures, FindLayerNamespaces, NextLayer, Go, tables
  <2>3. CASE PersistNamespaces(w) \/ PersistFeatures(w) \/ \E l \in Layers : PersistLayer(w, l)
    BY <2>3, Zenon DEF Memory, PersistNamespaces, PersistFeatures, PersistLayer, Go
  <2> QED
    BY <2>1, <2>2, <2>3, Zenon
<1>2. ResultOK(w) /\ row = [x \in Workers |-> row[x]]
  BY DEF ScanInv
<1>3. ~ row'[w]
  BY <1>1, <1>2 DEF ResultOK
<1>4. row' = [x \in Workers |-> row'[x]] /\ \A x \in Workers \ {w} : row'[x] = row[x]
  BY <1>1, <1>2, Zenon
<1>5. ResultOK(w)'
  BY <1>1, <1>2, <1>3, NoScan, Zenon DEF ResultOK
<1>6. Others(w)
  BY RequestIsLocal, ScanIsLocal
<1> QED
  BY <1>1, <1>4, <1>5, <1>6, OwnScan

\* The goroutine computes the scan of its image.
LEMMA ComputeScans ==
    ASSUME ScanInv, RowsInv, ReadInv, Memory, NEW w \in Workers, ComputeAncestry(w)
    PROVE  ScanInv'
<1> DEFINE seen == Seen(MergedLayers(w))
           by == getCommonDetectors(MergedLayers(w))
<1>1. /\ pc[w] = "compute" /\ pc'[w] = "upsert"
      /\ UNCHANGED <<ancestries, row>> /\ ancestry'[w] = ancestry[w]
  BY Zenon DEF Memory, ComputeAncestry, Go
<1>2. PICK ns \in NamespacesOf(seen) :
         /\ ~ NoCorrespondingFormat(seen, ns)
         /\ result'[w] = computeAncestryLayers(by, seen, ns)
  BY Zenon DEF Memory, ComputeAncestry
<1>3. /\ ancestry[w] \in Ancestries /\ IsSeen(seen, ancestry[w], by)
      /\ Len(seen) = Len(LayersOf[ancestry[w]])
  BY <1>1, SeenIsFound, Zenon
<1> HIDE DEF seen, by
<1>4. IsScanOf(result'[w], ancestry'[w])
  BY <1>1, <1>2, <1>3, ComputedIsScan, Zenon
<1>5. DOMAIN result'[w] = {"by", "layers"}
  BY <1>2, Zenon DEF computeAncestryLayers
<1>6. ResultOK(w) /\ row = [x \in Workers |-> row[x]]
  BY DEF ScanInv
<1>7. ResultOK(w)'
  BY <1>1, <1>4, <1>5, <1>6, Zenon DEF ResultOK
<1> QED
  BY <1>1, <1>6, <1>7, ScanIsLocal, OwnScan

\* A new row replaces the old one: who found that one finds nothing more.
LEMMA UpsertScans ==
    ASSUME ScanInv, RowsInv, Memory, NEW w \in Workers, Upsert(w)
    PROVE  ScanInv'
<1>1. /\ pc[w] = "upsert" /\ pc'[w] = "idle" /\ result'[w] = EmptyResult
      /\ ancestries' = [ancestries EXCEPT ![ancestry[w]] = result[w]]
      /\ row' = [x \in Workers |-> row[x] /\ ancestry[x] # ancestry[w]]
  BY Zenon DEF Memory, Upsert
<1>2. /\ ancestry[w] \in Ancestries /\ IsScanOf(result[w], ancestry[w])
      /\ ancestries = [a \in Ancestries |-> ancestries[a]]
  BY <1>1, Zenon DEF RowsInv, Shape, ScanInv, ResultOK
<1>3. /\ ancestries' = [a \in Ancestries |-> ancestries'[a]]
      /\ ancestries'[ancestry[w]] = result[w]
      /\ \A a \in Ancestries : a # ancestry[w] => ancestries'[a] = ancestries[a]
  BY <1>1, <1>2, Zenon
<1>4. AncestryIsExact'
  BY <1>2, <1>3 DEF ScanInv, AncestryIsExact
<1>5. ~ row'[w]
  BY <1>1, Zenon
<1>6. ResultOK(w)'
  BY <1>1, <1>5, NoScan, Zenon DEF EmptyResult
<1>7. ASSUME NEW x \in Workers \ {w} PROVE ResultOK(x)'
  <2>1. /\ pc'[x] = pc[x] /\ ancestry'[x] = ancestry[x] /\ result'[x] = result[x]
        /\ ResultOK(x)
    BY ScanIsLocal DEF Others, ScanInv
  <2>2. row'[x] => row[x] /\ ancestry[x] # ancestry[w]
    BY <1>1, Zenon
  <2>3. row[x] => ancestry[x] \in Ancestries
    BY <2>1, Zenon DEF ResultOK, RowsInv, Shape
  <2>4. row'[x] => ancestries'[ancestry'[x]] = ancestries[ancestry[x]]
    BY <1>3, <2>1, <2>2, <2>3
  <2> QED
    BY <2>1, <2>2, <2>4, Zenon DEF ResultOK
<1> QED
  BY <1>1, <1>3, <1>4, <1>6, <1>7 DEF ScanInv

\* Each action keeps the scans.
LEMMA NextScans == KeptInv /\ RowsInv /\ ReadInv /\ ScanInv /\ [Next]_vars => ScanInv'
<1> SUFFICES ASSUME KeptInv, RowsInv, ReadInv, ScanInv, [Next]_vars PROVE ScanInv'
  OBVIOUS
<1> USE HasMemory
<1>1. CASE Calm \/ UNCHANGED vars
  <2>1. UNCHANGED <<ancestries, pc, ancestry, row, result>>
    BY <1>1 DEF Calm, vars, tables, local
  <2> QED
    BY <2>1, Zenon DEF ScanInv, AncestryIsExact, ResultOK
<1>2. ASSUME NEW w \in Workers, Run(w) \/ Fail(w) PROVE ScanInv'
  <2>1. CASE Return(w) /\ UNCHANGED tables
    BY <2>1, ReturnScans
  <2>2. CASE \/ FindAncestryID(w) \/ FindAncestryDetectors(w)
             \/ FindAncestryLayerHashes(w) \/ FindAncestryFeatures(w)
    BY <2>2, FindAncestryScans
  <2>3. CASE InitWorker(w) \/ NewAncestry(w) \/ NotProcessed(w) \/ ProcessLayers(w)
    BY <2>3, OnTheWay DEF ProcessLayers
  <2>4. CASE ComputeAncestry(w)
    BY <2>4, ComputeScans
  <2>5. CASE Upsert(w)
    BY <2>5, UpsertScans
  <2> QED
    BY <1>2, <2>1, <2>2, <2>3, <2>4, <2>5, Zenon
       DEF Run, ProcessAncestry, GetAncestry, AncestryNotFound, AlreadyProcessed, Reply,
           ComputeFailed, Fail
<1>3. ASSUME NEW w \in Workers, NEW kind \in {"post", "get"}, NEW a \in Ancestries,
             Receive(w, kind, a)
      PROVE  ScanInv'
  BY <1>3, OnTheWay
<1> QED
  BY <1>1, <1>2, <1>3 DEF Next

\* What is stored, computed or reported is the scan of one image by one set of
\* detectors.
LEMMA ScanInvariant ==
    ASSUME OneFinder, NoneIsNew
    PROVE  Spec => []ScanInv
<1>1. Init => ScanInv
  <2> SUFFICES ASSUME Init PROVE ScanInv
    OBVIOUS
  <2>1. /\ row = [w \in Workers |-> row[w]] /\ ancestries = [a \in Ancestries |-> ancestries[a]]
        /\ \A a \in Ancestries : ancestries[a] = NoAncestry
        /\ \A w \in Workers : pc[w] = "off" /\ ~ row[w] /\ result[w] = EmptyResult
    BY Zenon DEF Init
  <2> QED
    BY <2>1, Zenon DEF ScanInv, AncestryIsExact, ResultOK, EmptyResult
<1> QED
  BY <1>1, NextScans, KeptInvariant, RowsInvariant, ReadInvariant, PTL DEF Spec

\* A stored ancestry holds exactly the features that its detectors find in its
\* layers, each at the layer that introduced it, whatever the instances that
\* scan the same layers at the time are doing.
THEOREM StoredAncestriesAreExact ==
    ASSUME OneFinder, NoneIsNew
    PROVE  Spec => []AncestryIsExact
<1>1. ScanInv => AncestryIsExact
  BY DEF ScanInv
<1> QED
  BY <1>1, ScanInvariant, PTL

\* GetAncestry reports the detectors and the features of one and the same scan,
\* although it reads them in different snapshots.
THEOREM ReportsAreOfOneScan ==
    ASSUME OneFinder, NoneIsNew
    PROVE  Spec => []ReportIsOneScan
<1>1. ScanInv => ReportIsOneScan
  BY Zenon DEF ScanInv, ResultOK, ReportIsOneScan
<1> QED
  BY <1>1, ScanInvariant, PTL
=============================================================================
