------------------------------- MODULE Worker -------------------------------
(***************************************************************************)
(* The API's goroutines that scan and report images (PostAncestry with     *)
(* ProcessAncestry, and GetAncestry) on the tables they share: detector,   *)
(* layer, layer_detector, layer_feature, layer_namespace, namespace,       *)
(* feature, namespaced_feature and ancestry.  Goroutines of one Clair      *)
(* instance have the same enabled detectors; instances may differ, as they *)
(* do while a deployment is upgraded.                                      *)
(*                                                                         *)
(* PostgreSQL runs their transactions in Read Committed mode: every query  *)
(* of FindLayer and FindAncestry is a step, which sees what is committed   *)
(* at that moment.  Each transaction that writes waits for, or fails on,   *)
(* the rows of another one (every table has a unique key), so it is one    *)
(* step, and may fail instead.  What the vulnerability cache adds to       *)
(* processAncestry is in VulnCache and leaves these tables alone.          *)
(***************************************************************************)
EXTENDS AncestryLayers

CONSTANTS Workers,      \* goroutines that serve requests
          Enabled,      \* EnabledDetectors of each one's instance
          Registered,   \* detectors that earlier deployments registered
          NoDetector,   \* Detector{}, what byID yields for an unknown id
          Requests,     \* the requests <<w, "post" or "get", a>> that clients make
          NoAncestry    \* an ancestry that is not in the table

ASSUME DetectorAssumption ==
    /\ NoDetector \notin Detectors
    /\ Enabled \in [Workers -> SUBSET Detectors]
    /\ Registered \subseteq Detectors
    /\ Requests \subseteq Workers \X {"post", "get"} \X Ancestries

VARIABLES detectors,   \* the table detector
          layers,      \* the table layer
          scanned,     \* layer_detector: the detectors that scanned a layer
          content,     \* layer_feature and layer_namespace, with who found it
          entities,    \* the tables feature and namespace
          namespaced,  \* the table namespaced_feature
          ancestries,  \* the tables ancestry, ancestry_layer, _feature, _detector
          pc,          \* where each goroutine is
          request,     \* "post" or "get"
          ancestry,    \* the ancestry its request names
          row,         \* whether the row whose id it found is still there
          next,        \* the layer request at which processLayers is
          known,       \* the detectors it read with findAllDetectors
          read,        \* the layers it found, by hash
          detected,    \* what detectContent adds to each of them
          todo,        \* the layers it has yet to persist
          result,      \* the ancestry it computed or found
          failing      \* whether queries, downloads and processes still fail

tables == <<detectors, layers, scanned, content, entities, namespaced, ancestries>>
local == <<pc, request, ancestry, row, next, known, read, detected, todo, result>>
vars == <<tables, local, failing>>

EmptyLayer == [by |-> {}, content |-> {}]
EmptyResult == [by |-> {}, layers |-> <<>>]
Hash(w) == LayersOf[ancestry[w]][next[w]]

AncestryFeature == Features \X Namespaces
Ancestry == [by : SUBSET Detectors, layers : Seq(SUBSET AncestryFeature)]
Layer == [by : SUBSET Detectors,
          content : SUBSET (Items \X (Detectors \cup {NoDetector}))]

\* Every variable holds a value of its type, and a layer has a feature or a
\* namespace at most once, as the unique keys of layer_feature and
\* layer_namespace demand.
TypeOK ==
    /\ detectors \subseteq Detectors /\ layers \subseteq Layers
    /\ scanned \in [Layers -> SUBSET Detectors]
    /\ content \in [Layers -> SUBSET (Items \X Detectors)]
    /\ \A l \in Layers : \A r, s \in content[l] : r[1] = s[1] => r = s
    /\ entities \subseteq Items /\ namespaced \subseteq AncestryFeature
    /\ \A a \in Ancestries : ancestries[a] # NoAncestry => ancestries[a] \in Ancestry
    /\ pc \in [Workers -> {"off", "idle", "find", "detectors", "hashes", "ancestry",
                           "reply", "layer", "by", "content", "namespaces",
                           "persistNamespaces", "persistFeatures", "persistLayers",
                           "compute", "upsert"}]
    /\ request \in [Workers -> {"post", "get"}]
    /\ ancestry \in [Workers -> Ancestries]
    /\ row \in [Workers -> BOOLEAN]
    /\ \A w \in Workers : next[w] \in DOMAIN LayersOf[ancestry[w]]
    /\ known \in [Workers -> SUBSET Detectors]
    /\ read \in [Workers -> [Layers -> Layer]] /\ detected \in [Workers -> [Layers -> Layer]]
    /\ todo \in [Workers -> SUBSET Layers]
    /\ result \in [Workers -> Ancestry]
    /\ failing \in BOOLEAN

Init ==
    /\ detectors = Registered
    /\ layers = {} /\ entities = {} /\ namespaced = {}
    /\ scanned = [l \in Layers |-> {}] /\ content = [l \in Layers |-> {}]
    /\ ancestries = [a \in Ancestries |-> NoAncestry]
    /\ pc = [w \in Workers |-> "off"]
    /\ request = [w \in Workers |-> "get"]
    /\ ancestry = [w \in Workers |-> CHOOSE a \in Ancestries : TRUE]
    /\ row = [w \in Workers |-> FALSE]
    /\ next = [w \in Workers |-> 1]
    /\ known = [w \in Workers |-> {}]
    /\ read = [w \in Workers |-> [l \in Layers |-> EmptyLayer]]
    /\ detected = read
    /\ todo = [w \in Workers |-> {}]
    /\ result = [w \in Workers |-> EmptyResult]
    /\ failing = TRUE

Go(w, from, to) == pc[w] = from /\ pc' = [pc EXCEPT ![w] = to]

\* The request of w is over, with an answer or an error; what its goroutine
\* had in memory is gone.
Return(w) ==
    /\ pc' = [pc EXCEPT ![w] = "idle"]
    /\ request' = [request EXCEPT ![w] = "get"]
    /\ row' = [row EXCEPT ![w] = FALSE]
    /\ next' = [next EXCEPT ![w] = 1]
    /\ known' = [known EXCEPT ![w] = {}]
    /\ read' = [read EXCEPT ![w] = [l \in Layers |-> EmptyLayer]]
    /\ detected' = [detected EXCEPT ![w] = [l \in Layers |-> EmptyLayer]]
    /\ todo' = [todo EXCEPT ![w] = {}]
    /\ result' = [result EXCEPT ![w] = EmptyResult]
    /\ UNCHANGED ancestry

-----------------------------------------------------------------------------
(* Requests.                                                               *)

\* InitWorker: an instance registers its detectors before it serves requests.
InitWorker(w) ==
    /\ Go(w, "off", "idle")
    /\ detectors' = detectors \cup Enabled[w]
    /\ UNCHANGED <<layers, scanned, content, entities, namespaced, ancestries,
                   request, ancestry, row, next, known, read, detected, todo, result>>

\* PostAncestry or GetAncestry is called.
Receive(w, kind, a) ==
    /\ <<w, kind, a>> \in Requests
    /\ Go(w, "idle", "find")
    /\ request' = [request EXCEPT ![w] = kind]
    /\ ancestry' = [ancestry EXCEPT ![w] = a]
    /\ UNCHANGED <<tables, row, next, known, read, detected, todo, result, failing>>

\* A query, a download, a commit or the process fails: the transaction that is
\* open is rolled back and the request ends with an error.  So does the loser
\* of two transactions that insert the same layer or the same ancestry.  This
\* goes on until all is Calm, if ever.
Fail(w) ==
    /\ failing /\ pc[w] \notin {"off", "idle", "reply"}
    /\ Return(w)
    /\ UNCHANGED <<tables, failing>>

Calm ==
    /\ failing /\ failing' = FALSE
    /\ UNCHANGED <<tables, local>>

-----------------------------------------------------------------------------
(* FindAncestry, for isAncestryProcessed and for GetAncestry.              *)

AncestryNotFound(w) ==
    /\ pc[w] = "find" /\ request[w] = "get"
    /\ ancestries[ancestry[w]] = NoAncestry
    /\ Return(w)
    /\ UNCHANGED tables

NewAncestry(w) ==
    /\ Go(w, "find", "layer")
    /\ request[w] = "post"
    /\ ancestries[ancestry[w]] = NoAncestry
    /\ UNCHANGED <<tables, request, ancestry, row, next, known, read, detected, todo, result>>

FindAncestryID(w) ==
    /\ Go(w, "find", "detectors")
    /\ ancestries[ancestry[w]] # NoAncestry
    /\ row' = [row EXCEPT ![w] = TRUE]
    /\ UNCHANGED <<tables, request, ancestry, next, known, read, detected, todo, result>>

\* What the queries by the row's id find: nothing once another transaction has
\* replaced the row.
FoundRow(w) == IF row[w] THEN ancestries[ancestry[w]] ELSE EmptyResult

\* A faulty variant: an ancestry that is found is taken for processed.
ProcessedOnceFound(w) == row[w]

\* All enabled detectors have scanned the ancestry.
isAncestryProcessed(w) == Enabled[w] \subseteq FoundRow(w).by

AlreadyProcessed(w) ==
    /\ pc[w] = "detectors" /\ request[w] = "post"
    /\ isAncestryProcessed(w)
    /\ Return(w)
    /\ UNCHANGED tables

NotProcessed(w) ==
    /\ Go(w, "detectors", "layer")
    /\ request[w] = "post"
    /\ ~ isAncestryProcessed(w)
    /\ row' = [row EXCEPT ![w] = FALSE]
    /\ UNCHANGED <<tables, request, ancestry, next, known, read, detected, todo, result>>

FindAncestryDetectors(w) ==
    /\ Go(w, "detectors", "hashes")
    /\ request[w] = "get"
    /\ result' = [result EXCEPT ![w].by = FoundRow(w).by]
    /\ UNCHANGED <<tables, request, ancestry, row, next, known, read, detected, todo>>

FindAncestryLayerHashes(w) ==
    /\ Go(w, "hashes", "ancestry")
    /\ result' = [result EXCEPT ![w].layers = [i \in DOMAIN FoundRow(w).layers |-> {}]]
    /\ UNCHANGED <<tables, request, ancestry, row, next, known, read, detected, todo>>

\* A faulty variant: the features are looked up by the ancestry's name.
FindFeaturesByName(w) ==
    /\ Go(w, "ancestry", "reply")
    /\ result' = [result EXCEPT ![w].layers =
                    [i \in DOMAIN @ |-> ancestries[ancestry[w]].layers[i]]]
    /\ UNCHANGED <<tables, request, ancestry, row, next, known, read, detected, todo>>

FindAncestryFeatures(w) ==
    /\ Go(w, "ancestry", "reply")
    /\ result' = [result EXCEPT ![w].layers =
                    [i \in DOMAIN @ |-> IF row[w] THEN FoundRow(w).layers[i] ELSE {}]]
    /\ UNCHANGED <<tables, request, ancestry, row, next, known, read, detected, todo>>

Reply(w) ==
    /\ pc[w] = "reply"
    /\ Return(w)
    /\ UNCHANGED tables

-----------------------------------------------------------------------------
(* processLayers: FindLayer for each layer of the request, in order, then   *)
(* detectContent and persistProcessResult.                                  *)

\* getProcessRequest goes on to the next layer, or all layers are found.
NextLayer(w) ==
    IF next[w] < Len(LayersOf[ancestry[w]])
    THEN /\ pc' = [pc EXCEPT ![w] = "layer"]
         /\ next' = [next EXCEPT ![w] = @ + 1]
    ELSE /\ pc' = [pc EXCEPT ![w] = "persistNamespaces"]
         /\ next' = [next EXCEPT ![w] = 1]

LayerNotFound(w) ==
    /\ pc[w] = "layer" /\ Hash(w) \notin layers
    /\ NextLayer(w)
    /\ read' = [read EXCEPT ![w][Hash(w)] = EmptyLayer]
    /\ UNCHANGED <<tables, request, ancestry, row, known, detected, todo, result>>

\* findLayerID finds the layer and findAllDetectors reads the table detector.
FindLayerID(w) ==
    /\ Go(w, "layer", "by")
    /\ Hash(w) \in layers
    /\ known' = [known EXCEPT ![w] = detectors]
    /\ UNCHANGED <<tables, request, ancestry, row, next, read, detected, todo, result>>

FindLayerDetectors(w) ==
    /\ Go(w, "by", "content")
    /\ read' = [read EXCEPT ![w][Hash(w)] = [by |-> scanned[Hash(w)], content |-> {}]]
    /\ UNCHANGED <<tables, request, ancestry, row, next, known, detected, todo, result>>

\* The rows of a layer whose item is in S, each with the detector that the map
\* of known detectors has for its detector_id.
RowsOf(w, S) ==
    {<<r[1], IF r[2] \in known[w] THEN r[2] ELSE NoDetector>> :
        r \in {c \in content[Hash(w)] : c[1] \in S}}

FindLayerFeatures(w) ==
    /\ Go(w, "content", "namespaces")
    /\ read' = [read EXCEPT ![w][Hash(w)].content = RowsOf(w, Features)]
    /\ UNCHANGED <<tables, request, ancestry, row, next, known, detected, todo, result>>

\* A faulty variant: FindLayer reads the layer's detectors after its content.
FindDetectorsLast(w) ==
    /\ pc[w] = "namespaces"
    /\ NextLayer(w)
    /\ read' = [read EXCEPT ![w][Hash(w)] =
                  [by |-> scanned[Hash(w)], content |-> @.content \cup RowsOf(w, Namespaces)]]
    /\ known' = [known EXCEPT ![w] = {}]
    /\ UNCHANGED <<tables, request, ancestry, row, detected, todo, result>>

FindLayerNamespaces(w) ==
    /\ pc[w] = "namespaces"
    /\ NextLayer(w)
    /\ read' = [read EXCEPT ![w][Hash(w)].content = @ \cup RowsOf(w, Namespaces)]
    /\ known' = [known EXCEPT ![w] = {}]
    /\ UNCHANGED <<tables, request, ancestry, row, detected, todo, result>>

Requested(w) == Range(LayersOf[ancestry[w]])

\* What the detectors that have not scanned layer l find in it.
detectContent(w, l) ==
    LET by == Enabled[w] \ read[w][l].by
    IN  [by |-> by, content |-> {r \in Items \X by : r[1] \in Finds[r[2]][l]}]

MergeLayers(old, new) ==
    [by |-> old.by \cup new.by, content |-> old.content \cup new.content]

\* A faulty variant: the loop over the results keeps what one of them has.
ItemsOfOne(results) ==
    LET one == CHOOSE l \in Layers :
                   results[l].content # {} \/ \A m \in Layers : results[m].content = {}
    IN  {r[1] : r \in results[one].content}

\* The features and namespaces that persistProcessResult collects.
ItemsOf(results) == {r[1] : r \in UNION {results[l].content : l \in Layers}}

\* processRequests: what the goroutines, one per layer, find.  They share nothing.
processRequests(w) ==
    [l \in Layers |-> IF l \in Requested(w) THEN detectContent(w, l) ELSE detected[w][l]]

\* processRequests, which only works in memory, and the first transaction of
\* persistProcessResult.  The layers that getProcessResultLayers merges later
\* are merged here: nothing else uses them.
PersistNamespaces(w) ==
    /\ Go(w, "persistNamespaces", "persistFeatures")
    /\ detected' = [detected EXCEPT ![w] = processRequests(w)]
    /\ read' = [read EXCEPT ![w] = [l \in Layers |-> MergeLayers(@[l], detected'[w][l])]]
    /\ entities' = entities \cup (ItemsOf(detected'[w]) \cap Namespaces)
    /\ UNCHANGED <<detectors, layers, scanned, content, namespaced, ancestries,
                   request, ancestry, row, next, known, todo, result>>

PersistFeatures(w) ==
    /\ Go(w, "persistFeatures", "persistLayers")
    /\ entities' = entities \cup (ItemsOf(detected[w]) \cap Features)
    /\ todo' = [todo EXCEPT ![w] = Requested(w)]
    /\ UNCHANGED <<detectors, layers, scanned, content, namespaced, ancestries,
                   request, ancestry, row, next, known, read, detected, result>>

\* INSERT ... ON CONFLICT DO NOTHING: of the rows with one item only the one
\* that is there already, or else one of those inserted, is kept.
Inserted(old, rows) ==
    LET new == {r \in rows : \A o \in old : o[1] # r[1]}
    IN  {old \cup s : s \in {t \in SUBSET new :
                              /\ \A r \in new : \E q \in t : q[1] = r[1]
                              /\ \A q, r \in t : q[1] = r[1] => q = r}}

\* PersistLayer finds the detectors, features and namespaces it refers to;
\* otherwise it returns ErrMissingEntities and the request fails.
NoMissingEntities(w, l) ==
    /\ detected[w][l].by \subseteq detectors
    /\ \A r \in detected[w][l].content : r[1] \in entities

\* A faulty variant: the rows of layer_detector are committed on their own, and the
\* rest of the transaction may still fail.
PersistLayerInTwo(w, l) ==
    /\ pc[w] = "persistLayers" /\ l \in todo[w] /\ NoMissingEntities(w, l)
    /\ layers' = layers \cup {l}
    /\ scanned' = [scanned EXCEPT ![l] = @ \cup detected[w][l].by]
    /\ \E rows \in {{}, detected[w][l].content} :
         \E new \in Inserted(content[l], rows) : content' = [content EXCEPT ![l] = new]
    /\ todo' = [todo EXCEPT ![w] = @ \ {l}]
    /\ pc' = [pc EXCEPT ![w] = IF todo[w] = {l} THEN "compute" ELSE @]
    /\ UNCHANGED <<detectors, entities, namespaced, ancestries,
                   request, ancestry, row, next, known, read, detected, result>>

\* PersistPartialLayerAndCommit, for one of the layers: Go iterates over the
\* map of results in any order.
PersistLayer(w, l) ==
    /\ pc[w] = "persistLayers" /\ l \in todo[w] /\ NoMissingEntities(w, l)
    /\ layers' = layers \cup {l}
    /\ scanned' = [scanned EXCEPT ![l] = @ \cup detected[w][l].by]
    /\ \E new \in Inserted(content[l], detected[w][l].content) :
         content' = [content EXCEPT ![l] = new]
    /\ todo' = [todo EXCEPT ![w] = @ \ {l}]
    /\ pc' = [pc EXCEPT ![w] = IF todo[w] = {l} THEN "compute" ELSE @]
    /\ UNCHANGED <<detectors, entities, namespaced, ancestries,
                   request, ancestry, row, next, known, read, detected, result>>

-----------------------------------------------------------------------------
(* processAncestry.                                                        *)

MergedLayers(w) == [i \in DOMAIN LayersOf[ancestry[w]] |-> read[w][LayersOf[ancestry[w]][i]]]

\* computeAncestryLayers returns an error.
ComputeFailed(w) ==
    /\ pc[w] = "compute"
    /\ \E seen \in {Seen(MergedLayers(w))} : \E ns \in NamespacesOf(seen) :
          NoCorrespondingFormat(seen, ns)
    /\ Return(w)
    /\ UNCHANGED tables

\* The ancestry is computed and PersistNamespacedFeaturesAndCommit done.
ComputeAncestry(w) ==
    /\ Go(w, "compute", "upsert")
    /\ \E seen \in {Seen(MergedLayers(w))} : \E ns \in NamespacesOf(seen) :
          /\ ~ NoCorrespondingFormat(seen, ns)
          /\ result' = [result EXCEPT ![w] =
                computeAncestryLayers(getCommonDetectors(MergedLayers(w)), seen, ns)]
    /\ namespaced' = namespaced \cup UNION Range(result'[w].layers)
    /\ UNCHANGED <<detectors, layers, scanned, content, entities, ancestries,
                   request, ancestry, row, next, known, read, detected, todo>>

\* UpsertAncestryAndCommit: the row, and all that refers to it, is deleted and
\* a new row inserted.  Who found the old row's id will find nothing else.
Upsert(w) ==
    /\ pc[w] = "upsert"
    /\ Requested(w) \subseteq layers
    /\ ancestries' = [ancestries EXCEPT ![ancestry[w]] = result[w]]
    /\ pc' = [pc EXCEPT ![w] = "idle"]
    /\ request' = [request EXCEPT ![w] = "get"]
    /\ row' = [x \in Workers |-> row[x] /\ ancestry[x] # ancestry[w]]
    /\ read' = [read EXCEPT ![w] = [l \in Layers |-> EmptyLayer]]
    /\ detected' = [detected EXCEPT ![w] = [l \in Layers |-> EmptyLayer]]
    /\ result' = [result EXCEPT ![w] = EmptyResult]
    /\ UNCHANGED <<detectors, layers, scanned, content, entities, namespaced,
                   ancestry, next, known, todo>>

-----------------------------------------------------------------------------
ProcessLayers(w) ==
    \/ LayerNotFound(w) \/ FindLayerID(w) \/ FindLayerDetectors(w)
    \/ FindLayerFeatures(w) \/ FindLayerNamespaces(w)
    \/ PersistNamespaces(w) \/ PersistFeatures(w)
    \/ \E l \in Layers : PersistLayer(w, l)

ProcessAncestry(w) ==
    \/ NewAncestry(w) \/ AlreadyProcessed(w) \/ NotProcessed(w)
    \/ ProcessLayers(w)
    \/ ComputeFailed(w) \/ ComputeAncestry(w) \/ Upsert(w)

GetAncestry(w) ==
    \/ AncestryNotFound(w) \/ FindAncestryDetectors(w)
    \/ FindAncestryLayerHashes(w) \/ FindAncestryFeatures(w) \/ Reply(w)

Run(w) ==
    /\ InitWorker(w) \/ FindAncestryID(w) \/ ProcessAncestry(w) \/ GetAncestry(w)
    /\ UNCHANGED failing

Next ==
    \/ \E w \in Workers : Run(w) \/ Fail(w)
    \/ \E w \in Workers, kind \in {"post", "get"}, a \in Ancestries : Receive(w, kind, a)
    \/ Calm

Spec == Init /\ [][Next]_vars

\* Every instance boots and serves its requests to the end, and clients post
\* their ancestries to it again and again.
FairSpec ==
    /\ Spec
    /\ \A w \in Workers : WF_vars(Run(w))
    /\ \A w \in Workers, a \in Ancestries : SF_vars(Receive(w, "post", a))

-----------------------------------------------------------------------------
(* Properties.                                                             *)

\* A stored ancestry holds exactly the features that its detectors find in its
\* layers, whatever ProcessAncestry took from layers that other instances
\* were scanning at the time.
AncestryIsExact ==
    \A a \in Ancestries : ancestries[a] # NoAncestry => IsScanOf(ancestries[a], a)

\* A layer that counts as scanned by a detector holds all that it finds there,
\* and nothing that no such detector finds: PersistLayer is atomic, also when
\* persistProcessResult fails between two layers.
ScannedIsKept ==
    \A l \in Layers :
        {r[1] : r \in content[l]} = FoundIn(scanned[l], l)

\* PersistLayer and UpsertAncestry find the rows they refer to, so that
\* ErrMissingEntities is never returned.
NothingIsMissing ==
    \A w \in Workers :
        /\ pc[w] = "persistLayers" => \A l \in todo[w] : NoMissingEntities(w, l)
        /\ pc[w] = "upsert" => /\ Requested(w) \subseteq layers
                              /\ UNION Range(result[w].layers) \subseteq namespaced
                              /\ result[w].by \subseteq detectors

\* computeAncestryLayers refuses an image only if some feature of it comes
\* before every namespace of its version format.
RefusesIllFormedOnly ==
    \A w \in Workers : pc[w] = "compute" =>
        LET seen == Seen(MergedLayers(w))
        IN  \A ns \in NamespacesOf(seen) :
                NoCorrespondingFormat(seen, ns) <=>
                    IllFormed(ancestry[w], getCommonDetectors(MergedLayers(w)))

\* GetAncestry never reports the features of one scan with the detectors of
\* another, although it reads them in different snapshots.
ReportIsOneScan ==
    \A w \in Workers :
        pc[w] = "reply" /\ UNION Range(result[w].layers) # {} => IsScanOf(result[w], ancestry[w])

ScannedBy(a) == IF ancestries[a] = NoAncestry THEN {} ELSE ancestries[a].by

\* Instances with different detectors that are asked for the same image again
\* and again stop overwriting each other's ancestry: once nothing fails any
\* more, it is scanned by the detectors of all of them for good.
ScannedByAll ==
    \A a \in {b \in Ancestries : ~ IllFormed(b, UNION Range(Enabled))} :
        ~ failing ~> [](UNION Range(Enabled) \subseteq ScannedBy(a))
=============================================================================
