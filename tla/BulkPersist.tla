----------------------------- MODULE BulkPersist -----------------------------
(***************************************************************************)
(* The bulk inserts of database/pgsql: PersistNamespaces, PersistFeatures  *)
(* and persistLayerFeatures sort what they are given and insert it with    *)
(* one INSERT ... ON CONFLICT DO NOTHING.  PostgreSQL inserts the rows in  *)
(* the order of the statement, and a row whose key another transaction has *)
(* inserted waits until that transaction ends.  What they are given comes  *)
(* out of a set, in any order (DeduplicateNamespaces, DeduplicateFeatures, *)
(* the map of update).                                                     *)
(***************************************************************************)
EXTENDS Integers, Sequences, FiniteSets, SequencesExt

CONSTANTS Sessions,   \* transactions
          Tables,     \* the tables that are written
          Keys        \* for each table, the rows, as sequences of columns

VARIABLES table,      \* the table that is written
          committed,  \* its rows
          batch,      \* what each session still has to insert
          inserted    \* what it has inserted and not committed

vars == <<table, committed, batch, inserted>>

Init ==
    /\ table \in Tables
    /\ committed = {}
    /\ batch = [s \in Sessions |-> <<>>]
    /\ inserted = [s \in Sessions |-> {}]

-----------------------------------------------------------------------------
\* The functions given to sort.Slice.
lessNamespace(a, b) == a[1] < b[1] /\ a[2] < b[2]
lessFeature(a, b) == a[1] < b[1] \/ a[2] < b[2] \/ a[3] < b[3]
lessLayerFeature(a, b) == a[1] < b[1]

less(a, b) ==
    CASE table = "namespace" -> lessNamespace(a, b)
      [] table = "feature" -> lessFeature(a, b)
      [] table = "layer_feature" -> lessLayerFeature(a, b)

\* sort.Slice, which is an insertion sort for lists this short: an element
\* moves to the left for as long as it is less than its neighbour.
insert(sorted, x) ==
    LET stays == { i \in DOMAIN sorted : ~less(x, sorted[i]) }
        at == IF stays = {} THEN 1 ELSE 1 + CHOOSE i \in stays : \A j \in stays : j <= i
    IN  InsertAt(sorted, at, x)

Slice(list) == FoldLeft(insert, <<>>, list)

-----------------------------------------------------------------------------
\* The statement is sent.
Persist(s, rows) ==
    /\ batch[s] = <<>> /\ inserted[s] = {}
    /\ \E list \in SetToSeqs(rows) : batch' = [batch EXCEPT ![s] = Slice(list)]
    /\ UNCHANGED <<table, committed, inserted>>

WaitsFor(s, other) == s # other /\ batch[s] # <<>> /\ Head(batch[s]) \in inserted[other]

\* The next row is inserted, or is there already.
InsertRow(s) ==
    /\ batch[s] # <<>>
    /\ \A other \in Sessions : ~WaitsFor(s, other)
    /\ inserted' = [inserted EXCEPT ![s] = @ \cup ({Head(batch[s])} \ committed)]
    /\ batch' = [batch EXCEPT ![s] = Tail(@)]
    /\ UNCHANGED <<table, committed>>

Commit(s) ==
    /\ batch[s] = <<>> /\ inserted[s] # {}
    /\ committed' = committed \cup inserted[s]
    /\ inserted' = [inserted EXCEPT ![s] = {}]
    /\ UNCHANGED <<table, batch>>

\* The transaction fails; PostgreSQL ends one of those that wait for each other.
Rollback(s) ==
    /\ batch[s] # <<>> \/ inserted[s] # {}
    /\ batch' = [batch EXCEPT ![s] = <<>>]
    /\ inserted' = [inserted EXCEPT ![s] = {}]
    /\ UNCHANGED <<table, committed>>

Next ==
    \E s \in Sessions :
        \/ \E rows \in SUBSET Keys[table] : rows # {} /\ Persist(s, rows)
        \/ InsertRow(s)
        \/ Commit(s)
        \/ Rollback(s)

Spec == Init /\ [][Next]_vars

-----------------------------------------------------------------------------
\* "Sorting is needed before inserting into database to prevent deadlock": no
\* two sessions that insert the same rows wait for each other (namespace.go,
\* feature.go, layer.go).
NoDeadlock == \A s, other \in Sessions : ~(WaitsFor(s, other) /\ WaitsFor(other, s))
=============================================================================
