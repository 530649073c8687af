----------------------------- MODULE VulnCache -----------------------------
(***************************************************************************)
(* The table vulnerability_affected_namespaced_feature, which caches what  *)
(* vulnerability affects which namespaced feature, and the transactions    *)
(* that keep it: the workers' (processAncestry: persist the features of an *)
(* ancestry, cache the vulnerabilities that affect them, upsert the        *)
(* ancestry) and the updater's (updateVulnerabilities: delete and insert   *)
(* vulnerabilities).  Both lock the table before they use it.              *)
(*                                                                         *)
(* PostgreSQL runs them in Read Committed mode.  A statement is a step: it *)
(* reads what is committed at that moment; what it writes is kept in the   *)
(* session's own variables and reaches the tables when the transaction     *)
(* commits, which also releases the table lock.                            *)
(***************************************************************************)
EXTENDS Naturals

CONSTANTS Workers,          \* goroutines of the API that process ancestries
          Updater,          \* the update goroutine
          NoSession,        \* holder of the table lock when it is free
          Ancestries,       \* ancestry names
          Features,         \* namespaced features
          Vulnerabilities,  \* identifiers of rows of the vulnerability table
          FeaturesOf,       \* the features of each ancestry
          Affected,         \* <<v, f>>: f's version is in v's affected range
          Invalid           \* <<v, f>>: the versions cannot be compared

ASSUME SessionAssumption ==
    /\ Updater \notin Workers
    /\ NoSession \notin Workers \cup {Updater}

ASSUME AffectsAssumption ==
    /\ FeaturesOf \in [Ancestries -> SUBSET Features]
    /\ Affected \subseteq Vulnerabilities \X Features
    /\ Invalid \subseteq (Vulnerabilities \X Features) \ Affected

VARIABLES live,        \* vulnerabilities that are not marked as deleted
          used,        \* all rows that were ever inserted
          persisted,   \* the table namespaced_feature
          cache,       \* the table vulnerability_affected_namespaced_feature
          ancestries,  \* the table ancestry
          tableLock,   \* the session that holds the lock on the cache
          wpc,         \* where each worker is
          ancestry,    \* the ancestry it processes
          found,       \* the rows it is about to insert
          upc,         \* where the updater is
          toRemove,    \* the vulnerabilities its transaction deletes,
          toAdd,       \* and inserts,
          removed,     \* the rows of the cache it deleted,
          relation     \* and those it is about to insert

tables == <<live, used, persisted, cache, ancestries>>
worker == <<wpc, ancestry, found>>
updater == <<upc, toRemove, toAdd, removed, relation>>
vars == <<tables, tableLock, worker, updater>>

Pairs == Vulnerabilities \X Features

\* Every variable holds a value of its type.
TypeOK ==
    /\ live \subseteq Vulnerabilities /\ used \subseteq Vulnerabilities
    /\ persisted \subseteq Features
    /\ cache \subseteq Pairs
    /\ ancestries \subseteq Ancestries
    /\ tableLock \in Workers \cup {Updater, NoSession}
    /\ wpc \in [Workers -> {"idle", "persist", "lock", "search", "commit", "upsert"}]
    /\ ancestry \in [Workers -> Ancestries]
    /\ found \in [Workers -> SUBSET Pairs]
    /\ upc \in {"idle", "delete", "invalidate", "insert", "search", "commit"}
    /\ toRemove \subseteq Vulnerabilities /\ toAdd \subseteq Vulnerabilities
    /\ removed \subseteq Pairs /\ relation \subseteq Pairs

Init ==
    /\ live = {} /\ used = {} /\ persisted = {} /\ cache = {} /\ ancestries = {}
    /\ tableLock = NoSession
    /\ wpc = [w \in Workers |-> "idle"]
    /\ ancestry \in [Workers -> Ancestries]
    /\ found = [w \in Workers |-> {}]
    /\ upc = "idle"
    /\ toRemove = {} /\ toAdd = {} /\ removed = {} /\ relation = {}

-----------------------------------------------------------------------------
\* Faulty variants of the definitions below, as a mistake in the code would
\* make them.
LockCacheNot(w) ==
    /\ wpc[w] = "lock" /\ FeaturesOf[ancestry[w]] # {}
    /\ wpc' = [wpc EXCEPT ![w] = "search"]
    /\ UNCHANGED <<tables, tableLock, ancestry, found, updater>>
SearchDeletedToo(fs) ==
    (used \X fs) \cap Affected
WorkerFailedNoRollback(w) ==
    /\ wpc[w] # "idle"
    /\ wpc' = [wpc EXCEPT ![w] = "idle"]
    /\ found' = [found EXCEPT ![w] = {}]
    /\ UNCHANGED <<tables, tableLock, ancestry, updater>>

\* ProcessAncestry reaches processAncestry.
Start(w, a) ==
    /\ wpc[w] = "idle"
    /\ wpc' = [wpc EXCEPT ![w] = "persist"]
    /\ ancestry' = [ancestry EXCEPT ![w] = a]
    /\ UNCHANGED <<tables, tableLock, found, updater>>

\* PersistNamespacedFeaturesAndCommit.
Persist(w) ==
    /\ wpc[w] = "persist"
    /\ persisted' = persisted \cup FeaturesOf[ancestry[w]]
    /\ wpc' = [wpc EXCEPT ![w] = "lock"]
    /\ UNCHANGED <<live, used, cache, ancestries, tableLock, ancestry, found, updater>>

\* CacheAffectedNamespacedFeatures has nothing to do without features.
CacheNothing(w) ==
    /\ wpc[w] = "lock" /\ FeaturesOf[ancestry[w]] = {}
    /\ wpc' = [wpc EXCEPT ![w] = "upsert"]
    /\ UNCHANGED <<tables, tableLock, ancestry, found, updater>>

\* CacheAffectedNamespacedFeatures locks the table ...
LockCache(w) ==
    /\ wpc[w] = "lock" /\ FeaturesOf[ancestry[w]] # {}
    /\ tableLock = NoSession
    /\ tableLock' = w
    /\ wpc' = [wpc EXCEPT ![w] = "search"]
    /\ UNCHANGED <<tables, ancestry, found, updater>>

\* ... and searches the vulnerabilities that are not deleted.  An error of a
\* version comparison ends searchAffectingVulnerabilities without a result;
\* its caller drops the error.
searchAffectingVulnerabilities(fs) ==
    IF (live \X fs) \cap Invalid # {} THEN {} ELSE (live \X fs) \cap Affected

SearchAffecting(w) ==
    /\ wpc[w] = "search"
    /\ found' = [found EXCEPT ![w] =
                   searchAffectingVulnerabilities(FeaturesOf[ancestry[w]])]
    /\ wpc' = [wpc EXCEPT ![w] = "commit"]
    /\ UNCHANGED <<tables, tableLock, ancestry, updater>>

\* It inserts the rows that are not there yet, and the transaction commits.
CommitCache(w) ==
    /\ wpc[w] = "commit"
    /\ cache' = cache \cup found[w]
    /\ found' = [found EXCEPT ![w] = {}]
    /\ tableLock' = NoSession
    /\ wpc' = [wpc EXCEPT ![w] = "upsert"]
    /\ UNCHANGED <<live, used, persisted, ancestries, ancestry, updater>>

\* UpsertAncestryAndCommit.
Upsert(w) ==
    /\ wpc[w] = "upsert"
    /\ ancestries' = ancestries \cup {ancestry[w]}
    /\ wpc' = [wpc EXCEPT ![w] = "idle"]
    /\ UNCHANGED <<live, used, persisted, cache, tableLock, ancestry, found, updater>>

\* A transaction of the worker fails, or its process dies: it is rolled back
\* and the table lock, if held, is released.
WorkerFailed(w) ==
    /\ wpc[w] # "idle"
    /\ wpc' = [wpc EXCEPT ![w] = "idle"]
    /\ found' = [found EXCEPT ![w] = {}]
    /\ tableLock' = IF tableLock = w THEN NoSession ELSE tableLock
    /\ UNCHANGED <<tables, ancestry, updater>>

-----------------------------------------------------------------------------
\* updateVulnerabilities has found what to delete and what to insert, and
\* markVulnerabilitiesAsDeleted has marked the former, in its transaction.
MarkDeleted(rem, add) ==
    /\ upc = "idle"
    /\ rem \subseteq live /\ add \subseteq Vulnerabilities \ used
    /\ toRemove' = rem /\ toAdd' = add
    /\ upc' = IF rem = {} THEN "insert" ELSE "delete"
    /\ UNCHANGED <<tables, tableLock, worker, removed, relation>>

\* invalidateVulnerabilityCache locks the table ...
LockToInvalidate ==
    /\ upc = "delete"
    /\ tableLock = NoSession
    /\ tableLock' = Updater
    /\ upc' = "invalidate"
    /\ UNCHANGED <<tables, worker, toRemove, toAdd, removed, relation>>

\* ... and deletes the affected features; their rows of the cache go with
\* them (ON DELETE CASCADE).
Invalidate ==
    /\ upc = "invalidate"
    /\ removed' = cache \cap (toRemove \X Features)
    /\ upc' = "insert"
    /\ UNCHANGED <<tables, tableLock, worker, toRemove, toAdd, relation>>

\* InsertVulnerabilities inserts the vulnerabilities, then locks the table,
\* unless its session already holds the lock.
LockToCache ==
    /\ upc = "insert"
    /\ tableLock \in {NoSession, Updater}
    /\ tableLock' = Updater
    /\ upc' = "search"
    /\ UNCHANGED <<tables, worker, toRemove, toAdd, removed, relation>>

\* cacheVulnerabiltyAffectedNamespacedFeature searches the features that the
\* new vulnerabilities affect.  It returns the error of a comparison.
SearchAffected ==
    /\ upc = "search"
    /\ (toAdd \X persisted) \cap Invalid = {}
    /\ relation' = (toAdd \X persisted) \cap Affected
    /\ upc' = "commit"
    /\ UNCHANGED <<tables, tableLock, worker, toRemove, toAdd, removed>>

UpdaterIdle ==
    /\ upc' = "idle"
    /\ toRemove' = {} /\ toAdd' = {} /\ removed' = {} /\ relation' = {}
    /\ tableLock' = IF tableLock = Updater THEN NoSession ELSE tableLock

\* The relation is inserted and the transaction commits.
CommitUpdate ==
    /\ upc = "commit"
    /\ live' = (live \ toRemove) \cup toAdd
    /\ used' = used \cup toAdd
    /\ cache' = (cache \ removed) \cup relation
    /\ UpdaterIdle
    /\ UNCHANGED <<persisted, ancestries, worker>>

\* The transaction fails and is rolled back.
UpdateFailed ==
    /\ upc # "idle"
    /\ UpdaterIdle
    /\ UNCHANGED <<tables, worker>>

-----------------------------------------------------------------------------
RunWorker(w) ==
    \/ Persist(w)
    \/ CacheNothing(w)
    \/ LockCache(w)
    \/ SearchAffecting(w)
    \/ CommitCache(w)
    \/ Upsert(w)

RunUpdater ==
    \/ LockToInvalidate
    \/ Invalidate
    \/ LockToCache
    \/ SearchAffected
    \/ CommitUpdate

Next ==
    \/ \E w \in Workers :
          (\E a \in Ancestries : Start(w, a)) \/ RunWorker(w) \/ WorkerFailed(w)
    \/ \E rem \in SUBSET live, add \in SUBSET (Vulnerabilities \ used) :
           MarkDeleted(rem, add)
    \/ RunUpdater \/ UpdateFailed

Spec == Init /\ [][Next]_vars

\* Every session goes on with its transaction, and PostgreSQL grants the table
\* lock to those that wait for it in turn.  No error comes to the rescue of a
\* session that waits.
Fairness ==
    /\ \A w \in Workers : WF_vars(RunWorker(w)) /\ SF_vars(LockCache(w))
    /\ WF_vars(RunUpdater)
    /\ SF_vars(LockToInvalidate \/ LockToCache)

FairSpec == Spec /\ Fairness

-----------------------------------------------------------------------------
\* What FindAffectedNamespacedFeatures returns: the rows of a feature whose
\* vulnerability is not deleted.
FindAffectedNamespacedFeatures(f) == {v \in live : <<v, f>> \in cache}

\* The cache holds no row of a deleted vulnerability and none for a feature
\* whose version is not affected, whatever failed and was rolled back.
CacheIsSound == cache \subseteq (live \X Features) \cap Affected

\* An ancestry that can be found reports exactly the vulnerabilities that
\* affect its features, however its processing and the updates overlapped:
\* no vulnerability is missed by both sides.
ReportIsExact ==
    \A a \in ancestries : \A f \in FeaturesOf[a] :
        FindAffectedNamespacedFeatures(f) = {v \in live : <<v, f>> \in Affected}

\* A worker or an updater that waits for the table lock ends its transaction:
\* no session keeps the lock, and none waits for another in a circle.
LockIsReleased ==
    /\ \A w \in Workers : wpc[w] = "lock" ~> wpc[w] \in {"upsert", "idle"}
    /\ upc \in {"delete", "insert"} ~> upc = "idle"
=============================================================================
