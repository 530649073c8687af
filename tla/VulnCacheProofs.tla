-------------------------- MODULE VulnCacheProofs --------------------------
(***************************************************************************)
(* Proofs that the cache of vulnerabilities is sound and that, as long as  *)
(* versions can be compared, ancestries report exactly what affects them,  *)
(* for any number of workers, ancestries, features and vulnerabilities.    *)
(***************************************************************************)
EXTENDS VulnCache, TLAPS

\* A session between its LOCK statement and the end of its transaction has
\* the table lock.
Holding ==
    /\ \A w \in Workers : wpc[w] \in {"search", "commit"} => tableLock = w
    /\ upc \in {"invalidate", "search", "commit"} => tableLock = Updater
    /\ upc = "insert" /\ toRemove # {} => tableLock = Updater

\* What the sessions read under the lock is still true when they commit.
Reads ==
    /\ \A w \in Workers : wpc[w] = "commit" =>
           found[w] \subseteq (live \X Features) \cap Affected
    /\ upc \in {"idle", "delete", "invalidate"} => removed = {}
    /\ upc \in {"insert", "search", "commit"} =>
           removed = cache \cap (toRemove \X Features)
    /\ upc = "commit" => relation \subseteq (toAdd \X Features) \cap Affected

SoundInv == TypeOK /\ Holding /\ Reads /\ CacheIsSound

\* Every session whose features the updater must not miss persisted them.
Persisted ==
    /\ \A w \in Workers : wpc[w] \in {"lock", "search", "commit", "upsert"} =>
           FeaturesOf[ancestry[w]] \subseteq persisted
    /\ \A a \in ancestries : FeaturesOf[a] \subseteq persisted

\* The features of an ancestry that is stored, or about to be, are related to
\* every vulnerability that affects them, and the rows about to be inserted
\* relate those the tables do not relate yet.
Complete ==
    /\ \A w \in Workers : wpc[w] = "commit" =>
           (live \X FeaturesOf[ancestry[w]]) \cap Affected \subseteq found[w]
    /\ \A w \in Workers : wpc[w] = "upsert" =>
           (live \X FeaturesOf[ancestry[w]]) \cap Affected \subseteq cache
    /\ \A a \in ancestries : (live \X FeaturesOf[a]) \cap Affected \subseteq cache
    /\ upc = "commit" =>
         /\ \A w \in Workers : wpc[w] = "upsert" =>
                (toAdd \X FeaturesOf[ancestry[w]]) \cap Affected \subseteq relation
         /\ \A a \in ancestries : (toAdd \X FeaturesOf[a]) \cap Affected \subseteq relation

ExactInv == SoundInv /\ Persisted /\ Complete

-----------------------------------------------------------------------------
LEMMA InitSound == Init => SoundInv
  BY SessionAssumption DEF Init, SoundInv, TypeOK, Holding, Reads, CacheIsSound, Pairs

LEMMA NextType == TypeOK /\ [Next]_vars => TypeOK'
<1> SUFFICES ASSUME TypeOK, [Next]_vars PROVE TypeOK'
  OBVIOUS
<1> USE AffectsAssumption DEF TypeOK, Pairs, tables, worker, updater
<1>1. CASE UNCHANGED vars
  BY <1>1 DEF vars
<1>2. ASSUME NEW w \in Workers, NEW a \in Ancestries, Start(w, a) PROVE TypeOK'
  BY <1>2 DEF Start
<1>3. ASSUME NEW w \in Workers, Persist(w) PROVE TypeOK'
  BY <1>3 DEF Persist
<1>4. ASSUME NEW w \in Workers, CacheNothing(w) PROVE TypeOK'
  BY <1>4 DEF CacheNothing
<1>5. ASSUME NEW w \in Workers, LockCache(w) PROVE TypeOK'
  BY <1>5 DEF LockCache
<1>6. ASSUME NEW w \in Workers, SearchAffecting(w) PROVE TypeOK'
  BY <1>6 DEF SearchAffecting, searchAffectingVulnerabilities
<1>7. ASSUME NEW w \in Workers, CommitCache(w) PROVE TypeOK'
  BY <1>7 DEF CommitCache
<1>8. ASSUME NEW w \in Workers, Upsert(w) PROVE TypeOK'
  BY <1>8 DEF Upsert
<1>9. ASSUME NEW w \in Workers, WorkerFailed(w) PROVE TypeOK'
  BY <1>9 DEF WorkerFailed
<1>10. ASSUME NEW rem \in SUBSET live, NEW add \in SUBSET (Vulnerabilities \ used),
              MarkDeleted(rem, add)
       PROVE  TypeOK'
  BY <1>10 DEF MarkDeleted
<1>11. CASE LockToInvalidate
  BY <1>11 DEF LockToInvalidate
<1>12. CASE Invalidate
  BY <1>12 DEF Invalidate
<1>13. CASE LockToCache
  BY <1>13 DEF LockToCache
<1>14. CASE SearchAffected
  BY <1>14 DEF SearchAffected
<1>15. CASE CommitUpdate
  BY <1>15 DEF CommitUpdate, UpdaterIdle
<1>16. CASE UpdateFailed
  BY <1>16 DEF UpdateFailed, UpdaterIdle
<1> QED
  BY <1>1, <1>2, <1>3, <1>4, <1>5, <1>6, <1>7, <1>8, <1>9, <1>10, <1>11, <1>12,
     <1>13, <1>14, <1>15, <1>16, Zenon DEF Next, RunWorker, RunUpdater

LEMMA NextHolding == TypeOK /\ Holding /\ [Next]_vars => Holding'
<1> SUFFICES ASSUME TypeOK, Holding, [Next]_vars PROVE Holding'
  OBVIOUS
<1> USE SessionAssumption DEF TypeOK, Holding, tables, worker, updater
<1>1. CASE UNCHANGED vars
  BY <1>1 DEF vars
<1>2. ASSUME NEW w \in Workers, NEW a \in Ancestries, Start(w, a) PROVE Holding'
  BY <1>2 DEF Start
<1>3. ASSUME NEW w \in Workers, Persist(w) PROVE Holding'
  BY <1>3 DEF Persist
<1>4. ASSUME NEW w \in Workers, CacheNothing(w) PROVE Holding'
  BY <1>4 DEF CacheNothing
<1>5. ASSUME NEW w \in Workers, LockCache(w) PROVE Holding'
  BY <1>5 DEF LockCache
<1>6. ASSUME NEW w \in Workers, SearchAffecting(w) PROVE Holding'
  BY <1>6 DEF SearchAffecting, searchAffectingVulnerabilities
<1>7. ASSUME NEW w \in Workers, CommitCache(w) PROVE Holding'
  BY <1>7 DEF CommitCache
<1>8. ASSUME NEW w \in Workers, Upsert(w) PROVE Holding'
  BY <1>8 DEF Upsert
<1>9. ASSUME NEW w \in Workers, WorkerFailed(w) PROVE Holding'
  BY <1>9 DEF WorkerFailed
<1>10. ASSUME NEW rem \in SUBSET live, NEW add \in SUBSET (Vulnerabilities \ used),
              MarkDeleted(rem, add)
       PROVE  Holding'
  BY <1>10 DEF MarkDeleted
<1>11. CASE LockToInvalidate
  BY <1>11 DEF LockToInvalidate
<1>12. CASE Invalidate
  BY <1>12 DEF Invalidate
<1>13. CASE LockToCache
  BY <1>13 DEF LockToCache
<1>14. CASE SearchAffected
  BY <1>14 DEF SearchAffected
<1>15. CASE CommitUpdate
  BY <1>15 DEF CommitUpdate, UpdaterIdle
<1>16. CASE UpdateFailed
  BY <1>16 DEF UpdateFailed, UpdaterIdle
<1> QED
  BY <1>1, <1>2, <1>3, <1>4, <1>5, <1>6, <1>7, <1>8, <1>9, <1>10, <1>11, <1>12,
     <1>13, <1>14, <1>15, <1>16, Zenon DEF Next, RunWorker, RunUpdater

LEMMA NextReads ==
    SoundInv /\ [Next]_vars => Reads' /\ CacheIsSound'
<1> SUFFICES ASSUME SoundInv, [Next]_vars PROVE Reads' /\ CacheIsSound'
  OBVIOUS
<1> USE SessionAssumption, AffectsAssumption
    DEF SoundInv, TypeOK, Holding, Reads, CacheIsSound, Pairs, tables, worker, updater
<1>1. CASE UNCHANGED vars
  BY <1>1 DEF vars
<1>2. ASSUME NEW w \in Workers, NEW a \in Ancestries, Start(w, a) PROVE Reads' /\ CacheIsSound'
  BY <1>2 DEF Start
<1>3. ASSUME NEW w \in Workers, Persist(w) PROVE Reads' /\ CacheIsSound'
  BY <1>3 DEF Persist
<1>4. ASSUME NEW w \in Workers, CacheNothing(w) PROVE Reads' /\ CacheIsSound'
  BY <1>4 DEF CacheNothing
<1>5. ASSUME NEW w \in Workers, LockCache(w) PROVE Reads' /\ CacheIsSound'
  BY <1>5 DEF LockCache
<1>6. ASSUME NEW w \in Workers, SearchAffecting(w) PROVE Reads' /\ CacheIsSound'
  BY <1>6 DEF SearchAffecting, searchAffectingVulnerabilities
<1>7. ASSUME NEW w \in Workers, CommitCache(w) PROVE Reads' /\ CacheIsSound'
  BY <1>7 DEF CommitCache
<1>8. ASSUME NEW w \in Workers, Upsert(w) PROVE Reads' /\ CacheIsSound'
  BY <1>8 DEF Upsert
<1>9. ASSUME NEW w \in Workers, WorkerFailed(w) PROVE Reads' /\ CacheIsSound'
  BY <1>9 DEF WorkerFailed
<1>10. ASSUME NEW rem \in SUBSET live, NEW add \in SUBSET (Vulnerabilities \ used),
              MarkDeleted(rem, add)
       PROVE  Reads' /\ CacheIsSound'
  BY <1>10 DEF MarkDeleted
<1>11. CASE LockToInvalidate
  BY <1>11 DEF LockToInvalidate
<1>12. CASE Invalidate
  BY <1>12 DEF Invalidate
<1>13. CASE LockToCache
  BY <1>13 DEF LockToCache
<1>14. CASE SearchAffected
  BY <1>14 DEF SearchAffected
<1>15. CASE CommitUpdate
  BY <1>15 DEF CommitUpdate, UpdaterIdle
<1>16. CASE UpdateFailed
  BY <1>16 DEF UpdateFailed, UpdaterIdle
<1> QED
  BY <1>1, <1>2, <1>3, <1>4, <1>5, <1>6, <1>7, <1>8, <1>9, <1>10, <1>11, <1>12,
     <1>13, <1>14, <1>15, <1>16, Zenon DEF Next, RunWorker, RunUpdater

LEMMA NextPersisted == TypeOK /\ Persisted /\ [Next]_vars => Persisted'
<1> SUFFICES ASSUME TypeOK, Persisted, [Next]_vars PROVE Persisted'
  OBVIOUS
<1> USE AffectsAssumption DEF TypeOK, Persisted, tables, worker, updater
<1>1. CASE UNCHANGED vars
  BY <1>1 DEF vars
<1>2. ASSUME NEW w \in Workers, NEW a \in Ancestries, Start(w, a) PROVE Persisted'
  BY <1>2 DEF Start
<1>3. ASSUME NEW w \in Workers, Persist(w) PROVE Persisted'
  BY <1>3 DEF Persist
<1>4. ASSUME NEW w \in Workers, CacheNothing(w) PROVE Persisted'
  BY <1>4 DEF CacheNothing
<1>5. ASSUME NEW w \in Workers, LockCache(w) PROVE Persisted'
  BY <1>5 DEF LockCache
<1>6. ASSUME NEW w \in Workers, SearchAffecting(w) PROVE Persisted'
  BY <1>6 DEF SearchAffecting, searchAffectingVulnerabilities
<1>7. ASSUME NEW w \in Workers, CommitCache(w) PROVE Persisted'
  BY <1>7 DEF CommitCache
<1>8. ASSUME NEW w \in Workers, Upsert(w) PROVE Persisted'
  BY <1>8 DEF Upsert
<1>9. ASSUME NEW w \in Workers, WorkerFailed(w) PROVE Persisted'
  BY <1>9 DEF WorkerFailed
<1>10. ASSUME NEW rem \in SUBSET live, NEW add \in SUBSET (Vulnerabilities \ used),
              MarkDeleted(rem, add)
       PROVE  Persisted'
  BY <1>10 DEF MarkDeleted
<1>11. CASE LockToInvalidate
  BY <1>11 DEF LockToInvalidate
<1>12. CASE Invalidate
  BY <1>12 DEF Invalidate
<1>13. CASE LockToCache
  BY <1>13 DEF LockToCache
<1>14. CASE SearchAffected
  BY <1>14 DEF SearchAffected
<1>15. CASE CommitUpdate
  BY <1>15 DEF CommitUpdate, UpdaterIdle
<1>16. CASE UpdateFailed
  BY <1>16 DEF UpdateFailed, UpdaterIdle
<1> QED
  BY <1>1, <1>2, <1>3, <1>4, <1>5, <1>6, <1>7, <1>8, <1>9, <1>10, <1>11, <1>12,
     <1>13, <1>14, <1>15, <1>16, Zenon DEF Next, RunWorker, RunUpdater

LEMMA NextComplete ==
    ASSUME Invalid = {}
    PROVE  ExactInv /\ [Next]_vars => Complete'
<1> SUFFICES ASSUME ExactInv, [Next]_vars PROVE Complete'
  OBVIOUS
<1> USE SessionAssumption, AffectsAssumption
    DEF ExactInv, SoundInv, TypeOK, Holding, Reads, Persisted, Complete, Pairs, tables,
        worker, updater
<1>1. CASE UNCHANGED vars
  BY <1>1 DEF vars
<1>2. ASSUME NEW w \in Workers, NEW a \in Ancestries, Start(w, a) PROVE Complete'
  BY <1>2 DEF Start
<1>3. ASSUME NEW w \in Workers, Persist(w) PROVE Complete'
  BY <1>3 DEF Persist
<1>4. ASSUME NEW w \in Workers, CacheNothing(w) PROVE Complete'
  BY <1>4 DEF CacheNothing
<1>5. ASSUME NEW w \in Workers, LockCache(w) PROVE Complete'
  BY <1>5 DEF LockCache
<1>6. ASSUME NEW w \in Workers, SearchAffecting(w) PROVE Complete'
  BY <1>6 DEF SearchAffecting, searchAffectingVulnerabilities
<1>7. ASSUME NEW w \in Workers, CommitCache(w) PROVE Complete'
  BY <1>7 DEF CommitCache
<1>8. ASSUME NEW w \in Workers, Upsert(w) PROVE Complete'
  BY <1>8 DEF Upsert
<1>9. ASSUME NEW w \in Workers, WorkerFailed(w) PROVE Complete'
  BY <1>9 DEF WorkerFailed
<1>10. ASSUME NEW rem \in SUBSET live, NEW add \in SUBSET (Vulnerabilities \ used),
              MarkDeleted(rem, add)
       PROVE  Complete'
  BY <1>10, Zenon DEF MarkDeleted
<1>11. CASE LockToInvalidate
  BY <1>11 DEF LockToInvalidate
<1>12. CASE Invalidate
  BY <1>12 DEF Invalidate
<1>13. CASE LockToCache
  BY <1>13 DEF LockToCache
<1>14. CASE SearchAffected
  BY <1>14, Zenon DEF SearchAffected
<1>15. CASE CommitUpdate
  BY <1>15 DEF CommitUpdate, UpdaterIdle
<1>16. CASE UpdateFailed
  BY <1>16, Zenon DEF UpdateFailed, UpdaterIdle
<1> QED
  BY <1>1, <1>2, <1>3, <1>4, <1>5, <1>6, <1>7, <1>8, <1>9, <1>10, <1>11, <1>12,
     <1>13, <1>14, <1>15, <1>16, Zenon DEF Next, RunWorker, RunUpdater

-----------------------------------------------------------------------------
\* The variables always hold values of their types.
THEOREM Typing == Spec => []TypeOK
<1>1. Init => TypeOK
  BY InitSound DEF SoundInv
<1> QED
  BY <1>1, NextType, PTL DEF Spec

LEMMA Soundness == Spec => []SoundInv
<1>1. SoundInv /\ [Next]_vars => SoundInv'
  BY NextType, NextHolding, NextReads DEF SoundInv
<1> QED
  BY <1>1, InitSound, PTL DEF Spec

\* The cache relates no deleted vulnerability and no unaffected feature,
\* whatever transactions of workers and updater overlap or fail: the table
\* lock that both take makes what they read hold until they commit.
THEOREM CacheSoundness == Spec => []CacheIsSound
<1>1. SoundInv => CacheIsSound
  BY DEF SoundInv
<1> QED
  BY <1>1, Soundness, PTL

\* When every pair of versions can be compared, an ancestry that can be found
\* reports exactly the vulnerabilities that affect its features.
THEOREM ReportExactness ==
    ASSUME Invalid = {}
    PROVE  Spec => []ReportIsExact
<1>1. Init => ExactInv
  <2>1. Init => Persisted /\ Complete
    BY DEF Init, Persisted, Complete
  <2> QED
    BY <2>1, InitSound DEF ExactInv
<1>2. ExactInv /\ [Next]_vars => ExactInv'
  BY NextType, NextHolding, NextReads, NextPersisted, NextComplete, Invalid = {}
     DEF ExactInv, SoundInv
<1>3. ExactInv => ReportIsExact
  BY AffectsAssumption
     DEF ExactInv, SoundInv, TypeOK, CacheIsSound, Complete, ReportIsExact,
         FindAffectedNamespacedFeatures
<1> QED
  BY <1>1, <1>2, <1>3, PTL DEF Spec
=============================================================================
