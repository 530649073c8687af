---------------------------- MODULE FetchProofs ----------------------------
(***************************************************************************)
(* Proofs about Fetch, for any advisories, appenders and feeds: what the   *)
(* appenders of one round leave in its vulnerabilities, and what the flags *)
(* of the sources stand for.                                               *)
(***************************************************************************)
EXTENDS Fetch, TLAPS

-----------------------------------------------------------------------------
(* The appenders.                                                             *)

Places == {"idle", "build", "append", "done", "failed"}
Vulnerability ==
    [metadata : SUBSET appenders, severity : appenders \cup {"rated", UnknownSeverity}]

\* The types of Metadata, and that an appender visits vulnerabilities of the
\* round.
Shape ==
    /\ batch \in [DOMAIN batch -> Vulnerability]
    /\ at \in [appenders -> Places]
    /\ todo \in [appenders -> SUBSET DOMAIN batch]
    /\ hashes \subseteq DOMAIN Feeds
    /\ files \in [DOMAIN Feeds -> {"missing", "torn", "whole"}]

\* An appender begins with all vulnerabilities; NVD's cache then holds every
\* feed whose hash is known, each read from a whole file.
CacheInv ==
    /\ \A a \in appenders : at[a] = "build" => todo[a] = DOMAIN batch
    /\ NVD \in appenders /\ at[NVD] = "append" =>
        cache = hashes /\ \A f \in cache : files[f] = "whole"

\* WholeFeeds, for feeds that exist.
FromWholeFeeds ==
    \A v \in DOMAIN batch : NVD \in batch[v].metadata =>
        FeedOf[v] \in DOMAIN Feeds /\ files[FeedOf[v]] = "whole"

AppendInv == Shape /\ CacheInv /\ MetadataKept /\ FromWholeFeeds

\* A round without vulnerabilities, whichever way it begins or ends.
LEMMA EmptyBatch ==
    ASSUME batch' = NoBatch, UNCHANGED appenders,
           at' = [a \in appenders |-> "idle"], todo' = [a \in appenders |-> {}],
           hashes' \subseteq DOMAIN Feeds,
           files' \in [DOMAIN Feeds -> {"missing", "torn", "whole"}]
    PROVE  AppendInv'
<1>1. DOMAIN batch' = {} /\ batch' \in [{} -> Vulnerability']
  BY DEF NoBatch
<1> QED
  BY <1>1 DEF AppendInv, Shape, CacheInv, MetadataKept, FromWholeFeeds, Places

\* addMetadata starts its goroutines.
LEMMA StartAppends ==
    ASSUME AppendInv, NEW V, StartMetadata(V)
    PROVE  AppendInv'
<1> USE DEF StartMetadata, nvd
<1>1. Shape'
  BY DEF AppendInv, Shape, Vulnerability, Places
<1>2. CacheInv' /\ FromWholeFeeds'
  BY DEF AppendInv, Shape, CacheInv, FromWholeFeeds
<1>3. MetadataKept'
  BY DEF MetadataKept, UnknownSeverity
<1> QED
  BY <1>1, <1>2, <1>3 DEF AppendInv

\* A file that is whole stays so, and the files stay files.
LEMMA DownloadsKeep ==
    ASSUME Shape, NEW known, NEW before
    PROVE  /\ Downloaded(known, before) \in [DOMAIN Feeds -> {"missing", "torn", "whole"}]
           /\ \A f \in DOMAIN Feeds :
                files[f] = "whole" => Downloaded(known, before)[f] = "whole"
BY DEF Shape, Downloaded

\* BuildCache of NVD succeeds.
LEMMA BuildKeeps == AppendInv /\ BuildCache => AppendInv'
<1> SUFFICES ASSUME AppendInv, BuildCache PROVE AppendInv'
  OBVIOUS
<1>1. PICK obtained \in SUBSET DOMAIN Feeds :
        /\ hashes' = hashes \cup obtained
        /\ files' = Downloaded(hashes', Len(Feeds) + 1)
        /\ parseFeeds(hashes', files')
        /\ cache' = hashes'
  BY DEF BuildCache
<1>2. NVD \in appenders /\ at[NVD] = "build" /\ todo[NVD] = DOMAIN batch
  BY DEF BuildCache, AppendInv, CacheInv
<1>3. at' = [at EXCEPT ![NVD] = "append"] /\ UNCHANGED <<appenders, batch, todo>>
  BY DEF BuildCache
<1>4. /\ files' \in [DOMAIN Feeds -> {"missing", "torn", "whole"}]
      /\ \A f \in DOMAIN Feeds : files[f] = "whole" => files'[f] = "whole"
  BY <1>1, DownloadsKeep DEF AppendInv
<1>5. Shape'
  BY <1>1, <1>3, <1>4, Zenon DEF AppendInv, Shape, Places, Vulnerability
<1>6. CacheInv'
  BY <1>1, <1>3, Zenon DEF AppendInv, Shape, CacheInv, parseFeeds
<1>7. MetadataKept'
  BY <1>2, <1>3 DEF AppendInv, Shape, MetadataKept
<1>8. FromWholeFeeds'
  BY <1>3, <1>4 DEF AppendInv, FromWholeFeeds
<1> QED
  BY <1>5, <1>6, <1>7, <1>8 DEF AppendInv

\* BuildCache of NVD fails, in one of three ways.
LEMMA BuildFailsKeeps == AppendInv /\ BuildCacheFails => AppendInv'
<1> SUFFICES ASSUME AppendInv, BuildCacheFails PROVE AppendInv'
  OBVIOUS
<1>1. /\ NVD \in appenders /\ at' = [at EXCEPT ![NVD] = "failed"]
      /\ UNCHANGED <<appenders, batch, todo, cache>>
  BY DEF BuildCacheFails
<1>2. /\ hashes' \subseteq DOMAIN Feeds
      /\ files' \in [DOMAIN Feeds -> {"missing", "torn", "whole"}]
      /\ \A f \in DOMAIN Feeds : files[f] = "whole" => files'[f] = "whole"
  <2>1. CASE UNCHANGED <<hashes, files>>
    BY <2>1 DEF AppendInv, Shape
  <2>2. ASSUME NEW obtained \in SUBSET DOMAIN Feeds, NEW f \in DOMAIN Feeds,
               NEW left \in {"missing", "torn"},
               hashes' = hashes \cup obtained, NeedsDownload(hashes', f),
               files' = [Downloaded(hashes', f) EXCEPT ![f] = left]
        PROVE  <1>2
    BY <2>2, DownloadsKeep DEF AppendInv, Shape, NeedsDownload
  <2>3. ASSUME NEW obtained \in SUBSET DOMAIN Feeds, hashes' = hashes \cup obtained,
               files' = Downloaded(hashes', Len(Feeds) + 1)
        PROVE  <1>2
    BY <2>3, DownloadsKeep DEF AppendInv, Shape
  <2> QED
    BY <2>1, <2>2, <2>3, Zenon DEF BuildCacheFails
<1>3. Shape'
  BY <1>1, <1>2 DEF AppendInv, Shape, Places, Vulnerability
<1>4. CacheInv'
  BY <1>1 DEF AppendInv, Shape, CacheInv
<1>5. MetadataKept'
  BY <1>1 DEF AppendInv, Shape, MetadataKept
<1>6. FromWholeFeeds'
  BY <1>1, <1>2 DEF AppendInv, FromWholeFeeds
<1> QED
  BY <1>3, <1>4, <1>5, <1>6 DEF AppendInv

\* BuildCache of another appender.
LEMMA OtherBuildKeeps ==
    ASSUME AppendInv, NEW a \in appenders, OtherBuildCache(a)
    PROVE  AppendInv'
<1>1. /\ at[a] = "build" /\ todo[a] = DOMAIN batch /\ a # NVD
      /\ at' = [at EXCEPT ![a] = "append"]
      /\ UNCHANGED <<appenders, batch, todo, hashes, files, cache>>
  BY MetadataAssumption DEF AppendInv, CacheInv, OtherBuildCache, nvd
<1>2. Shape' /\ CacheInv'
  BY <1>1 DEF AppendInv, Shape, CacheInv, Places, Vulnerability
<1>3. MetadataKept' /\ FromWholeFeeds'
  BY <1>1 DEF AppendInv, Shape, MetadataKept, FromWholeFeeds
<1> QED
  BY <1>2, <1>3 DEF AppendInv

\* Append, which adds to what other appenders left.
LEMMA AppendKeeps ==
    ASSUME AppendInv, NEW a \in appenders, NEW v \in todo[a], AppendTo(a, v)
    PROVE  AppendInv'
<1>1. /\ at[a] = "append" /\ v \in DOMAIN batch
      /\ todo' = [todo EXCEPT ![a] = todo[a] \ {v}]
      /\ UNCHANGED <<appenders, at, hashes, files, cache>>
  BY DEF AppendInv, Shape, AppendTo, nvd
<1>2. Knows(a, v) <=> (a = NVD => FeedOf[v] \in hashes)
  BY <1>1 DEF AppendInv, CacheInv, Knows
<1>3. CASE ~Knows(a, v)
  <2>1. UNCHANGED batch
    BY <1>3 DEF AppendTo
  <2>2. Shape' /\ CacheInv'
    BY <1>1, <2>1 DEF AppendInv, Shape, CacheInv, Vulnerability
  <2>3. MetadataKept' /\ FromWholeFeeds'
    BY <1>1, <1>2, <1>3, <2>1 DEF AppendInv, Shape, MetadataKept, FromWholeFeeds
  <2> QED
    BY <2>2, <2>3 DEF AppendInv
<1>4. CASE Knows(a, v)
  <2> DEFINE new == appendFunc(batch[v], a, a)
  <2>1. batch' = [batch EXCEPT ![v] = new]
    BY <1>4 DEF AppendTo
  <2>2. batch[v] \in Vulnerability
    BY <1>1 DEF AppendInv, Shape
  <2>3. /\ new \in Vulnerability
        /\ new.metadata = batch[v].metadata \cup {a}
        /\ new.severity = IF batch[v].severity = UnknownSeverity THEN a ELSE batch[v].severity
    BY <2>2, Zenon DEF appendFunc, Vulnerability
  <2> HIDE DEF new
  <2>4. /\ DOMAIN batch' = DOMAIN batch /\ batch'[v] = new
        /\ \A w \in DOMAIN batch : w # v => batch'[w] = batch[w]
    BY <1>1, <2>1 DEF AppendInv, Shape
  <2>5. Shape'
    BY <1>1, <2>1, <2>3, <2>4 DEF AppendInv, Shape, Vulnerability
  <2>6. CacheInv'
    BY <1>1, <2>4 DEF AppendInv, Shape, CacheInv
  <2>7. MetadataKept'
    <3> SUFFICES ASSUME NEW w \in DOMAIN batch
                 PROVE  /\ \A b \in appenders :
                            /\ at[b] \in {"append", "done"} /\ w \notin todo'[b]
                            /\ b = NVD => FeedOf[w] \in hashes
                            => b \in batch'[w].metadata
                        /\ batch'[w].severity \in
                            CASE w \in Rated -> {"rated"}
                              [] w \notin Rated /\ batch'[w].metadata = {} -> {UnknownSeverity}
                              [] OTHER -> batch'[w].metadata
      BY <1>1, <2>4 DEF MetadataKept
    <3>1. CASE w # v
      BY <1>1, <2>4, <3>1 DEF AppendInv, Shape, MetadataKept
    <3>2. CASE w = v
      <4>1. \A b \in appenders :
                /\ at[b] \in {"append", "done"} /\ w \notin todo'[b]
                /\ b = NVD => FeedOf[w] \in hashes
                => b \in batch'[w].metadata
        BY <1>1, <2>3, <2>4, <3>2 DEF AppendInv, Shape, MetadataKept
      <4>2. batch[v].severity \in
                CASE v \in Rated -> {"rated"}
                  [] v \notin Rated /\ batch[v].metadata = {} -> {UnknownSeverity}
                  [] OTHER -> batch[v].metadata
        BY <1>1 DEF AppendInv, MetadataKept
      <4> QED
        BY <2>3, <2>4, <3>2, <4>1, <4>2 DEF UnknownSeverity
    <3> QED
      BY <3>1, <3>2
  <2>8. FromWholeFeeds'
    <3>1. a = NVD => FeedOf[v] \in DOMAIN Feeds /\ files[FeedOf[v]] = "whole"
      BY <1>1, <1>4 DEF AppendInv, Shape, CacheInv, Knows
    <3> QED
      BY <1>1, <2>3, <2>4, <3>1 DEF AppendInv, FromWholeFeeds
  <2> QED
    BY <2>5, <2>6, <2>7, <2>8 DEF AppendInv
<1> QED
  BY <1>3, <1>4

\* PurgeCache.
LEMMA PurgeKeeps ==
    ASSUME AppendInv, NEW a \in appenders, PurgeCache(a)
    PROVE  AppendInv'
<1>1. /\ at[a] = "append" /\ at' = [at EXCEPT ![a] = "done"]
      /\ UNCHANGED <<appenders, batch, todo, hashes, files>>
      /\ a # NVD => UNCHANGED cache
  BY DEF PurgeCache
<1>2. Shape' /\ CacheInv'
  BY <1>1 DEF AppendInv, Shape, CacheInv, Places, Vulnerability
<1>3. MetadataKept' /\ FromWholeFeeds'
  BY <1>1 DEF AppendInv, Shape, MetadataKept, FromWholeFeeds
<1> QED
  BY <1>2, <1>3 DEF AppendInv

\* Every step of a round, or between rounds.
LEMMA AppendInvariant == Spec => []AppendInv
<1>1. Init => AppendInv
  <2> SUFFICES ASSUME Init PROVE AppendInv
    OBVIOUS
  <2>1. DOMAIN batch = {} /\ batch \in [{} -> Vulnerability]
    BY DEF Init, MetadataInit, NoBatch
  <2> QED
    BY <2>1
       DEF Init, MetadataInit, AppendInv, Shape, CacheInv, MetadataKept, FromWholeFeeds, Places
<1>2. AppendInv /\ [Next]_vars => AppendInv'
  <2> SUFFICES ASSUME AppendInv, [Next]_vars PROVE AppendInv'
    OBVIOUS
  <2>1. CASE UNCHANGED metadata
    <3>1. UNCHANGED <<appenders, batch, at, todo, hashes, files, cache>>
      BY <2>1 DEF metadata, nvd
    <3>2. Shape' /\ CacheInv'
      BY <3>1 DEF AppendInv, Shape, CacheInv, Vulnerability
    <3> QED
      BY <3>1, <3>2 DEF AppendInv, MetadataKept, FromWholeFeeds
  <2>2. CASE \E V : StartMetadata(V)
    BY <2>2, StartAppends
  <2>3. CASE AppendersRun
    BY <2>3, BuildKeeps, BuildFailsKeeps, OtherBuildKeeps, AppendKeeps, PurgeKeeps
       DEF AppendersRun
  <2>4. CASE MetadataEnd
    BY <2>4, EmptyBatch DEF MetadataEnd, nvd, AppendInv, Shape
  <2>5. CASE MetadataRestart
    BY <2>5, EmptyBatch DEF MetadataRestart
  <2> QED
    BY <2>1, <2>2, <2>3, <2>4, <2>5
       DEF Next, Round, vars, FetchAnswered, FetchFails, AddMetadata, StoreVulnerabilities,
           StoreFails, SaveFlags, SaveFails, PublishAdvisory, Restart
<1> QED
  BY <1>1, <1>2, PTL DEF Spec

\* Appenders that run at the same time lose nothing of each other, whichever and
\* however many they are.
THEOREM AppendersKeep == Spec => []MetadataKept
<1>1. AppendInv => MetadataKept
  BY DEF AppendInv
<1> QED
  BY <1>1, AppendInvariant, PTL

\* NVD's metadata comes from whole feeds only, whatever downloads break off.
THEOREM FeedsAreWhole == Spec => []WholeFeeds
<1>1. AppendInv => WholeFeeds
  BY DEF AppendInv, FromWholeFeeds, WholeFeeds
<1> QED
  BY <1>1, AppendInvariant, PTL

-----------------------------------------------------------------------------
(* The flags.                                                                 *)

\* The advisories of a list that a commit, or the hash of a document, holds.
HeldBy(value, list) == { list[i] : i \in 1 .. value - 1 }

\* A commit or a hash that may be a flag of k once n advisories of the list have
\* appeared: it names a state that has been, whose advisories are among those
\* given and, for Ubuntu, about known releases.
CommitCovered(value, ids, k, list, n) ==
    /\ value \in Nat /\ value <= n + 1
    /\ HeldBy(value, list) \subseteq ids
    /\ k = "ubuntu" => HeldBy(value, list) \cap Unmapped = {}

\* How the code of source k compares numbers.
IsNewer(k, n, first) == IF k = "oracle" THEN compareELSA(n, first) > 0 ELSE n > first

\* A number that may be a flag of k: one that has appeared, or none, such that
\* every advisory is among those given or newer.
NumberCovered(value, ids, k, list, n) ==
    /\ value = 0 \/ \E i \in 1 .. n : value = list[i]
    /\ \A i \in 1 .. n : IsNewer(k, list[i], FirstId) =>
        \/ list[i] \in ids
        \/ IsNewer(k, list[i], IF value = 0 THEN FirstId ELSE value)

\* Either, as the source has it.
Covered(value, ids, k, list, n) ==
    IF k \in ListKinds THEN NumberCovered(value, ids, k, list, n)
    ELSE CommitCovered(value, ids, k, list, n)

\* The numbers appear in the order in which the code compares them.
CodeOrder ==
    kind \in ListKinds => \A j \in DOMAIN advisories : \A i \in 1 .. j - 1 :
        Newer(advisories[j], FirstId) => Newer(advisories[j], advisories[i])

\* The saved flag is covered by the database, and the one that was returned by
\* the database and the round's vulnerabilities, then by the database alone.
FlagsCovered ==
    /\ Covered(flag, stored, kind, advisories, count)
    /\ phase = "metadata" /\ ~resp.err =>
          Covered(resp.flag, stored \cup DOMAIN batch, kind, advisories, count)
    /\ phase = "flags" /\ ~resp.err => Covered(resp.flag, stored, kind, advisories, count)
\* The invariant that the flags rest on.
FlagInv ==
    /\ count \in Nat /\ kind \in Kinds
    /\ advisories \in Seq(Nat \ {0}) /\ count <= Len(advisories)
    /\ CodeOrder => FlagsCovered

\* Advisories that are stored leave a flag covered.
LEMMA CoveredStays ==
    ASSUME NEW value, NEW ids, NEW more, NEW k, NEW list, NEW n \in Nat,
           Covered(value, ids, k, list, n), ids \subseteq more
    PROVE  Covered(value, more, k, list, n)
<1>1. CommitCovered(value, ids, k, list, n) => CommitCovered(value, more, k, list, n)
  BY Zenon DEF CommitCovered
<1>2. NumberCovered(value, ids, k, list, n) => NumberCovered(value, more, k, list, n)
  BY Zenon DEF NumberCovered
<1> QED
  BY <1>1, <1>2, Zenon DEF Covered

\* So does the next one that appears, if it appears in order.
LEMMA CoveredNext ==
    ASSUME NEW value, NEW ids, FlagInv, CodeOrder, count < Len(advisories),
           Covered(value, ids, kind, advisories, count)
    PROVE  Covered(value, ids, kind, advisories, count + 1)
<1>0. count \in Nat /\ count + 1 \in DOMAIN advisories
  BY DEF FlagInv
<1>1. CASE kind \notin ListKinds
  <2>1. CommitCovered(value, ids, kind, advisories, count)
    BY <1>1, Zenon DEF Covered
  <2>2. value <= count + 1 + 1 /\ value \in Nat
    BY <1>0, <2>1 DEF CommitCovered
  <2> QED
    BY <1>1, <2>1, <2>2, Zenon DEF Covered, CommitCovered
<1>2. CASE kind \in ListKinds
  <2> DEFINE n == count + 1
             first == IF value = 0 THEN FirstId ELSE value
  <2>1. NumberCovered(value, ids, kind, advisories, count)
    BY <1>2, Zenon DEF Covered
  <2>2. \A i \in 1 .. count + 1 : i \in 1 .. count \/ i = n
    BY <1>0
  <2>3. \A i \in 1 .. count : i \in 1 .. count + 1 /\ i \in 1 .. n - 1
    BY <1>0
  <2>4. ASSUME IsNewer(kind, advisories[n], FirstId)
        PROVE  IsNewer(kind, advisories[n], first)
    <3>1. CASE value = 0
      BY <2>4, <3>1, Zenon
    <3>2. CASE value # 0
      <4>1. PICK i \in 1 .. count : value = advisories[i]
        BY <2>1, <3>2, Zenon DEF NumberCovered
      <4>2. i \in 1 .. n - 1
        BY <2>3, Zenon
      <4> HIDE DEF n
      <4>3. Newer(advisories[n], advisories[i])
        BY <1>0, <1>2, <2>4, <4>2, Zenon DEF CodeOrder, Newer, IsNewer, n
      <4> QED
        BY <3>2, <4>1, <4>3, Zenon DEF Newer, IsNewer
    <3> QED
      BY <3>1, <3>2
  <2>5. value = 0 \/ \E i \in 1 .. count + 1 : value = advisories[i]
    BY <2>1, <2>3, Zenon DEF NumberCovered
  <2>6. ASSUME NEW i \in 1 .. count + 1, IsNewer(kind, advisories[i], FirstId)
        PROVE  advisories[i] \in ids \/ IsNewer(kind, advisories[i], first)
    <3>1. CASE i \in 1 .. count
      BY <2>1, <2>6, <3>1, Zenon DEF NumberCovered
    <3>2. CASE i = n
      BY <2>4, <2>6, <3>2, Zenon
    <3> QED
      BY <2>2, <3>1, <3>2, Zenon
  <2>7. NumberCovered(value, ids, kind, advisories, count + 1)
    BY <2>5, <2>6, Zenon DEF NumberCovered
  <2> QED
    BY <1>2, <2>7, Zenon DEF Covered
<1> QED
  BY <1>1, <1>2

\* What is published is what the present commit holds.
LEMMA PublishedIsHeld == count \in Nat => Published = HeldBy(Commit, advisories)
BY DEF Published, HeldBy, Commit

\* A source with commits or hashes that answers returns a flag that its answer
\* and the database cover.
LEMMA CommitIsCovered ==
    ASSUME count \in Nat, kind \notin ListKinds,
           CommitCovered(flag, stored, kind, advisories, count),
           GitUpdate \/ DebianUpdate
    PROVE  CommitCovered(resp'.flag, stored \cup resp'.ids, kind, advisories, count)
<1>2. Published \cap Unmapped = {} \/ kind # "ubuntu" =>
        CommitCovered(Commit, stored \cup Published, kind, advisories, count)
  BY PublishedIsHeld DEF CommitCovered, Commit
<1>3. \A ids : CommitCovered(flag, stored \cup ids, kind, advisories, count)
  BY Zenon DEF CommitCovered
<1>4. CASE GitUpdate
  <2>1. CASE flag = Commit
    <3>1. resp'.flag = flag
      BY <1>4, <2>1 DEF GitUpdate, Response
    <3> QED
      BY <1>3, <3>1, Zenon
  <2>2. CASE flag # Commit
    <3>1. /\ resp'.ids = Published
          /\ \/ resp'.flag = Commit /\ (Published \cap Unmapped = {} \/ kind # "ubuntu")
             \/ resp'.flag = flag
      BY <1>4, <2>2 DEF GitUpdate, Response, ubuntuFlag
    <3> QED
      BY <1>2, <1>3, <3>1, Zenon
  <2> QED
    BY <2>1, <2>2
<1>5. CASE DebianUpdate
  <2>1. CASE flag = Commit
    <3>1. resp'.flag = flag
      BY <1>5, <2>1 DEF DebianUpdate, Response
    <3> QED
      BY <1>3, <3>1, Zenon
  <2>2. CASE flag # Commit
    <3>1. resp'.ids = Published /\ resp'.flag = Commit /\ kind # "ubuntu"
      BY <1>5, <2>2 DEF DebianUpdate, Response
    <3> QED
      BY <1>2, <3>1, Zenon
  <2> QED
    BY <2>1, <2>2
<1> QED
  BY <1>4, <1>5

\* So does one that lists numbers.
LEMMA NumberIsCovered ==
    ASSUME NumberCovered(flag, stored, kind, advisories, count),
           0 \notin Published, ListUpdate
    PROVE  NumberCovered(resp'.flag, stored \cup resp'.ids, kind, advisories, count)
<1>1. CASE NewOnPage = {}
  <2>1. resp'.flag = 0
    BY <1>1 DEF ListUpdate, Response
  <2> QED
    BY <2>1, Zenon DEF NumberCovered
<1>2. CASE NewOnPage # {}
  <2>1. resp'.flag \in NewOnPage /\ resp'.ids = NewOnPage
    BY <1>2 DEF ListUpdate, Response
  <2>2. resp'.flag # 0 /\ \E i \in 1 .. count : resp'.flag = advisories[i]
    BY <2>1, Zenon DEF NewOnPage, Published
  <2>3. ASSUME NEW i \in 1 .. count, IsNewer(kind, advisories[i], FirstId)
        PROVE  advisories[i] \in stored \cup resp'.ids
    <3>1. \/ advisories[i] \in stored
          \/ IsNewer(kind, advisories[i], IF flag = 0 THEN FirstId ELSE flag)
      BY <2>3, Zenon DEF NumberCovered
    <3>2. advisories[i] \in Published
      BY Zenon DEF Published
    <3> QED
      BY <2>1, <3>1, <3>2, Zenon DEF NewOnPage, Newer, IsNewer
  <2> QED
    BY <2>2, <2>3, Zenon DEF NumberCovered
<1> QED
  BY <1>1, <1>2

\* A source that answers returns a flag that its answer and the database cover.
LEMMA AnswerIsCovered ==
    ASSUME FlagInv, CodeOrder, SourceAnswers
    PROVE  Covered(resp'.flag, stored \cup resp'.ids, kind, advisories, count)
<1>1. Covered(flag, stored, kind, advisories, count) /\ count \in Nat
  BY Zenon DEF FlagInv, FlagsCovered
<1>2. CASE ListUpdate
  <2>1. kind \in ListKinds
    BY <1>2, Zenon DEF ListUpdate
  <2>2. 0 \notin Published
    BY DEF FlagInv, Published
  <2> QED
    BY <1>1, <1>2, <2>1, <2>2, NumberIsCovered, Zenon DEF Covered
<1>3. CASE GitUpdate \/ DebianUpdate
  <2>1. kind \notin ListKinds
    BY <1>3 DEF GitUpdate, DebianUpdate, GitKinds, ListKinds
  <2> QED
    BY <1>1, <1>3, <2>1, CommitIsCovered, Zenon DEF Covered
<1> QED
  BY <1>2, <1>3, Zenon DEF SourceAnswers

\* The appenders change no vulnerability's name.
LEMMA SameNames == Shape /\ AppendersRun => DOMAIN batch' = DOMAIN batch
BY DEF Shape, AppendersRun, BuildCache, BuildCacheFails, OtherBuildCache, AppendTo, PurgeCache

\* A step that leaves the source's advisories alone keeps what FlagInv says of
\* them.
LEMMA FlagFrame ==
    ASSUME FlagInv, UNCHANGED <<kind, advisories, count>>,
           CodeOrder /\ FlagsCovered => FlagsCovered'
    PROVE  FlagInv'
<1>1. CodeOrder' => CodeOrder
  BY Zenon DEF CodeOrder, Newer
<1> QED
  BY <1>1, Zenon DEF FlagInv

\* Every step keeps the flags covered.
LEMMA NextFlag == Shape /\ FlagInv /\ [Next]_vars => FlagInv'
<1> SUFFICES ASSUME Shape, FlagInv, [Next]_vars PROVE FlagInv'
  OBVIOUS
<1>1. CASE UNCHANGED vars
  BY <1>1, FlagFrame, Zenon DEF vars, source, metadata, FlagsCovered
<1>2. CASE FetchAnswered
  <2>1. UNCHANGED <<kind, advisories, count, flag, stored>> /\ phase' = "metadata" /\ DOMAIN batch' = resp'.ids
    BY <1>2
       DEF FetchAnswered, SourceAnswers, GitUpdate, DebianUpdate, ListUpdate, StartMetadata
  <2>2. CodeOrder => Covered(resp'.flag, stored \cup resp'.ids, kind, advisories, count)
    BY <1>2, AnswerIsCovered, Zenon DEF FetchAnswered
  <2> QED
    BY <2>1, <2>2, FlagFrame, Zenon DEF FlagsCovered
<1>3. CASE FetchFails
  <2>1. UNCHANGED <<kind, advisories, count, flag, stored>> /\ phase' = "metadata" /\ resp'.err
    BY <1>3 DEF FetchFails, SourceFails, GitUpdateFails, DownloadFails, NoResponse
  <2> QED
    BY <2>1, FlagFrame, Zenon DEF FlagsCovered
<1>4. CASE AddMetadata
  <2>1. DOMAIN batch' = DOMAIN batch
    BY <1>4, SameNames, Zenon DEF AddMetadata
  <2> QED
    BY <1>4, <2>1, FlagFrame, Zenon DEF AddMetadata, source, FlagsCovered
<1>5. CASE StoreVulnerabilities
  <2>1. /\ phase = "metadata" /\ phase' = "flags" /\ stored' = stored \cup DOMAIN batch
        /\ UNCHANGED <<kind, advisories, count, flag, resp>>
    BY <1>5, Zenon DEF StoreVulnerabilities, source
  <2>2. ASSUME FlagsCovered PROVE Covered(flag, stored \cup DOMAIN batch, kind, advisories, count)
    <3>1. stored \subseteq stored \cup DOMAIN batch /\ count \in Nat
      BY Zenon DEF FlagInv
    <3> QED
      BY <2>2, <3>1, CoveredStays, Zenon DEF FlagsCovered
  <2> QED
    BY <2>1, <2>2, FlagFrame, Zenon DEF FlagsCovered
<1>6. CASE StoreFails \/ SaveFails
  BY <1>6, FlagFrame, Zenon DEF StoreFails, SaveFails, FlagsCovered
<1>7. CASE SaveFlags
  BY <1>7, FlagFrame, Zenon DEF SaveFlags, FlagsCovered
<1>8. CASE PublishAdvisory
  <2>1. /\ count < Len(advisories) /\ count' = count + 1
        /\ UNCHANGED <<kind, advisories, flag, resp, phase, stored, batch>>
    BY <1>8, Zenon DEF PublishAdvisory, Publish, metadata
  <2>2. CodeOrder' => CodeOrder
    BY <2>1, Zenon DEF CodeOrder, Newer
  <2>3. CodeOrder => FlagsCovered'
    BY <2>1, CoveredNext, Zenon DEF FlagInv, FlagsCovered
  <2>4. count' \in Nat /\ count' <= Len(advisories')
    BY <2>1 DEF FlagInv
  <2> QED
    BY <2>1, <2>2, <2>3, <2>4, Zenon DEF FlagInv
<1>9. CASE Restart
  BY <1>9, FlagFrame, Zenon DEF Restart, SourceRestart, FlagsCovered
<1> QED
  BY <1>1, <1>2, <1>3, <1>4, <1>5, <1>6, <1>7, <1>8, <1>9, Zenon DEF Next, Round

\* The invariant holds.
LEMMA FlagInvariant == Spec => []FlagInv
<1>1. Init => FlagInv
  <2> SUFFICES ASSUME Init PROVE FlagInv
    OBVIOUS
  <2>1. kind \in Kinds /\ advisories \in Seq(Nat \ {0}) /\ count = 0
    BY SourcesAssumption, Zenon DEF Init, SourceInit
  <2>2. count \in Nat /\ count <= Len(advisories)
    BY <2>1
  <2>3. NumberCovered(flag, stored, kind, advisories, count)
    BY DEF Init, SourceInit, NumberCovered
  <2>4. CommitCovered(flag, stored, kind, advisories, count)
    BY DEF Init, SourceInit, CommitCovered, HeldBy
  <2>5. phase = "idle"
    BY DEF Init
  <2> QED
    BY <2>1, <2>2, <2>3, <2>4, <2>5 DEF FlagInv, FlagsCovered, Covered
<1>2. AppendInv => Shape
  BY DEF AppendInv
<1> QED
  BY <1>1, <1>2, NextFlag, AppendInvariant, PTL DEF Spec

\* What a source is to return, in the terms of its own comparison.
LEMMA NothingLost ==
    ASSUME FlagInv, CodeOrder
    PROVE  { n \in Published : kind \in ListKinds => Newer(n, FirstId) }
                \subseteq stored \cup WouldReturn
<1>0. Covered(flag, stored, kind, advisories, count) /\ count \in Nat
  BY Zenon DEF FlagInv, FlagsCovered
<1>1. CASE kind \notin ListKinds
  <2>1. HeldBy(flag, advisories) \subseteq stored
    BY <1>0, <1>1, Zenon DEF Covered, CommitCovered
  <2> QED
    BY <1>0, <1>1, <2>1, PublishedIsHeld, Zenon DEF WouldReturn
<1>2. CASE kind \in ListKinds
  BY <1>0, <1>2, Zenon DEF Covered, NumberCovered, WouldReturn, NewOnPage, Newer, IsNewer, Published
<1> QED
  BY <1>1, <1>2

\* A source never skips an advisory that is newer, as its code compares, than
\* the first one it manages and than those that appeared before: whatever fails,
\* whenever Clair is restarted, and for Oracle and Red Hat alike.
THEOREM OrderedSkipNothing ==
    Spec => [](CodeOrder =>
                { n \in Published : kind \in ListKinds => Newer(n, FirstId) }
                    \subseteq stored \cup WouldReturn)
BY NothingLost, FlagInvariant, PTL

\* Debian, Ubuntu, Alpine and Red Hat skip nothing: for them the order of their
\* code is the order that their commits and numbers are meant to have.
THEOREM SkipNothing == Spec => [](kind # "oracle" => NothingSkipped)
<1>1. FlagInv => (kind # "oracle" => NothingSkipped)
  <2> SUFFICES ASSUME FlagInv, kind # "oracle", InOrder
               PROVE  Managed \subseteq stored \cup WouldReturn
    BY DEF NothingSkipped
  <2>1. \A n, m : After(n, m) <=> Newer(n, m)
    BY Zenon DEF After, Newer
  <2>2. CodeOrder
    BY <2>1, Zenon DEF InOrder, CodeOrder
  <2> QED
    BY <2>1, <2>2, NothingLost, Zenon DEF Managed
<1> QED
  BY <1>1, FlagInvariant, PTL

\* Ubuntu's advisories about unknown releases are returned by every round, for any
\* advisories in any order.
THEOREM UbuntuReadsAgain == Spec => []UnknownReleasesAgain
<1>1. FlagInv => UnknownReleasesAgain
  <2> SUFFICES ASSUME FlagInv, kind = "ubuntu"
               PROVE  Published \cap Unmapped \subseteq WouldReturn
    BY DEF UnknownReleasesAgain
  <2>1. kind \notin ListKinds
    BY DEF ListKinds
  <2>2. Covered(flag, stored, kind, advisories, count) /\ count \in Nat
    BY <2>1, Zenon DEF FlagInv, FlagsCovered, CodeOrder
  <2>3. HeldBy(flag, advisories) \cap Unmapped = {}
    BY <2>1, <2>2, Zenon DEF Covered, CommitCovered
  <2> QED
    BY <2>1, <2>2, <2>3, PublishedIsHeld, Zenon DEF WouldReturn
<1> QED
  BY <1>1, FlagInvariant, PTL
=============================================================================
