------------------------------- MODULE Fetch -------------------------------
(***************************************************************************)
(* The rounds of the updater, seen from its sources: update (updater.go)   *)
(* fetches, adds metadata, stores the vulnerabilities and only then saves  *)
(* the source's flag.  Any of these may fail, Clair may be restarted       *)
(* between two of them, and advisories keep appearing.  Who may run a      *)
(* round, and the lock that decides it, are the matter of Updater.         *)
(***************************************************************************)
EXTENDS Sources, Metadata

CONSTANTS Registered,    \* the sets of appenders that may be registered
          MaxRestarts    \* bound on restarts

ASSUME FetchAssumption ==
    /\ MaxRestarts \in Nat
    /\ AllIds \subseteq DOMAIN FeedOf

VARIABLES phase,      \* where the round is
          stored,     \* the advisories in the database
          restarts    \* restarts so far

vars == <<source, metadata, phase, stored, restarts>>

TypeOK ==
    /\ SourceTypeOK
    /\ MetadataTypeOK
    /\ phase = "idle" => batch = NoBatch /\ resp = NoResponse
    /\ phase \in {"idle", "metadata", "flags"}
    /\ stored \subseteq Published
    /\ restarts \in 0 .. MaxRestarts

\* The appenders matter to the vulnerabilities of any source alike, and are
\* followed with one.
Init ==
    /\ SourceInit
    /\ appenders \in Registered
    /\ appenders # {} => kind = "debian"
    /\ MetadataInit
    /\ phase = "idle"
    /\ stored = {}
    /\ restarts = 0

-----------------------------------------------------------------------------
\* Faulty variants of the definitions below, as a mistake in the code would
\* make them.
StoreVulnerabilitiesIfAllAppended ==
    /\ phase = "metadata" /\ \A a \in appenders : at[a] = "done"
    /\ stored' = stored \cup DOMAIN batch
    /\ phase' = "flags"
    /\ UNCHANGED <<source, metadata, restarts>>

\* fetch, up to addMetadata.
FetchAnswered ==
    /\ phase = "idle"
    /\ SourceAnswers
    /\ StartMetadata(resp'.ids)
    /\ phase' = "metadata"
    /\ UNCHANGED <<stored, restarts>>

FetchFails ==
    /\ phase = "idle"
    /\ SourceFails
    /\ StartMetadata({})
    /\ phase' = "metadata"
    /\ UNCHANGED <<stored, restarts>>

AddMetadata ==
    /\ phase = "metadata"
    /\ AppendersRun
    /\ UNCHANGED <<source, phase, stored, restarts>>

\* The namespaces and the vulnerabilities are stored.
StoreVulnerabilities ==
    /\ phase = "metadata" /\ MetadataDone
    /\ stored' = stored \cup DOMAIN batch
    /\ phase' = "flags"
    /\ UNCHANGED <<source, metadata, restarts>>

\* Storing them fails, and update returns.
StoreFails ==
    /\ phase = "metadata" /\ MetadataDone
    /\ MetadataEnd
    /\ resp' = NoResponse
    /\ phase' = "idle"
    /\ UNCHANGED <<kind, advisories, count, flag, path, disk, stored, restarts>>

\* updateUpdaterFlags; an empty flag is not saved.
SaveFlags ==
    /\ phase = "flags"
    /\ flag' = IF ~resp.err /\ resp.flag # 0 THEN resp.flag ELSE flag
    /\ MetadataEnd
    /\ resp' = NoResponse
    /\ phase' = "idle"
    /\ UNCHANGED <<kind, advisories, count, path, disk, stored, restarts>>

\* The notifications or the flags cannot be written, and update returns.
SaveFails ==
    /\ phase = "flags"
    /\ MetadataEnd
    /\ resp' = NoResponse
    /\ phase' = "idle"
    /\ UNCHANGED <<kind, advisories, count, flag, path, disk, stored, restarts>>

PublishAdvisory ==
    /\ Publish
    /\ UNCHANGED <<metadata, phase, stored, restarts>>

Restart ==
    /\ restarts < MaxRestarts
    /\ restarts' = restarts + 1
    /\ SourceRestart
    /\ MetadataRestart
    /\ phase' = "idle"
    /\ UNCHANGED stored

Round ==
    \/ FetchAnswered \/ FetchFails
    \/ AddMetadata
    \/ StoreVulnerabilities \/ StoreFails
    \/ SaveFlags \/ SaveFails

Next == Round \/ PublishAdvisory \/ Restart

\* Rounds go on, and what can succeed is not refused for ever by the network,
\* by the disk or by the database.
Fairness ==
    /\ WF_vars(Round)
    /\ SF_vars(FetchAnswered)
    /\ SF_vars(StoreVulnerabilities /\ ~resp.err)

Spec == Init /\ [][Next]_vars /\ Fairness

-----------------------------------------------------------------------------
\* Whether n comes after m in the order that a source's numbers are meant to
\* have: that of their digits for Oracle (oracle_test.go, TestELSAComparison),
\* that of integers for Red Hat.
After(n, m) ==
    IF kind # "oracle" THEN n > m
    ELSE LET l == Itoa[n]
             r == Itoa[m]
         IN  \/ IsStrictPrefix(r, l)
             \/ \E i \in DOMAIN l \cap DOMAIN r :
                    l[i] > r[i] /\ SubSeq(l, 1, i - 1) = SubSeq(r, 1, i - 1)

\* The advisories that a source is to manage; its pages list them in order.
Managed == { n \in Published : kind \in ListKinds => After(n, FirstId) }
InOrder ==
    kind \in ListKinds => \A j \in DOMAIN advisories : \A i \in 1 .. j - 1 :
        After(advisories[j], FirstId) => After(advisories[j], advisories[i])

\* Whatever fails, and whenever: an advisory that has appeared is stored, or
\* the source would return it again from the flag that is saved.  The flag
\* never runs ahead of the database (update saves it last).  Oracle's and Red
\* Hat's flags are numbers, and this is for numbers that appear in order: one
\* that appears after a larger one has been stored is never downloaded.
NothingSkipped == InOrder => Managed \subseteq stored \cup WouldReturn

\* Ubuntu's advisories about a release that Clair does not know are returned by
\* every round, even though they are stored, so that the release is picked up
\* when Clair learns it: no sequence of rounds makes their commit "considered
\* as managed" (ubuntu.go, Update).
UnknownReleasesAgain ==
    kind = "ubuntu" => Published \cap Unmapped \subseteq WouldReturn

\* Appenders that run at the same time lose nothing of each other: once an
\* appender has been past a vulnerability its metadata is there, unless it has
\* none; a severity given by the source stays, and an unknown one becomes that
\* of one of the appenders (addMetadata, appendFunc).
MetadataKept ==
    \A v \in DOMAIN batch :
        /\ \A a \in appenders :
            /\ at[a] \in {"append", "done"} /\ v \notin todo[a]
            /\ a = NVD => FeedOf[v] \in hashes
            => a \in batch[v].metadata
        /\ batch[v].severity \in
            CASE v \in Rated -> {"rated"}
              [] v \notin Rated /\ batch[v].metadata = {} -> {UnknownSeverity}
              [] OTHER -> batch[v].metadata

\* NVD's metadata is only ever taken from feeds that were downloaded as a
\* whole: a download that broke off is refused in every later round, until
\* Clair is restarted (BuildCache, getDataFeeds).
WholeFeeds ==
    \A v \in DOMAIN batch : NVD \in batch[v].metadata => files[FeedOf[v]] = "whole"

\* Every advisory that appears in order ends up in the database, in spite of
\* failures and restarts, unless the first clone of a git repository failed: CloneOrPull removes the
\* directory, its caller keeps the path, and no clone succeeds in this process
\* any more (gitutil.go).  Without Stuck the property does not hold.
Delivered ==
    \A i \in AllIds : (InOrder /\ i \in Managed) ~> (i \in stored \/ Stuck)
=============================================================================
