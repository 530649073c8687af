------------------------------ MODULE Metadata ------------------------------
(***************************************************************************)
(* addMetadata (updater.go): one goroutine for each registered appender    *)
(* builds its cache, then appends what it knows to each fetched            *)
(* vulnerability, under the vulnerability's mutex.  The appender of the    *)
(* repository is NVD (ext/vulnmdsrc/nvd), which keeps its feeds in a       *)
(* directory; any other one is external.                                   *)
(***************************************************************************)
EXTENDS Integers, Sequences, FiniteSets, SequencesExt

CONSTANTS Others,       \* registered appenders other than NVD
          Feeds,        \* NVD's feeds, in the order of their years
          FeedOf,       \* the feed that names a vulnerability
          Rated         \* vulnerabilities that come with a severity

NVD == "NVD"

ASSUME MetadataAssumption ==
    /\ NVD \notin Others
    /\ \A v \in DOMAIN FeedOf : FeedOf[v] \in DOMAIN Feeds
    /\ Rated \subseteq DOMAIN FeedOf

VARIABLES appenders,  \* the registered appenders
          batch,      \* severity and metadata of the fetched vulnerabilities
          at,         \* where each appender's goroutine is
          todo,       \* the vulnerabilities it has not visited yet
          hashes,     \* feeds whose hash is in dataFeedHashes
          files,      \* a feed's file is missing, torn or whole
          cache       \* the feeds in appender.metadata

nvd == <<hashes, files, cache>>
metadata == <<appenders, batch, at, todo, nvd>>

UnknownSeverity == "unknown"
NoBatch == <<>>

MetadataTypeOK ==
    /\ appenders \subseteq Others \cup {NVD}
    /\ DOMAIN batch \subseteq DOMAIN FeedOf
    /\ \A v \in DOMAIN batch : batch[v].metadata \subseteq appenders
    /\ at \in [appenders -> {"idle", "build", "append", "done", "failed"}]
    /\ todo \in [appenders -> SUBSET DOMAIN FeedOf]
    /\ hashes \subseteq DOMAIN Feeds
    /\ files \in [DOMAIN Feeds -> {"missing", "torn", "whole"}]
    /\ cache \subseteq hashes
    /\ NVD \in appenders /\ cache # {} => at[NVD] = "append"

MetadataInit ==
    /\ batch = NoBatch
    /\ at = [a \in appenders |-> "idle"]
    /\ todo = [a \in appenders |-> {}]
    /\ hashes = {}
    /\ files = [f \in DOMAIN Feeds |-> "missing"]
    /\ cache = {}

-----------------------------------------------------------------------------
\* Faulty variants of the definitions below, as a mistake in the code would
\* make them.
appendFuncNewMap(v, key, severity) ==
    [v EXCEPT !.metadata = {key},
              !.severity = IF @ = UnknownSeverity THEN severity ELSE @]
parseFeedsAnything(known, onDisk) == TRUE

\* lockableVulnerability.appendFunc, one appender at a time.
appendFunc(v, key, severity) ==
    [v EXCEPT !.metadata = @ \cup {key},
              !.severity = IF @ = UnknownSeverity THEN severity ELSE @]

\* Goroutines are started for the fetched vulnerabilities, if there are any.
StartMetadata(vulnerabilities) ==
    /\ batch' = [v \in vulnerabilities |->
                    [metadata |-> {}, severity |-> IF v \in Rated THEN "rated" ELSE UnknownSeverity]]
    /\ at' = [a \in appenders |-> IF vulnerabilities = {} THEN "done" ELSE "build"]
    /\ todo' = [a \in appenders |-> vulnerabilities]
    /\ UNCHANGED <<appenders, nvd>>

\* getDataFeeds: a feed is downloaded if its hash was ever obtained and it has
\* no file, whatever the hash is.  Downloads stop at the first one that fails,
\* which may leave a part of the file behind.
NeedsDownload(known, f) == f \in known /\ files[f] = "missing"
Downloaded(known, before) ==
    [f \in DOMAIN Feeds |-> IF NeedsDownload(known, f) /\ f < before THEN "whole" ELSE files[f]]

\* parseDataFeed reads the file of every known feed, and fails on a torn one.
parseFeeds(known, onDisk) == \A f \in known : onDisk[f] = "whole"

\* BuildCache: the hashes that can be obtained are obtained, then the feeds are
\* downloaded and parsed.
BuildCache ==
    /\ NVD \in appenders /\ at[NVD] = "build"
    /\ \E obtained \in SUBSET DOMAIN Feeds :
        /\ hashes' = hashes \cup obtained
        /\ files' = Downloaded(hashes', Len(Feeds) + 1)
        /\ parseFeeds(hashes', files')
        /\ cache' = hashes'
    /\ at' = [at EXCEPT ![NVD] = "append"]
    /\ UNCHANGED <<appenders, batch, todo>>

\* The directory cannot be made, a download fails, or a file cannot be parsed:
\* the goroutine returns.  What is then in the cache is never read.
BuildCacheFails ==
    /\ NVD \in appenders /\ at[NVD] = "build"
    /\ \/ hashes = {} /\ UNCHANGED <<hashes, files>>
       \/ \E obtained \in SUBSET DOMAIN Feeds, f \in DOMAIN Feeds, left \in {"missing", "torn"} :
            /\ hashes' = hashes \cup obtained
            /\ NeedsDownload(hashes', f)
            /\ files' = [Downloaded(hashes', f) EXCEPT ![f] = left]
       \/ \E obtained \in SUBSET DOMAIN Feeds :
            /\ hashes' = hashes \cup obtained
            /\ files' = Downloaded(hashes', Len(Feeds) + 1)
            /\ ~parseFeeds(hashes', files')
    /\ at' = [at EXCEPT ![NVD] = "failed"]
    /\ UNCHANGED <<appenders, batch, todo, cache>>

\* BuildCache of an appender that is not part of the repository.
OtherBuildCache(a) ==
    /\ a \in appenders \cap Others /\ at[a] = "build"
    /\ at' = [at EXCEPT ![a] = "append"]
    /\ UNCHANGED <<appenders, batch, todo, nvd>>

Knows(a, v) == a = NVD => FeedOf[v] \in cache

\* Append, for the next vulnerability of the list.
AppendTo(a, v) ==
    /\ a \in appenders /\ at[a] = "append" /\ v \in todo[a]
    /\ \A w \in todo[a] : v <= w
    /\ batch' = IF Knows(a, v) THEN [batch EXCEPT ![v] = appendFunc(@, a, a)] ELSE batch
    /\ todo' = [todo EXCEPT ![a] = @ \ {v}]
    /\ UNCHANGED <<appenders, at, nvd>>

\* PurgeCache, and the goroutine is done.
PurgeCache(a) ==
    /\ a \in appenders /\ at[a] = "append" /\ todo[a] = {}
    /\ at' = [at EXCEPT ![a] = "done"]
    /\ cache' = IF a = NVD THEN {} ELSE cache
    /\ UNCHANGED <<appenders, batch, todo, hashes, files>>

AppendersRun ==
    \/ BuildCache
    \/ BuildCacheFails
    \/ \E a \in appenders :
        \/ OtherBuildCache(a)
        \/ \E v \in todo[a] : AppendTo(a, v)
        \/ PurgeCache(a)

\* wg.Wait returns.
MetadataDone == \A a \in appenders : at[a] \in {"done", "failed"}

\* The update is over: its vulnerabilities are forgotten.
MetadataEnd ==
    /\ batch' = NoBatch
    /\ at' = [a \in appenders |-> "idle"]
    /\ todo' = [a \in appenders |-> {}]
    /\ UNCHANGED <<appenders, nvd>>

\* Clair starts again: the directory of the feeds is a new one.
MetadataRestart ==
    /\ batch' = NoBatch
    /\ at' = [a \in appenders |-> "idle"]
    /\ todo' = [a \in appenders |-> {}]
    /\ hashes' = {}
    /\ files' = [f \in DOMAIN Feeds |-> "missing"]
    /\ cache' = {}
    /\ UNCHANGED appenders
=============================================================================
