------------------------------ MODULE Sources ------------------------------
(***************************************************************************)
(* The vulnerability sources (ext/vulnsrc): what a source downloads, how   *)
(* it decides from its flag in the database whether anything is new, and   *)
(* what it keeps between two updates.  Ubuntu and Alpine keep a clone of a *)
(* git repository (pkg/gitutil); Debian downloads one document; Oracle and *)
(* Red Hat read a page that lists advisories and download the new ones.    *)
(*                                                                         *)
(* Advisories appear one after the other and are known by their number.    *)
(* A commit, or the hash of a document, is the number of advisories that   *)
(* it holds, plus one.  What an advisory says is the matter of Advisories. *)
(***************************************************************************)
EXTENDS Integers, Sequences, FiniteSets, SequencesExt

CONSTANTS Kinds,       \* the sources that may be enabled
          Ids,         \* for each source, sequences of advisories that may appear
          FirstId,     \* firstOracle5ELSA, firstRHEL5RHSA
          Unmapped     \* advisories about a release Clair does not know

GitKinds == {"ubuntu", "alpine"}
ListKinds == {"oracle", "rhel"}

ASSUME SourcesAssumption ==
    /\ Kinds \subseteq GitKinds \cup ListKinds \cup {"debian"}
    /\ FirstId \in Nat
    /\ \A k \in Kinds : \A list \in Ids[k] : list \in Seq(Nat \ {0})

VARIABLES kind,       \* the source that is enabled
          advisories, \* its advisories, in the order in which they appear
          count,      \* how many advisories have appeared
          flag,       \* the source's flag in the KeyValue table, 0 if none
          path,       \* whether repositoryLocalPath is set
          disk,       \* the commit in the directory, Absent or Broken
          resp        \* what Update returned

source == <<kind, advisories, count, flag, path, disk, resp>>

Absent == 0
Broken == -1
AllIds == UNION { UNION { Range(list) : list \in Ids[k] } : k \in Kinds }
Published == { advisories[i] : i \in 1 .. count }
Commit == count + 1
NoResponse == [err |-> TRUE, ids |-> {}, flag |-> 0]
Response(ids, value) == [err |-> FALSE, ids |-> ids, flag |-> value]

SourceTypeOK ==
    /\ kind \in Kinds
    /\ advisories \in Ids[kind]
    /\ count \in 0 .. Len(advisories)
    /\ flag \in {0} \cup Range(advisories) \cup 1 .. Len(advisories) + 1
    /\ path \in BOOLEAN
    /\ disk \in {Absent, Broken} \cup 1 .. Len(advisories) + 1
    /\ resp.ids \subseteq Range(advisories)

SourceInit ==
    /\ kind \in Kinds
    /\ advisories \in Ids[kind]
    /\ count = 0
    /\ flag = 0
    /\ path = FALSE
    /\ disk = Absent
    /\ resp = NoResponse

-----------------------------------------------------------------------------
\* Faulty variants of the definitions below, as a mistake in the code would
\* make them.
compareELSANumbers(left, right) == left - right
ubuntuFlagCommit(modified) == Commit

\* strconv.Itoa, as digits.
Itoa[n \in Nat] == IF n < 10 THEN <<n>> ELSE Append(Itoa[n \div 10], n % 10)

\* The first digit that differs decides, then the length.
compareELSA(left, right) ==
    LET l == Itoa[left]
        r == Itoa[right]
        i == SelectInSeq([j \in 1 .. Len(l) |-> IF j > Len(r) THEN 1 ELSE l[j] - r[j]],
                         LAMBDA d : d # 0)
    IN  IF left = right THEN 0
        ELSE IF i = 0 THEN Len(l) - Len(r)
        ELSE IF i > Len(r) THEN 1 ELSE l[i] - r[i]

largest(list) == CHOOSE n \in list : \A m \in list : m <= n

-----------------------------------------------------------------------------
(* CloneOrPull.                                                             *)

\* A clone into a new temporary directory.
CloneSucceeds ==
    /\ ~path
    /\ path' = TRUE
    /\ disk' = Commit

\* A failed clone removes the directory, if it can, but the caller keeps its
\* path: the next clone cannot start in a directory that is not there.
CloneFails ==
    /\ path' = TRUE
    /\ \/ ~path /\ disk' \in {Absent, Broken}
       \/ path /\ disk = Absent /\ UNCHANGED disk

TempDirFails ==
    /\ ~path
    /\ UNCHANGED <<path, disk>>

\* git pull, in a directory that holds a repository.
PullSucceeds ==
    /\ path /\ disk >= 1
    /\ disk' = Commit
    /\ UNCHANGED path

PullFails ==
    /\ path /\ disk # Absent
    /\ UNCHANGED <<path, disk>>

-----------------------------------------------------------------------------
(* Update, for each kind of source.                                         *)

\* An unknown release keeps Ubuntu's flag where it is, so that everything is
\* read again once Clair knows the release.
ubuntuFlag(modified) == IF modified \cap Unmapped # {} THEN flag ELSE Commit

GitUpdate ==
    /\ kind \in GitKinds
    /\ CloneSucceeds \/ PullSucceeds
    /\ resp' = CASE flag = Commit -> Response({}, Commit)
                 [] flag # Commit /\ kind = "ubuntu" -> Response(Published, ubuntuFlag(Published))
                 [] OTHER -> Response(Published, Commit)
    /\ UNCHANGED <<kind, advisories, count, flag>>

\* git fails, or the database or the parser does after it.
GitUpdateFails ==
    /\ kind \in GitKinds
    /\ CloneSucceeds \/ PullSucceeds \/ TempDirFails \/ CloneFails \/ PullFails
    /\ resp' = NoResponse
    /\ UNCHANGED <<kind, advisories, count, flag>>

DebianUpdate ==
    /\ kind = "debian"
    /\ resp' = IF flag = Commit THEN Response({}, flag) ELSE Response(Published, Commit)
    /\ UNCHANGED <<kind, advisories, count, flag, path, disk>>

\* The advisories on the page that are new, given the flag.
Newer(n, first) == IF kind = "oracle" THEN compareELSA(n, first) > 0 ELSE n > first
NewOnPage == { n \in Published : Newer(n, IF flag = 0 THEN FirstId ELSE flag) }

\* The flag is the largest number for Oracle and the last one on the page, in
\* whichever order the page lists them, for Red Hat.
ListUpdate ==
    /\ kind \in ListKinds
    /\ IF NewOnPage = {} THEN resp' = Response({}, 0)
       ELSE \E last \in NewOnPage :
                /\ kind = "oracle" => last = largest(NewOnPage)
                /\ resp' = Response(NewOnPage, last)
    /\ UNCHANGED <<kind, advisories, count, flag, path, disk>>

\* A download, a parser or the database fails; nothing is answered.
DownloadFails ==
    /\ kind \in ListKinds \cup {"debian"}
    /\ resp' = NoResponse
    /\ UNCHANGED <<kind, advisories, count, flag, path, disk>>

SourceAnswers == GitUpdate \/ DebianUpdate \/ ListUpdate
SourceFails == GitUpdateFails \/ DownloadFails

-----------------------------------------------------------------------------
\* Another advisory appears.
Publish ==
    /\ count < Len(advisories)
    /\ count' = count + 1
    /\ UNCHANGED <<kind, advisories, flag, path, disk, resp>>

\* Clair stops and starts again: the path of the clone is forgotten.
SourceRestart ==
    /\ path' = FALSE
    /\ disk' = Absent
    /\ resp' = NoResponse
    /\ UNCHANGED <<kind, advisories, count, flag>>

\* What a source would return from its flag, had it everything it needs.
WouldReturn ==
    IF kind \in ListKinds THEN NewOnPage
    ELSE IF flag = Commit THEN {} ELSE Published

\* A clone that failed and can never be made again by this process.
Stuck == path /\ disk \in {Absent, Broken}
=============================================================================
