---------------------------- MODULE Notifications ----------------------------
(***************************************************************************)
(* The vulnerability rows, the notifications made from their changes, and  *)
(* the pages of affected ancestries that a client of the API reads.        *)
(* updateVulnerabilities and createVulnerabilityNotifications (updater.go) *)
(* are one transaction each; UpsertAncestry takes an ancestry's new id     *)
(* when it inserts the row and shows it when it commits; every page is a   *)
(* request of its own.  One updater runs at a time: see Updater.  What is  *)
(* in the cache for a vulnerability is the matter of VulnCache: here the   *)
(* cache of a row is the features it names, until the row is deleted.      *)
(***************************************************************************)
EXTENDS Integers, Sequences, FiniteSetsExt

CONSTANTS Instances,   \* pairs: the vulnerabilities fetched, the images posted
          Contents,    \* severity and feature names that a source may state
          FeatureSets, \* the features that an image may have
          MaxRounds,   \* bound on updates, given the images
          MaxId,       \* bound on the ids of ancestries
          Limit        \* the limit of a page

VARIABLES tracked,    \* the vulnerabilities that sources know of
          images,     \* the images that are posted
          rows,       \* the Vulnerability table, by id
          notes,      \* the Vulnerability_Notification table
          changes,    \* what updateVulnerabilities returned
          upc,        \* where update is
          first,      \* firstUpdate
          round,      \* the time of the last update's transaction
          latest,     \* what was last fetched and stored of a vulnerability
          ancestry,   \* the Ancestry table and its features, by name
          upserting,  \* what a transaction that has not committed inserts
          nextId,     \* ancestry_id_seq
          reader      \* a client that reads a notification's pages

updates == <<rows, changes, upc, first, round, latest>>
upserts == <<ancestry, upserting, nextId>>
vars == <<tracked, images, updates, notes, upserts, reader>>

NoRow == 0
NoAncestry == [id |-> NoRow, features |-> {}]
NoContent == [severity |-> "none", affected |-> <<>>]
NoReader == [note |-> 0, side |-> "new", start |-> 0, pages |-> <<>>, kept |-> {}, done |-> FALSE]

ASSUME NotificationsAssumption ==
    /\ MaxId \in Nat
    /\ \A i \in Instances :
        IsFiniteSet(i[1]) /\ MaxRounds[i[2]] \in Nat
    /\ Limit \in Nat \ {0}
    /\ \A c \in Contents : c # NoContent /\ c.affected \in Seq(Range(c.affected))

Change == [name : tracked, old : {NoRow} \cup DOMAIN rows, new : DOMAIN rows]

TypeOK ==
    /\ IsFiniteSet(tracked) /\ IsFiniteSet(changes)
    /\ round \in Nat /\ nextId \in Nat
    /\ rows \in Seq([name : tracked, content : Contents, deleted : 0 .. round])
    /\ notes \in Seq([old : {NoRow} \cup DOMAIN rows, new : DOMAIN rows, change : Change])
    /\ changes \subseteq Change
    /\ upc \in {"idle", "notify"} /\ first \in BOOLEAN
    /\ latest \in [tracked -> Contents \cup {NoContent}]
    /\ {ancestry, upserting} \subseteq
          [images -> [id : 0 .. nextId - 1, features : FeatureSets \cup {{}}]]
    /\ reader \in [note : {0} \cup DOMAIN notes, side : {"old", "new"}, start : Nat,
                   pages : Seq(SUBSET (Nat \X images)), kept : SUBSET images, done : BOOLEAN]

Init ==
    /\ \E i \in Instances : tracked = i[1] /\ images = i[2]
    /\ rows = <<>>
    /\ notes = <<>>
    /\ changes = {}
    /\ upc = "idle"
    /\ first = TRUE
    /\ round = 0
    /\ latest = [v \in tracked |-> NoContent]
    /\ ancestry = [a \in images |-> NoAncestry]
    /\ upserting = [a \in images |-> NoAncestry]
    /\ nextId = 1
    /\ reader = NoReader

-----------------------------------------------------------------------------
\* Faulty variants of the definitions below, as a mistake in the code would
\* make them.
isVulnerabilityChangedLengths(a, b) ==
    ~(a.severity = b.severity /\ Len(a.affected) = Len(b.affected))
isVulnerabilityChangedAlways(a, b) == TRUE
findLatestDeletedFirst(v) ==
    LET deleted == { i \in DOMAIN rows : rows[i].name = v /\ rows[i].deleted # 0 }
    IN  CHOOSE i \in deleted : \A j \in deleted : rows[i].deleted <= rows[j].deleted
NextStartAgain(ids) == CHOOSE i \in ids : Cardinality({ j \in ids : j < i }) = Limit - 1
NextStartPast(ids) == 1 + CHOOSE i \in ids : Cardinality({ j \in ids : j < i }) = Limit

-----------------------------------------------------------------------------
(* Updates.                                                                 *)

\* Versions are not compared; a feature that is named twice always counts as
\* a change.
isVulnerabilityChanged(a, b) ==
    ~ /\ a.severity = b.severity
      /\ Len(a.affected) = Len(b.affected)
      /\ Range(b.affected) \subseteq Range(a.affected)
      /\ IsInjective(b.affected)

\* searchVulnerability, querySearchNotDeletedVulnerabilityID.
Live(v) == { i \in DOMAIN rows : rows[i].name = v /\ rows[i].deleted = 0 }
LiveRow(v) == IF Live(v) = {} THEN NoRow ELSE CHOOSE i \in Live(v) : TRUE

\* querySearchLastDeletedVulnerabilityID.
findLatestDeleted(v) ==
    LET deleted == { i \in DOMAIN rows : rows[i].name = v /\ rows[i].deleted # 0 }
    IN  CHOOSE i \in deleted : \A j \in deleted : rows[i].deleted >= rows[j].deleted

\* The vulnerabilities of a batch that are new, or are not what is stored.
findVulnerabilityChanges(batch) ==
    { v \in DOMAIN batch :
        LiveRow(v) # NoRow => isVulnerabilityChanged(rows[LiveRow(v)].content, batch[v]) }

\* The ancestries that searchNotificationVulnerableAncestry relates to a row.
Affected(table, images_, i) ==
    IF i = NoRow \/ table[i].deleted # 0 THEN {}
    ELSE { a \in DOMAIN images_ : images_[a].features \cap Range(table[i].content.affected) # {} }

\* The row whose ancestries the client reads, and those that it affected all
\* the time since the first page.
ReadRow == IF reader.note = 0 THEN NoRow ELSE notes[reader.note][reader.side]
StillAffected(table, images_) ==
    IF reader.done THEN reader
    ELSE [reader EXCEPT !.kept = @ \cap Affected(table, images_, ReadRow)]

\* The orders in which a map may be walked.
Orders(S) == Bijection(1 .. Cardinality(S), S)

\* updateVulnerabilities: rows that changed are marked as deleted, then the new
\* ones are inserted, in the order in which a map is walked.
UpdateVulnerabilities(batch) ==
    /\ upc = "idle" /\ round < MaxRounds[images]
    /\ \E order \in Orders(findVulnerabilityChanges(batch)) :
        LET marked == [i \in DOMAIN rows |->
                IF rows[i].name \in Range(order) /\ rows[i].deleted = 0
                  THEN [rows[i] EXCEPT !.deleted = round + 1] ELSE rows[i]]
        IN  /\ rows' = marked \o [i \in DOMAIN order |->
                    [name |-> order[i], content |-> batch[order[i]], deleted |-> 0]]
            /\ changes' = { [name |-> order[i], old |-> LiveRow(order[i]), new |-> Len(rows) + i] :
                                i \in DOMAIN order }
    /\ latest' = [v \in tracked |-> IF v \in DOMAIN batch THEN batch[v] ELSE latest[v]]
    /\ round' = round + 1
    /\ upc' = "notify"
    /\ reader' = StillAffected(rows', ancestry)
    /\ UNCHANGED <<tracked, images, notes, first, upserts>>

\* InsertVulnerabilityNotifications looks the rows up by the names of the
\* changes.  The variable that holds the old id is not reset between two
\* notifications.
Inserted(order) ==
    LET assigned(i) == { j \in 1 .. i : order[j].old # NoRow }
        old(i) == IF assigned(i) = {} THEN NoRow
                  ELSE findLatestDeleted(order[Max(assigned(i))].name)
    IN  [i \in DOMAIN order |->
            [old |-> old(i), new |-> LiveRow(order[i].name), change |-> order[i]]]

EndUpdate ==
    /\ upc = "notify"
    /\ upc' = "idle"
    /\ changes' = {}
    /\ UNCHANGED <<tracked, images, rows, round, latest, upserts, reader>>

\* createVulnerabilityNotifications, and the end of update.
CreateNotifications ==
    /\ EndUpdate
    /\ IF first THEN UNCHANGED notes
       ELSE \E order \in Orders(changes) : notes' = notes \o Inserted(order)
    /\ first' = FALSE

\* It fails, or the process dies before it: the changes are forgotten.
UpdateFailed ==
    /\ EndUpdate
    /\ UNCHANGED <<notes, first>>

-----------------------------------------------------------------------------
(* Ancestries.                                                              *)

\* UpsertAncestry: the row is deleted and a new one takes the next id.
UpsertAncestry(a, fs) ==
    /\ upserting[a] = NoAncestry /\ nextId <= MaxId
    /\ upserting' = [upserting EXCEPT ![a] = [id |-> nextId, features |-> fs]]
    /\ nextId' = nextId + 1
    /\ UNCHANGED <<tracked, images, updates, notes, ancestry, reader>>

CommitUpsert(a) ==
    /\ upserting[a] # NoAncestry
    /\ ancestry' = [ancestry EXCEPT ![a] = upserting[a]]
    /\ upserting' = [upserting EXCEPT ![a] = NoAncestry]
    /\ reader' = StillAffected(rows, ancestry')
    /\ UNCHANGED <<tracked, images, updates, notes, nextId>>

RollbackUpsert(a) ==
    /\ upserting[a] # NoAncestry
    /\ upserting' = [upserting EXCEPT ![a] = NoAncestry]
    /\ UNCHANGED <<tracked, images, updates, notes, ancestry, nextId, reader>>

-----------------------------------------------------------------------------
(* GetNotification, page after page, of the old or the new vulnerability.   *)

\* Where ORDER BY puts an id, from 0.
Place(ids, i) == Cardinality({ j \in ids : j < i })

\* The token of the next page holds the first id that this one leaves out.
NextStart(ids) == CHOOSE i \in ids : Place(ids, i) = Limit

\* findPagedVulnerableAncestries, from the id that the token holds.
findPagedVulnerableAncestries(row, start) ==
    LET ids == { i \in { ancestry[a].id : a \in Affected(rows, ancestry, row) } : i >= start }
        end == Cardinality(ids) <= Limit
    IN  [affected |-> { a \in images : ancestry[a].id \in ids /\ Place(ids, ancestry[a].id) < Limit },
         end |-> end,
         next |-> IF end THEN 0 ELSE NextStart(ids)]

ReadFirstPage(n, side) ==
    /\ reader = NoReader
    /\ notes[n][side] # NoRow
    /\ \E page \in {findPagedVulnerableAncestries(notes[n][side], 0)} :
        reader' = [note |-> n, side |-> side, start |-> page.next, done |-> page.end,
                   pages |-> <<{ <<ancestry[a].id, a>> : a \in page.affected }>>,
                   kept |-> Affected(rows, ancestry, notes[n][side])]
    /\ UNCHANGED <<tracked, images, updates, notes, upserts>>

ReadNextPage ==
    /\ reader.note # 0 /\ ~reader.done
    /\ \E page \in {findPagedVulnerableAncestries(ReadRow, reader.start)} :
        reader' = [reader EXCEPT
            !.start = page.next, !.done = page.end,
            !.pages = Append(@, { <<ancestry[a].id, a>> : a \in page.affected })]
    /\ UNCHANGED <<tracked, images, updates, notes, upserts>>

\* The client has read all pages; or its token has expired or was made with the
\* key of another process, and it has to begin again.
EndReading ==
    /\ reader.note # 0
    /\ reader' = NoReader
    /\ UNCHANGED <<tracked, images, updates, notes, upserts>>

-----------------------------------------------------------------------------
Next ==
    \/ \E known \in SUBSET tracked : \E batch \in [known -> Contents] :
            known # {} /\ UpdateVulnerabilities(batch)
    \/ CreateNotifications \/ UpdateFailed
    \/ \E a \in images :
        \/ \E fs \in FeatureSets : UpsertAncestry(a, fs)
        \/ CommitUpsert(a) \/ RollbackUpsert(a)
    \/ \E n \in DOMAIN notes, side \in {"old", "new"} : ReadFirstPage(n, side)
    \/ ReadNextPage
    \/ EndReading

Spec == Init /\ [][Next]_vars

-----------------------------------------------------------------------------
\* A row replaced the one before it only if it says something else, or one of
\* them names a feature twice.
ReplacedByAnother ==
    \A i, j \in DOMAIN rows :
        /\ i < j /\ rows[i].name = rows[j].name
        /\ \A k \in i + 1 .. j - 1 : rows[k].name # rows[i].name
        => \/ rows[i].content.severity # rows[j].content.severity
           \/ Range(rows[i].content.affected) # Range(rows[j].content.affected)
           \/ ~IsInjective(rows[i].content.affected) \/ ~IsInjective(rows[j].content.affected)

\* A vulnerability that was ever stored has one row that is not deleted, whose
\* severity and feature names are those that were fetched last, whatever was
\* left alone by findVulnerabilityChanges (updateVulnerabilities "upserts").  And
\* sources that return everything again replace nothing: they make no
\* notifications.
LatestStored ==
    /\ \A v \in tracked : latest[v] # NoContent =>
        /\ Cardinality(Live(v)) = 1
        /\ rows[LiveRow(v)].content.severity = latest[v].severity
        /\ Range(rows[LiveRow(v)].content.affected) = Range(latest[v].affected)
    /\ ReplacedByAnother

\* A notification refers to the row that its change inserted and, if the change
\* replaced a row, to that row: the ids that are looked up by name, in a later
\* transaction, are the right ones (InsertVulnerabilityNotifications).  Of a
\* change that replaced nothing it says nothing: see OldIsPrevious.
NotifiedRows ==
    \A n \in DOMAIN notes :
        /\ notes[n].new = notes[n].change.new
        /\ notes[n].change.old # NoRow => notes[n].old = notes[n].change.old

\* What a notification gives as old is "the previous vulnerability"
\* (clair.proto): the row that the notified change replaced, and nothing when
\* the vulnerability is new.  It is violated: InsertVulnerabilityNotifications
\* leaves oldVulnID as the notification before it in the list has set it.
OldIsPrevious ==
    \A n \in DOMAIN notes : notes[n].old = notes[n].change.old

\* "Every indexes in the map should be larger than previous page", and the
\* pairs of index and name "unique in a stream" (models.go), although images
\* are posted again and vulnerabilities change between two pages.
PagesIncrease ==
    \A p, q \in DOMAIN reader.pages : p < q =>
        \A x \in reader.pages[p], y \in reader.pages[q] : x[1] < y[1]

\* A client that has read all the pages has seen every image that was affected
\* from the first page to the last, although its index may have changed in
\* between: a new index is never one that the client has already passed.
NothingMissed ==
    reader.done => \A a \in reader.kept : \E p \in DOMAIN reader.pages :
        \E x \in reader.pages[p] : x[2] = a
=============================================================================
