------------------------ MODULE NotificationsProofs ------------------------
(***************************************************************************)
(* Proofs about Notifications, for any vulnerabilities, images, contents   *)
(* and limit of a page.                                                    *)
(***************************************************************************)
EXTENDS Notifications, TLAPS, FiniteSetTheorems

-----------------------------------------------------------------------------
(* The inductive invariants.                                                *)

\* Two contents that findVulnerabilityChanges has no reason to tell apart.
SaysTheSame(a, b) == a.severity = b.severity /\ Range(a.affected) = Range(b.affected)

\* The row of a vulnerability that is not deleted is its last one, and there is
\* one if the vulnerability was ever stored; it says what was fetched last.
RowsInv ==
    /\ \A i, j \in DOMAIN rows :
        rows[i].name = rows[j].name /\ rows[i].deleted = 0 => j <= i
    /\ \A i \in DOMAIN rows : Live(rows[i].name) # {}
    /\ \A v \in tracked : latest[v] # NoContent => Live(v) # {}
    /\ \A i \in DOMAIN rows :
        rows[i].deleted = 0 => SaysTheSame(rows[i].content, latest[rows[i].name])
    /\ ReplacedByAnother

\* While update has changes to notify, each of them has inserted the row that is
\* not deleted and, if it has an old row, is the last to have deleted one.
ChangesInv ==
    \A c \in changes :
        /\ rows[c.new].name = c.name /\ rows[c.new].deleted = 0
        /\ c.old # NoRow =>
            /\ rows[c.old].name = c.name /\ rows[c.old].deleted = round /\ round # 0
            /\ \A i \in DOMAIN rows :
                rows[i].name = c.name /\ i # c.old => rows[i].deleted < round

\* What the pages that were read list, and up to where.
Listed(pages, a) == \E p \in DOMAIN pages : \E x \in pages[p] : x[2] = a
Below(pages, i) == \A p \in DOMAIN pages : \A x \in pages[p] : x[1] < i
Increase(pages) ==
    \A p, q \in DOMAIN pages : p < q => \A x \in pages[p], y \in pages[q] : x[1] < y[1]

\* The next page starts after all that is listed, and before the images that
\* are kept and not listed: a new id of an image is above its old one.
ReaderInv ==
    /\ \A a \in images : upserting[a] # NoAncestry => ancestry[a].id < upserting[a].id
    /\ reader.note = 0 => reader = NoReader
    /\ reader.note # 0 /\ ~ reader.done =>
        /\ Below(reader.pages, reader.start)
        /\ reader.kept \subseteq Affected(rows, ancestry, ReadRow)
        /\ \A a \in reader.kept : Listed(reader.pages, a) \/ reader.start <= ancestry[a].id
    /\ PagesIncrease
    /\ NothingMissed

\* The parts of the type invariant.
TypeUpdates ==
    /\ IsFiniteSet(tracked) /\ IsFiniteSet(changes) /\ round \in Nat
    /\ rows \in Seq([name : tracked, content : Contents, deleted : 0 .. round])
    /\ notes \in Seq([old : {NoRow} \cup DOMAIN rows, new : DOMAIN rows, change : Change])
    /\ changes \subseteq Change
    /\ upc \in {"idle", "notify"} /\ first \in BOOLEAN
    /\ latest \in [tracked -> Contents \cup {NoContent}]

TypeUpserts ==
    /\ nextId \in Nat
    /\ {ancestry, upserting} \subseteq
          [images -> [id : 0 .. nextId - 1, features : FeatureSets \cup {{}}]]

TypeReader ==
    reader \in [note : {0} \cup DOMAIN notes, side : {"old", "new"}, start : Nat,
                pages : Seq(SUBSET (Nat \X images)), kept : SUBSET images, done : BOOLEAN]

Inv == TypeOK /\ RowsInv /\ ChangesInv /\ NotifiedRows /\ ReaderInv

-----------------------------------------------------------------------------
(* Pages.  Query searchNotificationVulnerableAncestry orders the ids; what  *)
(* is used of their order is that a page holds the first Limit of them and  *)
(* that its token holds the next one.                                       *)

\* A set of numbers that is not empty has a least one.
LEMMA LeastNumber ==
    ASSUME NEW T \in SUBSET Nat, T # {}
    PROVE  \E n \in T : \A m \in T : n <= m
<1>1. PICK n \in T : \A m \in T : ~ (<<m, n>> \in OpToRel(<, Nat))
  BY NatLessThanWellFounded, WFMin, Zenon
<1>2. \A m \in T : ~ (m < n)
  BY <1>1, Zenon DEF OpToRel
<1> QED
  BY <1>2

\* A finite set of numbers that is not empty has a greatest one.
LEMMA GreatestNumber ==
    ASSUME NEW T \in SUBSET Nat, T # {}, NEW b \in Nat, \A m \in T : m <= b
    PROVE  \E n \in T : \A m \in T : m <= n
<1> DEFINE bounds == {k \in Nat : \A m \in T : m <= k}
<1>1. PICK n \in bounds : \A k \in bounds : n <= k
  BY LeastNumber, Zenon
<1>2. CASE n \in T
  BY <1>1, <1>2
<1>3. CASE n \notin T
  <2>1. PICK m \in T : TRUE
    BY Zenon
  <2>2. n - 1 \in Nat /\ \A k \in T : k <= n - 1
    BY <1>1, <1>3, <2>1
  <2>3. n - 1 \in bounds
    BY <2>2, Zenon
  <2>4. n <= n - 1 /\ n \in Nat
    BY <1>1, <2>3, Zenon
  <2> QED
    BY <2>4
<1> QED
  BY <1>2, <1>3

\* The ids below one of them are fewer than those below a greater one, and
\* than all of them.
LEMMA PlaceGrows ==
    ASSUME NEW ids \in SUBSET Nat, IsFiniteSet(ids), NEW i \in ids
    PROVE  /\ Place(ids, i) \in Nat /\ Place(ids, i) < Cardinality(ids)
           /\ \A j \in ids : i < j => Place(ids, i) < Place(ids, j)
<1> DEFINE below(k) == {j \in ids : j < k}
<1>1. \A k \in ids : /\ IsFiniteSet(below(k)) /\ Cardinality(below(k)) \in Nat
                     /\ Cardinality(ids) \in Nat
  BY FS_Subset, FS_CardinalityType
<1>2. Cardinality(below(i)) < Cardinality(ids)
  <2>1. below(i) \in SUBSET ids /\ i \notin below(i)
    OBVIOUS
  <2> HIDE DEF below
  <2>2. /\ Cardinality(below(i)) <= Cardinality(ids)
        /\ Cardinality(below(i)) # Cardinality(ids)
    BY <2>1, FS_Subset, Zenon
  <2> QED
    BY <1>1, <2>2
<1>3. ASSUME NEW j \in ids, i < j PROVE Cardinality(below(i)) < Cardinality(below(j))
  <2>1. ~ (i < i) /\ \A k \in ids : k < i => k < j
    BY <1>3
  <2>2. below(i) \in SUBSET below(j) /\ i \notin below(i) /\ i \in below(j)
    BY <1>3, <2>1, Zenon
  <2> HIDE DEF below
  <2>3. /\ Cardinality(below(i)) <= Cardinality(below(j))
        /\ Cardinality(below(i)) # Cardinality(below(j))
    BY <1>1, <2>2, FS_Subset, Zenon
  <2> QED
    BY <1>1, <2>3
<1> QED
  BY <1>1, <1>2, <1>3, Zenon DEF Place

\* The place of the greatest of the first ids.
LEMMA PlaceOfLast ==
    ASSUME NEW ids \in SUBSET Nat, NEW S \in SUBSET ids, IsFiniteSet(S), NEW i \in S,
           \A j \in S : j <= i, \A j \in ids : j < i => j \in S
    PROVE  Place(ids, i) = Cardinality(S) - 1
<1>1. \A j \in S : j # i <=> j < i
  OBVIOUS
<1>2. {j \in ids : j < i} = S \ {i}
  BY <1>1, Zenon
<1>3. Cardinality(S \ {i}) = Cardinality(S) - 1
  BY FS_RemoveElement, Zenon
<1> QED
  BY <1>2, <1>3, Zenon DEF Place

\* If there are more ids than a page holds, one of them is the next.
LEMMA SomeNext ==
    ASSUME NEW ids \in SUBSET Nat, NEW b \in Nat, \A i \in ids : i <= b,
           Limit < Cardinality(ids)
    PROVE  \E i \in ids : Place(ids, i) = Limit
<1> DEFINE after == {i \in ids : Limit <= Place(ids, i)}
           below(k) == {j \in ids : j < k}
<1>0. Limit \in Nat \ {0}
  BY NotificationsAssumption
<1>1. ASSUME NEW S \in SUBSET ids
      PROVE  /\ IsFiniteSet(S) /\ Cardinality(S) \in Nat
             /\ Cardinality(S) # 0 => \E n \in S : \A m \in S : m <= n
  <2>1. S \in SUBSET Nat /\ \A m \in S : m <= b
    OBVIOUS
  <2>2. IsFiniteSet(S)
    BY <2>1, FS_BoundedSetOfNaturals, Zenon
  <2>3. Cardinality(S) # 0 => S # {}
    BY FS_EmptySet, Zenon
  <2> QED
    BY <2>1, <2>2, <2>3, FS_CardinalityType, GreatestNumber, Zenon
<1>2. after # {}
  <2>1. Cardinality(ids) \in Nat /\ Cardinality(ids) # 0
    BY <1>0, <1>1
  <2>2. PICK g \in ids : \A m \in ids : m <= g
    BY <1>1, <2>1, Zenon
  <2>3. Place(ids, g) = Cardinality(ids) - 1
    BY <1>1, <2>2, PlaceOfLast, Zenon
  <2>4. Limit <= Place(ids, g)
    BY <1>0, <2>1, <2>3
  <2> QED
    BY <2>4, Zenon
<1>3. PICK n \in after : \A m \in after : n <= m
  <2>1. after \in SUBSET Nat
    BY Zenon
  <2> QED
    BY <1>2, <2>1, LeastNumber, Zenon
<1>4. ASSUME Place(ids, n) # Limit PROVE FALSE
  <2>1. Cardinality(below(n)) \in Nat /\ Limit < Cardinality(below(n))
    <3>1. below(n) \in SUBSET ids /\ Cardinality(below(n)) = Place(ids, n)
      BY DEF Place
    <3>2. Cardinality(below(n)) \in Nat
      BY <1>1, <3>1, Zenon
    <3>3. Limit <= Place(ids, n)
      BY <1>3
    <3> QED
      BY <1>0, <1>4, <3>1, <3>2, <3>3
  <2>2. PICK p \in below(n) : \A m \in below(n) : m <= p
    <3>1. below(n) \in SUBSET ids /\ Cardinality(below(n)) # 0
      BY <1>0, <2>1
    <3> QED
      BY <1>1, <3>1, Zenon
  <2>3. p \in ids /\ p < n /\ \A j \in ids : j < p => j \in below(n)
    <3>1. p \in ids /\ p < n /\ p \in Nat /\ n \in Nat
      OBVIOUS
    <3>2. \A j \in ids : j < p => j < n
      BY <3>1
    <3> QED
      BY <3>1, <3>2, Zenon
  <2>4. Place(ids, p) = Cardinality(below(n)) - 1
    <3>1. below(n) \in SUBSET ids
      OBVIOUS
    <3> QED
      BY <1>1, <2>2, <2>3, <3>1, PlaceOfLast, Zenon
  <2>5. p \in after
    BY <1>0, <2>1, <2>3, <2>4
  <2>6. n <= p
    BY <1>3, <2>5, Zenon
  <2> QED
    BY <2>3, <2>6
<1> QED
  BY <1>3, <1>4

\* The page that starts at an id holds the images that are affected up to the id
\* that its token holds, or to the end.
LEMMA PageHolds ==
    ASSUME TypeOK, NEW row, NEW start \in Nat, NEW page,
           page = findPagedVulnerableAncestries(row, start)
    PROVE  /\ page.affected \in SUBSET images /\ page.end \in BOOLEAN /\ page.next \in Nat
           /\ \A a \in page.affected : start <= ancestry[a].id
           /\ ~ page.end => start <= page.next /\ \A a \in page.affected : ancestry[a].id < page.next
           /\ \A a \in Affected(rows, ancestry, row) : start <= ancestry[a].id =>
                a \in page.affected \/ (~ page.end /\ page.next <= ancestry[a].id)
<1> DEFINE ids == {i \in {ancestry[a].id : a \in Affected(rows, ancestry, row)} : i >= start}
<1>0. Limit \in Nat \ {0} /\ nextId \in Nat
  BY NotificationsAssumption DEF TypeOK
<1>1. DOMAIN ancestry = images /\ \A a \in images : ancestry[a].id \in 0 .. nextId - 1
  BY DEF TypeOK
<1>2. Affected(rows, ancestry, row) \subseteq images
  BY <1>1, Zenon DEF Affected
<1>3. ids \in SUBSET Nat /\ \A i \in ids : i <= nextId /\ start <= i
  BY <1>0, <1>1, <1>2
<1>4. /\ page.affected = {a \in images : ancestry[a].id \in ids /\ Place(ids, ancestry[a].id) < Limit}
      /\ page.end \in BOOLEAN /\ (page.end <=> Cardinality(ids) <= Limit)
      /\ page.next = IF Cardinality(ids) <= Limit THEN 0 ELSE NextStart(ids)
  <2>1. /\ page.affected = {a \in images : ancestry[a].id \in ids /\ Place(ids, ancestry[a].id) < Limit}
        /\ page.next = IF Cardinality(ids) <= Limit THEN 0 ELSE NextStart(ids)
    BY DEF findPagedVulnerableAncestries
  <2>2. findPagedVulnerableAncestries(row, start).end = (Cardinality(ids) <= Limit)
    BY Zenon DEF findPagedVulnerableAncestries
  <2>3. page.end = (Cardinality(ids) <= Limit)
    BY <2>2, Zenon
  <2>4. page.end \in BOOLEAN /\ (page.end <=> Cardinality(ids) <= Limit)
    <3>1. (Cardinality(ids) <= Limit) \in BOOLEAN
      OBVIOUS
    <3>2. page.end \in BOOLEAN
      BY <2>3, <3>1, Zenon
    <3>3. page.end <=> Cardinality(ids) <= Limit
      BY <2>3, Zenon
    <3> QED
      BY <3>2, <3>3, Zenon
  <2> QED
    BY <2>1, <2>4, Zenon
<1>5. ASSUME NEW a \in Affected(rows, ancestry, row), start <= ancestry[a].id
      PROVE  a \in images /\ ancestry[a].id \in ids
  BY <1>1, <1>2, <1>5
<1> HIDE DEF ids
<1>6. IsFiniteSet(ids) /\ Cardinality(ids) \in Nat
  BY <1>0, <1>3, FS_BoundedSetOfNaturals, FS_CardinalityType, Zenon
<1>7. \A i \in ids : /\ Place(ids, i) \in Nat /\ Place(ids, i) < Cardinality(ids)
                     /\ \A j \in ids : i < j => Place(ids, i) < Place(ids, j)
  BY <1>3, <1>6, PlaceGrows, Zenon
<1>8. CASE Cardinality(ids) <= Limit
  <2>1. \A i \in ids : Place(ids, i) < Limit
    BY <1>0, <1>6, <1>7, <1>8
  <2>2. page.end /\ page.next \in Nat
    <3>1. page.end /\ page.next = 0
      BY <1>4, <1>8, Zenon
    <3> QED
      BY <3>1
  <2> QED
    BY <1>3, <1>4, <1>5, <2>1, <2>2, Zenon
<1>9. CASE ~ (Cardinality(ids) <= Limit)
  <2>1. Limit < Cardinality(ids)
    BY <1>0, <1>6, <1>9
  <2>2. ~ page.end /\ page.next = NextStart(ids)
    BY <1>4, <1>9, Zenon
  <2>3. page.next \in ids /\ Place(ids, page.next) = Limit
    BY <1>0, <1>3, <2>1, <2>2, SomeNext, Zenon DEF NextStart
  <2>4. ASSUME NEW i \in ids
        PROVE  Place(ids, i) < Limit <=> i < page.next
    <3>1. /\ i \in Nat /\ page.next \in Nat /\ Place(ids, i) \in Nat
          /\ i < page.next => Place(ids, i) < Limit
          /\ page.next < i => Limit < Place(ids, i)
          /\ i = page.next => Place(ids, i) = Limit
      BY <1>3, <1>7, <2>3, Zenon
    <3> QED
      BY <1>0, <3>1
  <2>5. ASSUME NEW i \in ids PROVE i < page.next \/ page.next <= i
    <3>1. i \in Nat /\ page.next \in Nat
      BY <1>3, <2>3, Zenon
    <3> QED
      BY <3>1
  <2> QED
    BY <1>3, <1>4, <1>5, <2>2, <2>3, <2>4, <2>5, Zenon
<1> QED
  BY <1>8, <1>9

-----------------------------------------------------------------------------
(* Rows.  What updateVulnerabilities does to the tables, row by row.        *)

\* A sequence is a function from 1 to its length.
LEMMA SeqIs ==
    ASSUME NEW T, NEW s \in Seq(T)
    PROVE  Len(s) \in Nat /\ DOMAIN s = 1 .. Len(s) /\ \A i \in DOMAIN s : s[i] \in T
OBVIOUS

\* A function from 1 to a number is a sequence.
LEMMA SeqOf ==
    ASSUME NEW T, NEW n \in Nat, NEW s \in [1 .. n -> T]
    PROVE  s \in Seq(T) /\ Len(s) = n
OBVIOUS

\* A sequence is one of length m, followed by one of length n.
Joins(u, s, m, t, n) ==
    /\ DOMAIN u = 1 .. m + n
    /\ \A i \in 1 .. m : u[i] = s[i]
    /\ \A k \in 1 .. n : u[m + k] = t[k]

\* What the concatenation of two sequences holds.
LEMMA ConcatIs ==
    ASSUME NEW T, NEW s \in Seq(T), NEW t \in Seq(T)
    PROVE  s \o t \in Seq(T) /\ Joins(s \o t, s, Len(s), t, Len(t))
BY DEF Joins

\* A map is walked from the first to the last of its keys, each of them once.
LEMMA OrderIs ==
    ASSUME NEW S, IsFiniteSet(S), NEW order \in Orders(S)
    PROVE  /\ Cardinality(S) \in Nat /\ DOMAIN order = 1 .. Cardinality(S) /\ Range(order) = S
           /\ \A k \in 1 .. Cardinality(S) : order[k] \in S
           /\ \A k, l \in 1 .. Cardinality(S) : order[k] = order[l] => k = l
<1>1. Cardinality(S) \in Nat
  BY FS_CardinalityType, Zenon
<1>2. /\ order \in [1 .. Cardinality(S) -> S] /\ IsInjective(order)
      /\ \A v \in S : \E k \in 1 .. Cardinality(S) : order[k] = v
  BY Zenon DEF Orders, Bijection, Injection, Surjection
<1>3. DOMAIN order = 1 .. Cardinality(S) /\ \A k \in DOMAIN order : order[k] \in S
  BY <1>2, Zenon
<1>4. Range(order) = S
  BY <1>2, <1>3, Zenon DEF Range
<1> QED
  BY <1>1, <1>2, <1>3, <1>4, Zenon DEF IsInjective

\* What a step that stores a batch has done, when it inserts n rows in an order.
RowsAfter(batch, order, n) ==
    LET S == findVulnerabilityChanges(batch)
        m == Len(rows)
    IN  /\ n \in Nat /\ DOMAIN order = 1 .. n /\ Range(order) = S
        /\ \A k \in 1 .. n : order[k] \in S
        /\ \A k, l \in 1 .. n : order[k] = order[l] => k = l
        /\ m \in Nat /\ DOMAIN rows = 1 .. m /\ DOMAIN rows' = 1 .. m + n
        /\ \A i \in 1 .. m :
            /\ rows'[i].name = rows[i].name /\ rows'[i].content = rows[i].content
            /\ rows[i].name \in S /\ rows[i].deleted = 0 => rows'[i].deleted = round + 1
            /\ ~ (rows[i].name \in S /\ rows[i].deleted = 0) => rows'[i].deleted = rows[i].deleted
        /\ \A k \in 1 .. n :
            /\ rows'[m + k].name = order[k] /\ rows'[m + k].content = batch[order[k]]
            /\ rows'[m + k].deleted = 0
        /\ changes' = {[name |-> order[k], old |-> LiveRow(order[k]), new |-> m + k] : k \in 1 .. n}

\* updateVulnerabilities marks the rows of the vulnerabilities that changed, and
\* inserts one row for each of them after the others.
LEMMA RowsStored ==
    ASSUME TypeOK, NEW known \in SUBSET tracked, NEW batch \in [known -> Contents],
           UpdateVulnerabilities(batch)
    PROVE  /\ \E order, n : RowsAfter(batch, order, n)
           /\ IsFiniteSet(changes')
           /\ findVulnerabilityChanges(batch) \in SUBSET known
           /\ rows' \in Seq([name : tracked, content : Contents, deleted : 0 .. round + 1])
<1> DEFINE S == findVulnerabilityChanges(batch)
           m == Len(rows)
           n == Cardinality(S)
           Old == [name : tracked, content : Contents, deleted : 0 .. round]
           New == [name : tracked, content : Contents, deleted : 0 .. round + 1]
<1>1. rows \in Seq(Old) /\ round \in Nat /\ IsFiniteSet(tracked)
  BY Zenon DEF TypeOK
<1>2. m \in Nat /\ DOMAIN rows = 1 .. m /\ \A i \in 1 .. m : rows[i] \in Old
  BY <1>1, SeqIs, Zenon
<1>3. S \in SUBSET known /\ DOMAIN batch = known /\ \A v \in known : batch[v] \in Contents
  <2>1. DOMAIN batch = known
    BY Zenon
  <2> QED
    BY <2>1, Zenon DEF findVulnerabilityChanges
<1>4. IsFiniteSet(S)
  BY <1>1, <1>3, FS_Subset, Zenon
<1> HIDE DEF S
<1>5. PICK order \in Orders(S) :
        LET marked == [i \in DOMAIN rows |->
                IF rows[i].name \in Range(order) /\ rows[i].deleted = 0
                  THEN [rows[i] EXCEPT !.deleted = round + 1] ELSE rows[i]]
        IN  /\ rows' = marked \o [i \in DOMAIN order |->
                    [name |-> order[i], content |-> batch[order[i]], deleted |-> 0]]
            /\ changes' = { [name |-> order[i], old |-> LiveRow(order[i]), new |-> Len(rows) + i] :
                                i \in DOMAIN order }
  BY Zenon DEF UpdateVulnerabilities, S
<1>6. /\ n \in Nat /\ DOMAIN order = 1 .. n /\ Range(order) = S
      /\ \A k \in 1 .. n : order[k] \in S
      /\ \A k, l \in 1 .. n : order[k] = order[l] => k = l
  <2>1. order \in Orders(S)
    OBVIOUS
  <2> QED
    BY <1>4, <2>1, OrderIs, Zenon
<1> DEFINE marked == [i \in 1 .. m |->
                IF rows[i].name \in S /\ rows[i].deleted = 0
                  THEN [rows[i] EXCEPT !.deleted = round + 1] ELSE rows[i]]
           added == [k \in 1 .. n |->
                    [name |-> order[k], content |-> batch[order[k]], deleted |-> 0]]
<1>7. /\ rows' = marked \o added
      /\ changes' = {[name |-> order[k], old |-> LiveRow(order[k]), new |-> m + k] : k \in 1 .. n}
  BY <1>2, <1>5, <1>6, Zenon
<1>8. \A i \in 1 .. m : 
        /\ marked[i] \in New
        /\ marked[i].name = rows[i].name /\ marked[i].content = rows[i].content
        /\ rows[i].name \in S /\ rows[i].deleted = 0 => marked[i].deleted = round + 1
        /\ ~ (rows[i].name \in S /\ rows[i].deleted = 0) => marked[i].deleted = rows[i].deleted
  BY <1>1, <1>2
<1>9. \A k \in 1 .. n :
        /\ added[k] \in New
        /\ added[k].name = order[k] /\ added[k].content = batch[order[k]] /\ added[k].deleted = 0
  BY <1>1, <1>3, <1>6
<1>10. marked \in [1 .. m -> New] /\ added \in [1 .. n -> New]
  BY <1>8, <1>9, Zenon
<1> HIDE DEF marked, added, m, n, New
<1>11. marked \in Seq(New) /\ added \in Seq(New) /\ Len(marked) = m /\ Len(added) = n
  BY <1>2, <1>6, <1>10, SeqOf, Zenon
<1>12. /\ rows' \in Seq(New) /\ DOMAIN rows' = 1 .. m + n
       /\ \A i \in 1 .. m : rows'[i] = marked[i]
       /\ \A k \in 1 .. n : rows'[m + k] = added[k]
  <2>1. rows' \in Seq(New) /\ Joins(rows', marked, m, added, n)
    BY <1>7, <1>11, ConcatIs, Zenon
  <2> QED
    BY <2>1, Zenon DEF Joins
<1>13. IsFiniteSet(changes')
  <2> DEFINE change == [k \in 1 .. n |-> [name |-> order[k], old |-> LiveRow(order[k]), new |-> m + k]]
  <2>1. change \in Surjection(1 .. n, changes')
    BY <1>7, Zenon DEF Surjection
  <2>2. IsFiniteSet(1 .. n)
    BY <1>6, FS_Interval
  <2> QED
    BY <2>1, <2>2, FS_Surjection, Zenon
<1>14. RowsAfter(batch, order, n)
  <2>1. \A i \in 1 .. m :
          /\ rows'[i].name = rows[i].name /\ rows'[i].content = rows[i].content
          /\ rows[i].name \in S /\ rows[i].deleted = 0 => rows'[i].deleted = round + 1
          /\ ~ (rows[i].name \in S /\ rows[i].deleted = 0) => rows'[i].deleted = rows[i].deleted
    BY <1>8, <1>12, Zenon
  <2>2. \A k \in 1 .. n :
          /\ rows'[m + k].name = order[k] /\ rows'[m + k].content = batch[order[k]]
          /\ rows'[m + k].deleted = 0
    BY <1>9, <1>12
  <2> QED
    BY <1>2, <1>6, <1>7, <1>12, <2>1, <2>2, Zenon DEF RowsAfter, S, m
<1> QED
  BY <1>3, <1>12, <1>13, <1>14, Zenon DEF New, S

\* A list has as many features as places, unless it names one twice.
LEMMA Names ==
    ASSUME NEW f, f \in Seq(Range(f))
    PROVE  /\ IsFiniteSet(Range(f)) /\ Cardinality(Range(f)) \in Nat /\ Len(f) \in Nat
           /\ Cardinality(Range(f)) <= Len(f)
           /\ IsInjective(f) => Cardinality(Range(f)) = Len(f)
<1>1. Len(f) \in Nat /\ DOMAIN f = 1 .. Len(f) /\ f \in [1 .. Len(f) -> Range(f)]
  OBVIOUS
<1>2. \A v \in Range(f) : \E k \in 1 .. Len(f) : f[k] = v
  BY <1>1, Zenon DEF Range
<1>3. f \in Surjection(1 .. Len(f), Range(f))
  BY <1>1, <1>2, Zenon DEF Surjection
<1>4. IsInjective(f) => f \in Injection(1 .. Len(f), Range(f))
  BY <1>1, Zenon DEF Injection
<1>5. IsFiniteSet(1 .. Len(f)) /\ Cardinality(1 .. Len(f)) = Len(f)
  <2>1. 0 \in Int /\ 1 \in Int /\ Len(f) \in Int
    BY <1>1
  <2>2. /\ IsFiniteSet(1 .. Len(f))
        /\ Cardinality(1 .. Len(f)) = IF 1 > Len(f) THEN 0 ELSE Len(f) - 1 + 1
    BY <2>1, FS_Interval, Zenon
  <2> QED
    BY <1>1, <2>2
<1>6. /\ IsFiniteSet(Range(f)) /\ Cardinality(Range(f)) <= Cardinality(1 .. Len(f))
      /\ Cardinality(Range(f)) = Cardinality(1 .. Len(f)) <=> f \in Injection(1 .. Len(f), Range(f))
  BY <1>3, <1>5, FS_Surjection, Zenon
<1>7. Cardinality(Range(f)) \in Nat
  BY <1>6, FS_CardinalityType, Zenon
<1> QED
  BY <1>1, <1>4, <1>5, <1>6, <1>7, Zenon

\* isVulnerabilityChanged finds nothing only if severity and feature names are
\* the same: it compares the lengths and looks the names up in one direction.
LEMMA NotChanged ==
    ASSUME NEW a \in Contents, NEW b \in Contents, ~ isVulnerabilityChanged(a, b)
    PROVE  SaysTheSame(a, b)
<1> DEFINE A == Range(a.affected)
           B == Range(b.affected)
<1>1. /\ a.severity = b.severity /\ Len(a.affected) = Len(b.affected)
      /\ B \subseteq A /\ IsInjective(b.affected)
  BY Zenon DEF isVulnerabilityChanged
<1>2. a.affected \in Seq(A) /\ b.affected \in Seq(B)
  BY NotificationsAssumption, Zenon
<1>3. /\ IsFiniteSet(A) /\ Cardinality(A) \in Nat /\ Len(a.affected) \in Nat
      /\ Cardinality(A) <= Len(a.affected)
  BY <1>2, Names, Zenon
<1>4. Cardinality(B) = Len(b.affected) /\ Cardinality(B) \in Nat
  BY <1>1, <1>2, Names, Zenon
<1> HIDE DEF A, B
<1>5. Cardinality(B) <= Cardinality(A) /\ (Cardinality(B) = Cardinality(A) => A = B)
  BY <1>1, <1>3, FS_Subset, Zenon
<1>6. Cardinality(B) = Cardinality(A)
  BY <1>1, <1>3, <1>4, <1>5
<1> QED
  BY <1>1, <1>5, <1>6, Zenon DEF SaysTheSame, A, B

\* It finds a change only if they differ, or if a feature is named twice.
LEMMA Changed ==
    ASSUME NEW a \in Contents, NEW b \in Contents, isVulnerabilityChanged(a, b)
    PROVE  \/ a.severity # b.severity \/ Range(a.affected) # Range(b.affected)
           \/ ~ IsInjective(a.affected) \/ ~ IsInjective(b.affected)
<1>1. SUFFICES ASSUME a.severity = b.severity, Range(a.affected) = Range(b.affected),
                      IsInjective(a.affected), IsInjective(b.affected)
               PROVE  FALSE
  BY Zenon
<1>2. a.affected \in Seq(Range(a.affected)) /\ b.affected \in Seq(Range(b.affected))
  BY NotificationsAssumption, Zenon
<1>3. /\ Cardinality(Range(a.affected)) = Len(a.affected)
      /\ Cardinality(Range(b.affected)) = Len(b.affected)
  BY <1>1, <1>2, Names, Zenon
<1> QED
  BY <1>1, <1>3, Zenon DEF isVulnerabilityChanged

\* The row that searchVulnerability finds is the one that is not deleted.
LEMMA LiveIs ==
    ASSUME TypeOK, RowsInv, NEW v
    PROVE  /\ LiveRow(v) # NoRow <=> Live(v) # {}
           /\ \A i \in Live(v) : LiveRow(v) = i /\ i \in DOMAIN rows
           /\ LiveRow(v) # NoRow => LiveRow(v) \in Live(v)
<1>1. Len(rows) \in Nat /\ DOMAIN rows = 1 .. Len(rows)
  BY SeqIs, Zenon DEF TypeOK
<1>2. \A i \in DOMAIN rows : i \in Nat /\ i # NoRow
  BY <1>1 DEF NoRow
<1>3. \A i, j \in Live(v) : i = j
  <2>1. \A i, j \in Live(v) : i \in DOMAIN rows /\ j \in DOMAIN rows /\ i <= j /\ j <= i
    BY Zenon DEF Live, RowsInv
  <2> QED
    BY <1>2, <2>1
<1>4. Live(v) \subseteq DOMAIN rows
  BY Zenon DEF Live
<1>5. CASE Live(v) = {}
  BY <1>5, Zenon DEF LiveRow
<1>6. CASE Live(v) # {}
  <2>1. LiveRow(v) \in Live(v)
    BY <1>6, Zenon DEF LiveRow
  <2> QED
    BY <1>2, <1>3, <1>4, <1>6, <2>1, Zenon
<1> QED
  BY <1>5, <1>6

\* The rows that a batch inserts come after the others.
LEMMA PlacesAfter ==
    ASSUME NEW m \in Nat, NEW n \in Nat
    PROVE  /\ \A i \in 1 .. m + n : i \in 1 .. m \/ \E k \in 1 .. n : i = m + k
           /\ \A i \in 1 .. m, k \in 1 .. n : i < m + k
           /\ \A i \in 1 .. m : i \in 1 .. m + n
           /\ \A k \in 1 .. n : m + k \in 1 .. m + n
<1>1. ASSUME NEW i \in 1 .. m + n, i \notin 1 .. m PROVE \E k \in 1 .. n : i = m + k
  <2>1. i - m \in 1 .. n /\ i = m + (i - m)
    BY <1>1
  <2> QED
    BY <2>1, Zenon
<1>2. /\ \A i \in 1 .. m, k \in 1 .. n : i < m + k
      /\ \A i \in 1 .. m : i \in 1 .. m + n
      /\ \A k \in 1 .. n : m + k \in 1 .. m + n
  OBVIOUS
<1> QED
  BY <1>1, <1>2, Zenon

\* The rows that are not deleted after a batch is stored.
LEMMA LiveAfter ==
    ASSUME TypeOK, RowsInv, NEW batch, NEW order, NEW n, RowsAfter(batch, order, n)
    PROVE  LET S == findVulnerabilityChanges(batch)
               m == Len(rows)
           IN  /\ \A i \in 1 .. m : rows'[i].deleted = 0 =>
                    rows[i].deleted = 0 /\ rows[i].name \notin S
               /\ \A v : v \in S \/ Live(v) # {} => Live(v)' # {}
<1> DEFINE S == findVulnerabilityChanges(batch)
           m == Len(rows)
<1>1. /\ n \in Nat /\ DOMAIN order = 1 .. n /\ Range(order) = S
      /\ m \in Nat /\ DOMAIN rows = 1 .. m /\ DOMAIN rows' = 1 .. m + n
  BY Zenon DEF RowsAfter
<1>2. \A i \in 1 .. m :
            /\ rows'[i].name = rows[i].name
            /\ rows[i].name \in S /\ rows[i].deleted = 0 => rows'[i].deleted = round + 1
            /\ ~ (rows[i].name \in S /\ rows[i].deleted = 0) => rows'[i].deleted = rows[i].deleted
  BY Zenon DEF RowsAfter
<1>3. \A k \in 1 .. n : rows'[m + k].name = order[k] /\ rows'[m + k].deleted = 0
  BY Zenon DEF RowsAfter
<1> HIDE DEF S, m
<1>4. round + 1 # 0
  BY DEF TypeOK
<1>5. \A i \in 1 .. m : rows'[i].deleted = 0 => rows[i].deleted = 0 /\ rows[i].name \notin S
  BY <1>2, <1>4, Zenon
<1>6. /\ \A i \in 1 .. m : i \in DOMAIN rows'
      /\ \A k \in 1 .. n : m + k \in DOMAIN rows'
  BY <1>1, PlacesAfter, Zenon
<1>7. ASSUME NEW v, v \in S PROVE Live(v)' # {}
  <2>1. PICK k \in 1 .. n : order[k] = v
    BY <1>1, <1>7, Zenon DEF Range
  <2>2. m + k \in Live(v)'
    BY <1>3, <1>6, <2>1, Zenon DEF Live
  <2> QED
    BY <2>2, Zenon
<1>8. ASSUME NEW v, v \notin S, Live(v) # {} PROVE Live(v)' # {}
  <2>1. PICK i \in DOMAIN rows : rows[i].name = v /\ rows[i].deleted = 0
    BY <1>8, Zenon DEF Live
  <2>2. i \in Live(v)'
    BY <1>1, <1>2, <1>6, <1>8, <2>1, Zenon DEF Live
  <2> QED
    BY <2>2, Zenon
<1> QED
  BY <1>5, <1>7, <1>8, Zenon DEF S, m

\* Storing a batch keeps the invariant of the rows.
LEMMA RowsUpdated ==
    ASSUME TypeOK, RowsInv, NEW known \in SUBSET tracked, NEW batch \in [known -> Contents],
           UpdateVulnerabilities(batch)
    PROVE  RowsInv'
<1> DEFINE S == findVulnerabilityChanges(batch)
           m == Len(rows)
<1>1. PICK order, n : RowsAfter(batch, order, n)
  BY RowsStored, Zenon
<1>2. S \in SUBSET known
  BY RowsStored, Zenon
<1>3. /\ latest' = [v \in tracked |-> IF v \in DOMAIN batch THEN batch[v] ELSE latest[v]]
      /\ tracked' = tracked
  BY Zenon DEF UpdateVulnerabilities
<1>4. DOMAIN batch = known /\ \A v \in known : batch[v] \in Contents
  BY Zenon
<1>5. /\ \A v \in known : latest'[v] = batch[v]
      /\ \A v \in tracked : v \notin known => latest'[v] = latest[v]
  BY <1>3, <1>4, Zenon
<1>6. \A k \in 1 .. n : order[k] \in S
  BY <1>1, Zenon DEF RowsAfter
<1>7. \A k, l \in 1 .. n : order[k] = order[l] => k = l
  BY <1>1, Zenon DEF RowsAfter
<1>8. n \in Nat /\ m \in Nat /\ DOMAIN rows = 1 .. m /\ DOMAIN rows' = 1 .. m + n
  BY <1>1, Zenon DEF RowsAfter
<1>9. \A i \in 1 .. m : rows'[i].name = rows[i].name
  BY <1>1, Zenon DEF RowsAfter
<1>10. \A i \in 1 .. m : rows'[i].content = rows[i].content
  BY <1>1, Zenon DEF RowsAfter
<1>11. \A k \in 1 .. n : rows'[m + k].name = order[k]
  BY <1>1, Zenon DEF RowsAfter
<1>12. \A k \in 1 .. n : rows'[m + k].content = batch[order[k]]
  BY <1>1, Zenon DEF RowsAfter
<1>13. \A i \in 1 .. m : rows'[i].deleted = 0 => rows[i].deleted = 0 /\ rows[i].name \notin S
  BY <1>1, LiveAfter, Zenon
<1>14. \A v : v \in S \/ Live(v) # {} => Live(v)' # {}
  BY <1>1, LiveAfter, Zenon
<1>15. \A i \in DOMAIN rows' : i \in 1 .. m \/ \E k \in 1 .. n : i = m + k
  <2>1. \A i \in 1 .. m + n : i \in 1 .. m \/ \E k \in 1 .. n : i = m + k
    BY <1>8, PlacesAfter
  <2> QED
    BY <1>8, <2>1, Zenon
<1>16. \A i \in 1 .. m, k \in 1 .. n : i < m + k
  BY <1>8, PlacesAfter, Zenon
<1>17. \A v \in known : v \in S \/ (Live(v) # {} /\ ~ isVulnerabilityChanged(rows[LiveRow(v)].content, batch[v]))
  BY <1>4, LiveIs, Zenon DEF findVulnerabilityChanges
<1>18. \A i \in 1 .. m : rows[i].content \in Contents /\ rows[i].name \in tracked
  <2>1. \A i \in DOMAIN rows : rows[i] \in [name : tracked, content : Contents, deleted : 0 .. round]
    BY SeqIs, Zenon DEF TypeOK
  <2> QED
    BY <1>8, <2>1, Zenon
<1> HIDE DEF S, m
<1>19. ASSUME NEW i \in DOMAIN rows', NEW j \in DOMAIN rows',
              rows'[i].name = rows'[j].name, rows'[i].deleted = 0
       PROVE  j <= i
  <2>1. CASE i \in 1 .. m
    <3>1. rows[i].deleted = 0 /\ rows[i].name \notin S
      BY <1>13, <1>19, <2>1, Zenon
    <3>2. j \in 1 .. m
      <4>1. ASSUME NEW k \in 1 .. n, j = m + k PROVE FALSE
        <5>1. rows'[j].name = order[k] /\ rows'[i].name = rows[i].name
          BY <1>9, <1>11, <2>1, <4>1
        <5> QED
          BY <1>6, <1>19, <3>1, <5>1
      <4> QED
        BY <1>15, <4>1, Zenon
    <3> QED
      BY <1>8, <1>9, <1>19, <2>1, <3>1, <3>2, Zenon DEF RowsInv
  <2>2. CASE \E k \in 1 .. n : i = m + k
    <3>1. PICK k \in 1 .. n : i = m + k
      BY <2>2, Zenon
    <3>2. CASE j \in 1 .. m
      <4>1. j < m + k
        BY <1>16, <3>2, Zenon
      <4> QED
        BY <1>8, <3>1, <3>2, <4>1
    <3>3. CASE \E l \in 1 .. n : j = m + l
      <4>1. PICK l \in 1 .. n : j = m + l
        BY <3>3, Zenon
      <4>2. rows'[i].name = order[k] /\ rows'[j].name = order[l]
        BY <1>11, <3>1, <4>1
      <4>3. order[k] = order[l]
        BY <1>19, <4>2, Zenon
      <4>4. l = k
        BY <1>7, <4>3
      <4> QED
        BY <1>8, <3>1, <4>1, <4>4
    <3> QED
      BY <1>15, <3>2, <3>3, Zenon
  <2> QED
    BY <1>15, <2>1, <2>2, Zenon
<1>20. ASSUME NEW i \in DOMAIN rows' PROVE Live(rows[i].name)' # {}
  <2>1. CASE i \in 1 .. m
    <3>1. Live(rows[i].name) # {}
      BY <1>8, <2>1, Zenon DEF RowsInv
    <3>2. rows'[i].name = rows[i].name
      BY <1>9, <2>1, Zenon
    <3>3. Live(rows'[i].name) # {}
      BY <3>1, <3>2, Zenon
    <3> QED
      BY <1>14, <3>3, Zenon
  <2>2. CASE \E k \in 1 .. n : i = m + k
    <3>1. PICK k \in 1 .. n : i = m + k
      BY <2>2, Zenon
    <3>2. rows'[i].name \in S
      BY <1>6, <1>11, <3>1
    <3> QED
      BY <1>14, <3>2, Zenon
  <2> QED
    BY <1>15, <2>1, <2>2, Zenon
<1>21. ASSUME NEW v \in tracked, latest'[v] # NoContent PROVE Live(v)' # {}
  <2>1. CASE v \in known
    BY <1>14, <1>17, <2>1, Zenon
  <2>2. CASE v \notin known
    BY <1>5, <1>14, <1>21, <2>2, Zenon DEF RowsInv
  <2> QED
    BY <2>1, <2>2
<1>22. ASSUME NEW i \in DOMAIN rows', rows'[i].deleted = 0
       PROVE  SaysTheSame(rows'[i].content, latest'[rows'[i].name])
  <2>1. CASE i \in 1 .. m
    <3> DEFINE v == rows[i].name
    <3>1. rows[i].deleted = 0 /\ v \notin S /\ v \in tracked /\ rows[i].content \in Contents
      BY <1>13, <1>18, <1>22, <2>1, Zenon
    <3>2. i \in Live(v) /\ LiveRow(v) = i
      BY <1>8, <2>1, <3>1, LiveIs, Zenon DEF Live
    <3>3. CASE v \in known
      <4>1. ~ isVulnerabilityChanged(rows[i].content, batch[v])
        BY <1>17, <3>1, <3>2, <3>3, Zenon
      <4>2. SaysTheSame(rows[i].content, batch[v])
        BY <1>4, <3>1, <3>3, <4>1, NotChanged, Zenon
      <4> QED
        BY <1>5, <1>9, <1>10, <2>1, <3>3, <4>2, Zenon
    <3>4. CASE v \notin known
      <4>1. SaysTheSame(rows[i].content, latest[v])
        BY <1>8, <2>1, <3>1, Zenon DEF RowsInv
      <4> QED
        BY <1>5, <1>9, <1>10, <2>1, <3>1, <3>4, <4>1, Zenon
    <3> QED
      BY <3>3, <3>4, Zenon
  <2>2. CASE \E k \in 1 .. n : i = m + k
    <3>1. PICK k \in 1 .. n : i = m + k
      BY <2>2, Zenon
    <3>2. order[k] \in known
      BY <1>2, <1>6, Zenon
    <3>3. rows'[i].name = order[k] /\ rows'[i].content = batch[order[k]]
      BY <1>11, <1>12, <3>1
    <3>4. rows'[i].content = latest'[rows'[i].name]
      BY <1>5, <3>2, <3>3, Zenon
    <3> QED
      BY <3>4, Zenon DEF SaysTheSame
  <2> QED
    BY <1>15, <2>1, <2>2, Zenon
<1>23. ReplacedByAnother'
  <2> DEFINE Other(a, b) == \/ a.severity # b.severity \/ Range(a.affected) # Range(b.affected)
                            \/ ~ IsInjective(a.affected) \/ ~ IsInjective(b.affected)
  <2>1. SUFFICES ASSUME NEW i \in DOMAIN rows', NEW j \in DOMAIN rows',
                        i < j, rows'[i].name = rows'[j].name,
                        \A k \in i + 1 .. j - 1 : rows'[k].name # rows'[i].name
                 PROVE  Other(rows'[i].content, rows'[j].content)
    BY Zenon DEF ReplacedByAnother
  <2> HIDE DEF Other
  <2>2. CASE j \in 1 .. m
    <3>1. i \in 1 .. m /\ \A k \in i + 1 .. j - 1 : k \in 1 .. m
      BY <1>8, <2>1, <2>2
    <3>2. /\ rows[i].name = rows[j].name
          /\ \A k \in i + 1 .. j - 1 : rows[k].name # rows[i].name
      BY <1>9, <2>1, <2>2, <3>1, Zenon
    <3>3. Other(rows[i].content, rows[j].content)
      BY <1>8, <2>1, <2>2, <3>1, <3>2, Zenon DEF RowsInv, ReplacedByAnother, Other
    <3> QED
      BY <1>10, <2>2, <3>1, <3>3, Zenon
  <2>3. ASSUME NEW k \in 1 .. n, j = m + k PROVE Other(rows'[i].content, rows'[j].content)
    <3> DEFINE v == order[k]
    <3>1. rows'[j].name = v /\ rows'[j].content = batch[v]
      BY <1>11, <1>12, <2>3
    <3>2. i \in 1 .. m
      <4>1. ASSUME NEW l \in 1 .. n, i = m + l PROVE FALSE
        <5>1. rows'[i].name = order[l]
          BY <1>11, <4>1
        <5>2. l = k
          BY <1>7, <2>1, <3>1, <5>1, Zenon
        <5> QED
          BY <1>8, <2>1, <2>3, <4>1, <5>2
      <4> QED
        BY <1>15, <4>1, Zenon
    <3>3. rows[i].name = v
      BY <1>9, <2>1, <3>1, <3>2, Zenon
    <3>4. PICK w \in DOMAIN rows : rows[w].name = v /\ rows[w].deleted = 0
      <4>1. Live(v) # {}
        BY <1>8, <3>2, <3>3, Zenon DEF RowsInv
      <4> QED
        BY <4>1, Zenon DEF Live
    <3>5. i <= w
      BY <1>8, <3>2, <3>3, <3>4, Zenon DEF RowsInv
    <3>6. w = i
      <4>1. SUFFICES ASSUME w # i PROVE FALSE
        BY Zenon
      <4>2. w \in i + 1 .. j - 1 /\ w \in 1 .. m
        BY <1>8, <2>3, <3>2, <3>4, <3>5, <4>1
      <4>3. rows'[w].name = v /\ rows'[i].name = v
        BY <1>9, <3>2, <3>3, <3>4, <4>2, Zenon
      <4> QED
        BY <2>1, <4>2, <4>3, Zenon
    <3>7. LiveRow(v) = i /\ i # NoRow
      <4>1. i \in Live(v)
        BY <3>4, <3>6, Zenon DEF Live
      <4> QED
        BY <4>1, LiveIs, Zenon
    <3>8. v \in S /\ batch[v] \in Contents
      BY <1>2, <1>4, <1>6, Zenon
    <3>9. isVulnerabilityChanged(rows[i].content, batch[v])
      BY <3>7, <3>8, Zenon DEF S, findVulnerabilityChanges
    <3>10. Other(rows[i].content, batch[v])
      BY <1>18, <3>2, <3>8, <3>9, Changed, Zenon DEF Other
    <3> QED
      BY <1>10, <3>1, <3>2, <3>10, Zenon
  <2> QED
    BY <1>15, <2>2, <2>3, Zenon
<1> QED
  BY <1>3, <1>19, <1>20, <1>21, <1>22, <1>23, Zenon DEF RowsInv

-----------------------------------------------------------------------------
(* Changes, and the notifications made from them.                           *)

\* A change that updateVulnerabilities returns names the row that it inserted and
\* the row that it deleted.
LEMMA ChangesUpdated ==
    ASSUME TypeOK, RowsInv, NEW known \in SUBSET tracked, NEW batch \in [known -> Contents],
           UpdateVulnerabilities(batch)
    PROVE  ChangesInv' /\ changes' \subseteq Change'
<1> DEFINE S == findVulnerabilityChanges(batch)
           m == Len(rows)
<1>1. PICK order, n : RowsAfter(batch, order, n)
  BY RowsStored, Zenon
<1>2. S \in SUBSET tracked
  BY RowsStored, Zenon
<1>3. round' = round + 1 /\ tracked' = tracked
  BY Zenon DEF UpdateVulnerabilities
<1>4. /\ \A k \in 1 .. n : order[k] \in S
      /\ n \in Nat /\ m \in Nat /\ DOMAIN rows = 1 .. m /\ DOMAIN rows' = 1 .. m + n
      /\ changes' = {[name |-> order[k], old |-> LiveRow(order[k]), new |-> m + k] : k \in 1 .. n}
  BY <1>1, Zenon DEF RowsAfter
<1>5. \A i \in 1 .. m :
        /\ rows'[i].name = rows[i].name
        /\ rows[i].name \in S /\ rows[i].deleted = 0 => rows'[i].deleted = round + 1
        /\ ~ (rows[i].name \in S /\ rows[i].deleted = 0) => rows'[i].deleted = rows[i].deleted
  BY <1>1, Zenon DEF RowsAfter
<1>6. \A k \in 1 .. n : rows'[m + k].name = order[k] /\ rows'[m + k].deleted = 0
  BY <1>1, Zenon DEF RowsAfter
<1>7. \A i \in 1 .. m : rows[i].deleted \in 0 .. round
  <2>1. \A i \in DOMAIN rows : rows[i] \in [name : tracked, content : Contents, deleted : 0 .. round]
    BY SeqIs, Zenon DEF TypeOK
  <2> QED
    BY <1>4, <2>1, Zenon
<1>8. round \in Nat
  BY Zenon DEF TypeOK
<1>9. /\ \A i \in 1 .. m : i \in 1 .. m + n
      /\ \A k \in 1 .. n : m + k \in 1 .. m + n
      /\ \A i \in 1 .. m + n : i \in 1 .. m \/ \E k \in 1 .. n : i = m + k
  BY <1>4, PlacesAfter, Zenon
<1> HIDE DEF S, m
<1>10. ASSUME NEW k \in 1 .. n, NEW c, c = [name |-> order[k], old |-> LiveRow(order[k]), new |-> m + k]
       PROVE  /\ c \in Change'
              /\ rows'[c.new].name = c.name /\ rows'[c.new].deleted = 0
              /\ c.old # NoRow =>
                    /\ rows'[c.old].name = c.name /\ rows'[c.old].deleted = round' /\ round' # 0
                    /\ \A i \in DOMAIN rows' :
                        rows'[i].name = c.name /\ i # c.old => rows'[i].deleted < round'
  <2> DEFINE v == order[k]
             o == LiveRow(v)
  <2>1. c.name = v /\ c.old = o /\ c.new = m + k
    BY <1>10
  <2>2. v \in S /\ v \in tracked
    BY <1>2, <1>4, Zenon DEF S
  <2>3. /\ o # NoRow <=> Live(v) # {}
        /\ \A i \in Live(v) : o = i
        /\ o # NoRow => o \in Live(v)
    BY LiveIs, Zenon
  <2> HIDE DEF o, v
  <2>4. o # NoRow => o \in 1 .. m /\ rows[o].name = v /\ rows[o].deleted = 0
    BY <1>4, <2>3, Zenon DEF Live
  <2>5. o # NoRow => o \in DOMAIN rows'
    BY <1>4, <1>9, <2>4, Zenon
  <2>6. c \in Change'
    <3>1. o \in {NoRow} \cup DOMAIN rows' /\ m + k \in DOMAIN rows' /\ v \in tracked'
      BY <1>3, <1>4, <1>9, <2>2, <2>5, Zenon
    <3>2. c = [name |-> v, old |-> o, new |-> m + k]
      BY <1>10, Zenon DEF v, o
    <3> QED
      BY <3>1, <3>2, Zenon DEF Change
  <2>7. rows'[m + k].name = v /\ rows'[m + k].deleted = 0
    BY <1>6, Zenon DEF v
  <2>8. ASSUME o # NoRow
        PROVE  /\ rows'[o].name = v /\ rows'[o].deleted = round' /\ round' # 0
               /\ \A i \in DOMAIN rows' : rows'[i].name = v /\ i # o => rows'[i].deleted < round'
    <3>1. rows'[o].name = v /\ rows'[o].deleted = round + 1
      BY <1>5, <2>2, <2>4, <2>8, Zenon
    <3>2. round + 1 # 0
      BY <1>8
    <3>3. ASSUME NEW i \in 1 .. m, rows'[i].name = v, i # o PROVE rows'[i].deleted < round + 1
      <4>1. rows[i].deleted # 0
        BY <1>4, <1>5, <2>3, <3>3, Zenon DEF Live
      <4>2. rows'[i].deleted = rows[i].deleted
        BY <1>5, <3>3, <4>1, Zenon
      <4> QED
        BY <1>7, <1>8, <4>2
    <3>4. ASSUME NEW l \in 1 .. n PROVE rows'[m + l].deleted < round + 1
      BY <1>6, <1>8
    <3>5. ASSUME NEW i \in DOMAIN rows', rows'[i].name = v, i # o PROVE rows'[i].deleted < round + 1
      <4>1. i \in 1 .. m \/ \E l \in 1 .. n : i = m + l
        BY <1>4, <1>9, Zenon
      <4>2. CASE i \in 1 .. m
        BY <3>3, <3>5, <4>2, Zenon
      <4>3. CASE \E l \in 1 .. n : i = m + l
        BY <3>4, <4>3
      <4> QED
        BY <4>1, <4>2, <4>3, Zenon
    <3> QED
      BY <1>3, <3>1, <3>2, <3>5, Zenon
  <2> QED
    BY <2>1, <2>6, <2>7, <2>8, Zenon
<1>11. \A c \in changes' : \E k \in 1 .. n :
          c = [name |-> order[k], old |-> LiveRow(order[k]), new |-> m + k]
  BY <1>4, Zenon DEF m
<1>12. ASSUME NEW c \in changes'
       PROVE  /\ c \in Change'
              /\ rows'[c.new].name = c.name /\ rows'[c.new].deleted = 0
              /\ c.old # NoRow =>
                    /\ rows'[c.old].name = c.name /\ rows'[c.old].deleted = round' /\ round' # 0
                    /\ \A i \in DOMAIN rows' :
                        rows'[i].name = c.name /\ i # c.old => rows'[i].deleted < round'
  <2>1. PICK k \in 1 .. n : c = [name |-> order[k], old |-> LiveRow(order[k]), new |-> m + k]
    BY <1>11, Zenon
  <2> QED
    BY <1>10, <2>1, Zenon
<1> QED
  BY <1>12, Zenon DEF ChangesInv

\* The rows that InsertVulnerabilityNotifications finds by a change's name are
\* those that the change is about.
LEMMA FoundByName ==
    ASSUME TypeOK, RowsInv, ChangesInv, NEW c \in changes
    PROVE  /\ LiveRow(c.name) = c.new
           /\ c.old # NoRow => findLatestDeleted(c.name) = c.old
<1>1. c \in Change /\ round \in Nat
  BY Zenon DEF TypeOK
<1>2. c.new \in DOMAIN rows /\ c.old \in {NoRow} \cup DOMAIN rows
  BY <1>1, Zenon DEF Change
<1>3. rows[c.new].name = c.name /\ rows[c.new].deleted = 0
  BY Zenon DEF ChangesInv
<1>4. LiveRow(c.name) = c.new
  <2>1. c.new \in Live(c.name)
    BY <1>2, <1>3, Zenon DEF Live
  <2> QED
    BY <2>1, LiveIs, Zenon
<1>5. ASSUME c.old # NoRow PROVE findLatestDeleted(c.name) = c.old
  <2> DEFINE D == {i \in DOMAIN rows : rows[i].name = c.name /\ rows[i].deleted # 0}
             Latest(i) == \A j \in D : rows[i].deleted >= rows[j].deleted
  <2>1. /\ rows[c.old].name = c.name /\ rows[c.old].deleted = round /\ round # 0
        /\ \A i \in DOMAIN rows : rows[i].name = c.name /\ i # c.old => rows[i].deleted < round
    BY <1>5, Zenon DEF ChangesInv
  <2>2. c.old \in D
    BY <1>2, <1>5, <2>1, Zenon
  <2>3. \A i \in DOMAIN rows : rows[i].deleted \in 0 .. round
    <3>1. \A i \in DOMAIN rows : rows[i] \in [name : tracked, content : Contents, deleted : 0 .. round]
      BY SeqIs, Zenon DEF TypeOK
    <3> QED
      BY <3>1, Zenon
  <2>4. Latest(c.old)
    <3>1. \A j \in DOMAIN rows : round >= rows[j].deleted
      BY <1>1, <2>3
    <3> QED
      BY <2>1, <3>1, Zenon
  <2>5. ASSUME NEW i \in D, Latest(i) PROVE i = c.old
    <3>1. rows[i].deleted >= round /\ (i # c.old => rows[i].deleted < round) /\ rows[i].deleted \in 0 .. round
      BY <2>1, <2>2, <2>3, <2>5, Zenon
    <3> QED
      BY <1>1, <3>1
  <2>6. findLatestDeleted(c.name) = CHOOSE i \in D : Latest(i)
    BY Zenon DEF findLatestDeleted
  <2> HIDE DEF D, Latest
  <2> QED
    BY <2>2, <2>4, <2>5, <2>6, Zenon
<1> QED
  BY <1>4, <1>5

\* What is inserted for the changes, in an order: the new row of each and, if it
\* has one, its old row; otherwise the old row of a change before it, or none.
LEMMA InsertedIs ==
    ASSUME TypeOK, RowsInv, ChangesInv, NEW order \in Orders(changes)
    PROVE  /\ Cardinality(changes) \in Nat
           /\ DOMAIN Inserted(order) = 1 .. Cardinality(changes)
           /\ Inserted(order) = [k \in 1 .. Cardinality(changes) |-> Inserted(order)[k]]
           /\ \A k \in 1 .. Cardinality(changes) : \E c \in changes, o \in {NoRow} \cup DOMAIN rows :
                /\ Inserted(order)[k] = [old |-> o, new |-> c.new, change |-> c]
                /\ c.old # NoRow => o = c.old
<1> DEFINE n == Cardinality(changes)
           assigned(i) == {j \in 1 .. i : order[j].old # NoRow}
           old(i) == IF assigned(i) = {} THEN NoRow ELSE findLatestDeleted(order[Max(assigned(i))].name)
<1>1. IsFiniteSet(changes) /\ changes \subseteq Change
  BY Zenon DEF TypeOK
<1>2. n \in Nat /\ DOMAIN order = 1 .. n /\ \A k \in 1 .. n : order[k] \in changes
  BY <1>1, OrderIs, Zenon
<1>3. Inserted(order) = [k \in 1 .. n |->
            [old |-> old(k), new |-> LiveRow(order[k].name), change |-> order[k]]]
  BY <1>2, Zenon DEF Inserted
<1>4. ASSUME NEW k \in 1 .. n
      PROVE  /\ old(k) \in {NoRow} \cup DOMAIN rows
             /\ order[k].old # NoRow => old(k) = order[k].old
  <2>1. k \in Nat /\ \A j \in 1 .. k : j \in 1 .. n /\ j \in Nat /\ j <= k
    BY <1>2
  <2>2. assigned(k) \in SUBSET Nat /\ \A j \in assigned(k) : j <= k /\ j \in 1 .. n /\ order[j].old # NoRow
    BY <2>1, Zenon
  <2>3. order[k].old # NoRow => k \in assigned(k)
    BY <2>1
  <2> HIDE DEF assigned
  <2>4. CASE assigned(k) = {}
    BY <2>3, <2>4, Zenon
  <2>5. CASE assigned(k) # {}
    <3> DEFINE g == Max(assigned(k))
    <3>1. \E x \in assigned(k) : \A y \in assigned(k) : y <= x
      BY <2>1, <2>2, <2>5, GreatestNumber, Zenon
    <3>2. \E x \in assigned(k) : \A y \in assigned(k) : x >= y
      BY <2>2, <3>1
    <3>3. g \in assigned(k) /\ \A y \in assigned(k) : g >= y
      BY <3>2, Zenon DEF Max
    <3> HIDE DEF g
    <3>4. order[g] \in changes /\ order[g].old # NoRow
      BY <1>2, <2>2, <3>3, Zenon
    <3>5. findLatestDeleted(order[g].name) = order[g].old
      BY <3>4, FoundByName, Zenon
    <3>6. order[g].old \in DOMAIN rows
      BY <1>1, <3>4, Zenon DEF Change
    <3>7. old(k) = order[g].old
      BY <2>5, <3>5, Zenon DEF g
    <3>8. order[k].old # NoRow => g = k
      BY <2>1, <2>2, <2>3, <3>3
    <3> QED
      BY <3>6, <3>7, <3>8, Zenon
  <2> QED
    BY <2>4, <2>5, Zenon
<1> HIDE DEF old
<1>5. ASSUME NEW k \in 1 .. n
      PROVE  Inserted(order)[k] = [old |-> old(k), new |-> order[k].new, change |-> order[k]]
  <2>1. order[k] \in changes
    BY <1>2, Zenon
  <2>2. LiveRow(order[k].name) = order[k].new
    BY <2>1, FoundByName, Zenon
  <2> QED
    BY <1>3, <2>2, Zenon
<1>6. ASSUME NEW k \in 1 .. n
      PROVE  \E c \in changes, o \in {NoRow} \cup DOMAIN rows :
                /\ Inserted(order)[k] = [old |-> o, new |-> c.new, change |-> c]
                /\ c.old # NoRow => o = c.old
  BY <1>2, <1>4, <1>5, Zenon
<1>7. DOMAIN Inserted(order) = 1 .. n /\ Inserted(order) = [k \in 1 .. n |-> Inserted(order)[k]]
  BY <1>3
<1> QED
  BY <1>2, <1>6, <1>7, Zenon

-----------------------------------------------------------------------------
(* The client's reading.                                                    *)

\* A sequence of length n, with one element more.
Longer(u, s, n, e) == DOMAIN u = 1 .. n + 1 /\ (\A i \in 1 .. n : u[i] = s[i]) /\ u[n + 1] = e

\* What a sequence holds after an element is appended.
LEMMA AppendIs ==
    ASSUME NEW T, NEW s \in Seq(T), NEW e \in T
    PROVE  Append(s, e) \in Seq(T) /\ Longer(Append(s, e), s, Len(s), e)
BY DEF Longer

\* Where a client is between two pages (the images it is to see are listed, or
\* have an id of i or more), after the last page, and after the page it just got.
Reading(kept, pages, i) ==
    /\ Below(pages, i) /\ Increase(pages)
    /\ \A a \in kept : Listed(pages, a) \/ i <= ancestry[a].id
HaveRead(kept, pages) == Increase(pages) /\ \A a \in kept : Listed(pages, a)
ReadOn(kept, page, all) ==
    /\ all \in Seq(SUBSET (Nat \X images)) /\ page.next \in Nat /\ page.end \in BOOLEAN
    /\ page.end => HaveRead(kept, all)
    /\ ~ page.end => Reading(kept, all, page.next)

\* A page added to those before it: indexes go on increasing, and what is kept
\* is listed or is still to come.
LEMMA PageAdded ==
    ASSUME TypeOK, NEW row, NEW start \in Nat, NEW kept \in SUBSET Affected(rows, ancestry, row),
           NEW pages \in Seq(SUBSET (Nat \X images)), Reading(kept, pages, start),
           NEW page, page = findPagedVulnerableAncestries(row, start),
           NEW all, all = Append(pages, {<<ancestry[a].id, a>> : a \in page.affected})
    PROVE  ReadOn(kept, page, all)
<1> DEFINE P == {<<ancestry[a].id, a>> : a \in page.affected}
           n == Len(pages)
<1>0. /\ Below(pages, start) /\ Increase(pages)
      /\ \A a \in kept : Listed(pages, a) \/ start <= ancestry[a].id
  BY Zenon DEF Reading
<1>1. /\ page.affected \in SUBSET images /\ page.end \in BOOLEAN /\ page.next \in Nat
      /\ \A a \in page.affected : start <= ancestry[a].id
      /\ ~ page.end => start <= page.next /\ \A a \in page.affected : ancestry[a].id < page.next
      /\ \A a \in Affected(rows, ancestry, row) : start <= ancestry[a].id =>
            a \in page.affected \/ (~ page.end /\ page.next <= ancestry[a].id)
  BY PageHolds, Zenon
<1>2. \A a \in images : ancestry[a].id \in Nat
  BY DEF TypeOK
<1>3. P \in SUBSET (Nat \X images)
  BY <1>1, <1>2
<1>4. \A x \in P : \E a \in page.affected : x[1] = ancestry[a].id /\ x[2] = a
  OBVIOUS
<1>5. ASSUME NEW a \in page.affected PROVE \E x \in P : x[2] = a
  <2>1. <<ancestry[a].id, a>> \in P
    BY Zenon
  <2>2. <<ancestry[a].id, a>>[2] = a
    OBVIOUS
  <2> QED
    BY <2>1, <2>2, Zenon
<1>6. /\ n \in Nat /\ DOMAIN pages = 1 .. n
      /\ \A p \in 1 .. n : pages[p] \in SUBSET (Nat \X images)
  <2>1. /\ n \in Nat /\ DOMAIN pages = 1 .. n
        /\ \A p \in DOMAIN pages : pages[p] \in SUBSET (Nat \X images)
    BY SeqIs, Zenon
  <2> QED
    BY <2>1, Zenon
<1>7. all \in Seq(SUBSET (Nat \X images)) /\ Longer(all, pages, n, P)
  BY <1>3, AppendIs, Zenon
<1>8. DOMAIN all = 1 .. n + 1 /\ (\A p \in 1 .. n : all[p] = pages[p]) /\ all[n + 1] = P
  BY <1>7, Zenon DEF Longer
<1>9. /\ \A p \in DOMAIN all : p \in 1 .. n \/ p = n + 1
      /\ \A p \in 1 .. n : p \in DOMAIN all
      /\ n + 1 \in DOMAIN all
      /\ \A q \in DOMAIN all : ~ (n + 1 < q)
      /\ \A p, q \in DOMAIN all : p < q => p \in 1 .. n
  BY <1>6, <1>8
<1> HIDE DEF P, n
<1>10. \A x \in P : start <= x[1] /\ x[1] \in Nat
  BY <1>1, <1>2, <1>4, Zenon
<1>11. \A p \in 1 .. n : \A x \in pages[p] : x[1] < start /\ x[1] \in Nat
  <2>1. \A p \in 1 .. n : \A x \in pages[p] : x \in Nat \X images
    BY <1>6, Zenon
  <2>2. \A x \in Nat \X images : x[1] \in Nat
    OBVIOUS
  <2> QED
    BY <1>0, <1>6, <2>1, <2>2, Zenon DEF Below
<1>12. ASSUME NEW p \in DOMAIN all, NEW q \in DOMAIN all, p < q,
              NEW x \in all[p], NEW y \in all[q]
       PROVE  x[1] < y[1]
  <2>1. p \in 1 .. n /\ x \in pages[p]
    BY <1>8, <1>9, <1>12, Zenon
  <2>2. CASE q \in 1 .. n
    BY <1>0, <1>6, <1>8, <1>12, <2>1, <2>2, Zenon DEF Increase
  <2>3. CASE q = n + 1
    <3>1. x[1] < start /\ x[1] \in Nat /\ start <= y[1] /\ y[1] \in Nat
      BY <1>8, <1>10, <1>11, <1>12, <2>1, <2>3, Zenon
    <3> QED
      BY <3>1
  <2> QED
    BY <1>9, <2>2, <2>3, Zenon
<1>13. ASSUME NEW a, Listed(pages, a) PROVE Listed(all, a)
  <2>1. PICK p \in 1 .. n : \E x \in pages[p] : x[2] = a
    BY <1>6, <1>13, Zenon DEF Listed
  <2>2. p \in DOMAIN all /\ all[p] = pages[p]
    BY <1>8, <1>9, Zenon
  <2> QED
    BY <2>1, <2>2, Zenon DEF Listed
<1>14. \A a \in page.affected : Listed(all, a)
  BY <1>5, <1>8, <1>9, Zenon DEF Listed
<1>15. \A a \in kept : Listed(all, a) \/ (~ page.end /\ page.next <= ancestry[a].id)
  BY <1>0, <1>1, <1>13, <1>14, Zenon
<1>16. ASSUME ~ page.end PROVE Below(all, page.next)
  <2>1. ASSUME NEW p \in DOMAIN all, NEW x \in all[p] PROVE x[1] < page.next
    <3>1. CASE p \in 1 .. n
      <4>1. x[1] < start /\ x[1] \in Nat /\ start <= page.next /\ page.next \in Nat
        BY <1>1, <1>8, <1>11, <1>16, <2>1, <3>1, Zenon
      <4> QED
        BY <4>1
    <3>2. CASE p = n + 1
      BY <1>1, <1>4, <1>8, <1>16, <2>1, <3>2, Zenon DEF P
    <3> QED
      BY <1>9, <3>1, <3>2, Zenon
  <2> QED
    BY <2>1, Zenon DEF Below
<1>17. Increase(all)
  BY <1>12, Zenon DEF Increase
<1> QED
  BY <1>1, <1>7, <1>15, <1>16, <1>17, Zenon DEF Reading, HaveRead, ReadOn

-----------------------------------------------------------------------------
(* The steps.                                                               *)

\* The type invariant is its parts.
LEMMA TypeParts ==
    TypeOK <=> TypeUpdates /\ TypeUpserts /\ TypeReader
BY Zenon DEF TypeOK, TypeUpdates, TypeUpserts, TypeReader

\* A step that leaves the rows alone keeps their invariant.
LEMMA RowsSame ==
    ASSUME RowsInv, rows' = rows, latest' = latest, tracked' = tracked
    PROVE  RowsInv'
<1>1. \A v : Live(v)' = Live(v)
  BY Zenon DEF Live
<1>2. ReplacedByAnother'
  <2>1. ReplacedByAnother
    BY Zenon DEF RowsInv
  <2> QED
    BY <2>1 DEF ReplacedByAnother
<1> QED
  BY <1>1, <1>2, Zenon DEF RowsInv

\* A step that touches neither the tables of updates nor notifications.
LEMMA UpdatesKept ==
    ASSUME Inv, UNCHANGED <<tracked, updates, notes>>
    PROVE  TypeUpdates' /\ RowsInv' /\ ChangesInv' /\ NotifiedRows'
<1>1. /\ tracked' = tracked /\ rows' = rows /\ changes' = changes /\ upc' = upc /\ first' = first
      /\ round' = round /\ latest' = latest /\ notes' = notes
  BY Zenon DEF updates
<1>2. Change' = Change
  BY <1>1, Zenon DEF Change
<1>3. TypeUpdates'
  BY <1>1, <1>2, TypeParts, Zenon DEF Inv, TypeUpdates
<1>4. RowsInv'
  BY <1>1, RowsSame, Zenon DEF Inv
<1>5. ChangesInv' /\ NotifiedRows'
  BY <1>1, Zenon DEF Inv, ChangesInv, NotifiedRows
<1> QED
  BY <1>3, <1>4, <1>5

\* A step that reads no page: what was read stays, and an image's id may grow.
LEMMA ReaderStill ==
    ASSUME Inv, images' = images,
           reader'.note = reader.note, reader'.side = reader.side, reader'.start = reader.start,
           reader'.pages = reader.pages, reader'.done = reader.done,
           reader'.kept \subseteq reader.kept,
           reader.note = 0 => reader' = NoReader,
           reader.note # 0 /\ ~ reader.done => reader'.kept \subseteq Affected(rows', ancestry', ReadRow),
           \A n \in DOMAIN notes : notes'[n] = notes[n],
           \A a \in images : ancestry[a].id <= ancestry'[a].id /\ ancestry'[a].id \in Nat,
           \A a \in images : upserting'[a] # NoAncestry => ancestry'[a].id < upserting'[a].id
    PROVE  ReaderInv'
<1>1. /\ reader.note \in {0} \cup DOMAIN notes /\ reader.start \in Nat
      /\ reader.kept \in SUBSET images
  BY TypeParts DEF Inv, TypeReader
<1>2. \A a \in images : ancestry[a].id \in Nat
  BY TypeParts DEF Inv, TypeUpserts
<1>3. reader.note # 0 => ReadRow' = ReadRow
  <2>1. reader.note # 0 => notes'[reader.note] = notes[reader.note]
    BY <1>1, Zenon
  <2> QED
    BY <2>1, Zenon DEF ReadRow
<1>4. ASSUME reader.note # 0, ~ reader.done
      PROVE  /\ Below(reader'.pages, reader'.start)
             /\ reader'.kept \subseteq Affected(rows', ancestry', ReadRow')
             /\ \A a \in reader'.kept : Listed(reader'.pages, a) \/ reader'.start <= ancestry'[a].id
  <2>1. /\ Below(reader.pages, reader.start)
        /\ \A a \in reader.kept : Listed(reader.pages, a) \/ reader.start <= ancestry[a].id
    BY <1>4, Zenon DEF Inv, ReaderInv
  <2>2. ASSUME NEW a \in images, reader.start <= ancestry[a].id PROVE reader.start <= ancestry'[a].id
    BY <1>1, <1>2, <2>2
  <2>3. \A a \in reader'.kept : a \in reader.kept /\ a \in images
    BY <1>1, Zenon
  <2>4. \A a \in reader'.kept : Listed(reader.pages, a) \/ reader.start <= ancestry'[a].id
    BY <2>1, <2>2, <2>3, Zenon
  <2> QED
    BY <1>3, <1>4, <2>1, <2>4, Zenon
<1>5. PagesIncrease' /\ NothingMissed'
  <2>1. Increase(reader.pages) /\ (reader.done => \A a \in reader.kept : Listed(reader.pages, a))
    BY Zenon DEF Inv, ReaderInv, PagesIncrease, NothingMissed, Increase, Listed
  <2>2. Increase(reader'.pages) /\ (reader'.done => \A a \in reader'.kept : Listed(reader'.pages, a))
    BY <2>1, Zenon
  <2> QED
    BY <2>2, Zenon DEF PagesIncrease, NothingMissed, Increase, Listed
<1>6. reader'.note = 0 => reader' = NoReader
  BY Zenon
<1>7. \A a \in images' : upserting'[a] # NoAncestry => ancestry'[a].id < upserting'[a].id
  BY Zenon
<1>8. reader'.note # 0 /\ ~ reader'.done => reader.note # 0 /\ ~ reader.done
  BY Zenon
<1> QED
  BY <1>4, <1>5, <1>6, <1>7, <1>8, Zenon DEF ReaderInv

\* What StillAffected changes of the reader.
LEMMA StillIs ==
    ASSUME Inv, NEW table, NEW ims, NEW r, r = StillAffected(table, ims)
    PROVE  /\ r.note = reader.note /\ r.side = reader.side /\ r.start = reader.start
           /\ r.pages = reader.pages /\ r.done = reader.done /\ r.kept \subseteq reader.kept
           /\ reader.note = 0 => r = NoReader
           /\ reader.note # 0 /\ ~ reader.done => r.kept \subseteq Affected(table, ims, ReadRow)
           /\ r \in [note : {0} \cup DOMAIN notes, side : {"old", "new"}, start : Nat,
                     pages : Seq(SUBSET (Nat \X images)), kept : SUBSET images, done : BOOLEAN]
<1> DEFINE R == [note : {0} \cup DOMAIN notes, side : {"old", "new"}, start : Nat,
                 pages : Seq(SUBSET (Nat \X images)), kept : SUBSET images, done : BOOLEAN]
           A == Affected(table, ims, ReadRow)
<1>1. reader \in R /\ (reader.note = 0 => reader = NoReader)
  BY TypeParts, Zenon DEF Inv, TypeReader, ReaderInv
<1>2. CASE reader.done
  BY <1>1, <1>2, Zenon DEF StillAffected, NoReader
<1>3. CASE ~ reader.done
  <2>1. r = [reader EXCEPT !.kept = reader.kept \cap A]
    BY <1>3, Zenon DEF StillAffected
  <2> HIDE DEF A
  <2>2. /\ r.note = reader.note /\ r.side = reader.side /\ r.start = reader.start
        /\ r.pages = reader.pages /\ r.done = reader.done /\ r.kept = reader.kept \cap A
        /\ r \in R
    BY <1>1, <2>1
  <2>3. reader.note = 0 => r = NoReader
    <3>1. reader = NoReader => reader.kept \cap A = reader.kept
      BY DEF NoReader
    <3>2. [reader EXCEPT !.kept = reader.kept] = reader
      BY <1>1
    <3> QED
      BY <1>1, <2>1, <3>1, <3>2, Zenon
  <2> QED
    BY <2>2, <2>3, Zenon DEF A
<1> QED
  BY <1>2, <1>3

\* updateVulnerabilities keeps the invariant.
LEMMA UpdateKeeps ==
    ASSUME Inv, NEW known \in SUBSET tracked, NEW batch \in [known -> Contents],
           UpdateVulnerabilities(batch)
    PROVE  Inv'
<1>0. TypeOK /\ RowsInv /\ TypeUpdates /\ TypeUpserts /\ TypeReader
  BY TypeParts, Zenon DEF Inv
<1>1. /\ UNCHANGED <<tracked, images, notes, first, ancestry, upserting, nextId>>
      /\ upc' = "notify" /\ round' = round + 1
      /\ latest' = [v \in tracked |-> IF v \in DOMAIN batch THEN batch[v] ELSE latest[v]]
      /\ reader' = StillAffected(rows', ancestry)
  BY Zenon DEF UpdateVulnerabilities, upserts
<1>2. RowsInv'
  BY <1>0, RowsUpdated, Zenon
<1>3. ChangesInv' /\ changes' \subseteq Change'
  BY <1>0, ChangesUpdated, Zenon
<1>4. NotifiedRows'
  BY <1>1, Zenon DEF Inv, NotifiedRows
<1>5. TypeUpdates'
  <2>1. /\ IsFiniteSet(changes')
        /\ rows' \in Seq([name : tracked, content : Contents, deleted : 0 .. round + 1])
    BY <1>0, RowsStored, Zenon
  <2>2. round' \in Nat /\ IsFiniteSet(tracked') /\ upc' \in {"idle", "notify"} /\ first' \in BOOLEAN
    <3>1. round + 1 \in Nat
      BY <1>0 DEF TypeUpdates
    <3> QED
      BY <1>0, <1>1, <3>1, Zenon DEF TypeUpdates
  <2>3. latest' \in [tracked -> Contents \cup {NoContent}]
    <3>1. latest \in [tracked -> Contents \cup {NoContent}]
      BY <1>0, Zenon DEF TypeUpdates
    <3>2. \A v \in tracked : (IF v \in DOMAIN batch THEN batch[v] ELSE latest[v]) \in Contents \cup {NoContent}
      BY <3>1, Zenon
    <3> QED
      BY <1>1, <3>2, Zenon
  <2>4. \A i \in DOMAIN rows : i \in DOMAIN rows'
    <3>1. PICK order, n : RowsAfter(batch, order, n)
      BY <1>0, RowsStored, Zenon
    <3>2. Len(rows) \in Nat /\ n \in Nat /\ DOMAIN rows = 1 .. Len(rows) /\ DOMAIN rows' = 1 .. Len(rows) + n
      BY <3>1, Zenon DEF RowsAfter
    <3> QED
      BY <3>2, PlacesAfter, Zenon
  <2>5. notes' \in Seq([old : {NoRow} \cup DOMAIN rows', new : DOMAIN rows', change : Change'])
    <3> DEFINE Old == [old : {NoRow} \cup DOMAIN rows, new : DOMAIN rows, change : Change]
               New == [old : {NoRow} \cup DOMAIN rows', new : DOMAIN rows', change : Change']
    <3>1. Change \subseteq Change'
      BY <1>1, <2>4 DEF Change
    <3>2. Old \subseteq New
      BY <2>4, <3>1
    <3>3. notes \in Seq(Old)
      BY <1>0, Zenon DEF TypeUpdates
    <3> HIDE DEF Old, New
    <3>4. notes \in Seq(New)
      BY <3>2, <3>3
    <3> QED
      BY <1>1, <3>4, Zenon DEF New
  <2> QED
    BY <1>1, <1>3, <2>1, <2>2, <2>3, <2>5, Zenon DEF TypeUpdates
<1>6. TypeUpserts'
  BY <1>0, <1>1, Zenon DEF TypeUpserts
<1>7. TypeReader' /\ ReaderInv'
  <2>1. /\ reader'.note = reader.note /\ reader'.side = reader.side /\ reader'.start = reader.start
        /\ reader'.pages = reader.pages /\ reader'.done = reader.done /\ reader'.kept \subseteq reader.kept
        /\ reader.note = 0 => reader' = NoReader
        /\ reader.note # 0 /\ ~ reader.done => reader'.kept \subseteq Affected(rows', ancestry, ReadRow)
        /\ reader' \in [note : {0} \cup DOMAIN notes, side : {"old", "new"}, start : Nat,
                     pages : Seq(SUBSET (Nat \X images)), kept : SUBSET images, done : BOOLEAN]
    BY <1>1, StillIs
  <2>2. \A a \in images : ancestry[a].id <= ancestry[a].id /\ ancestry[a].id \in Nat
    BY <1>0 DEF TypeUpserts
  <2>3. \A a \in images : upserting'[a] # NoAncestry => ancestry'[a].id < upserting'[a].id
    BY <1>1, Zenon DEF Inv, ReaderInv
  <2>4. ReaderInv'
    BY <1>1, <2>1, <2>2, <2>3, ReaderStill, Zenon
  <2> QED
    BY <1>1, <2>1, <2>4, Zenon DEF TypeReader
<1> QED
  BY <1>2, <1>3, <1>4, <1>5, <1>6, <1>7, TypeParts, PTL DEF Inv

\* The end of an update keeps what the rows satisfy and forgets the changes.
LEMMA EndKeeps ==
    ASSUME Inv, EndUpdate
    PROVE  /\ RowsInv' /\ ChangesInv' /\ TypeUpserts'
           /\ TypeUpdates' <=>
                /\ notes' \in Seq([old : {NoRow} \cup DOMAIN rows, new : DOMAIN rows, change : Change])
                /\ first' \in BOOLEAN
           /\ DOMAIN notes \subseteq DOMAIN notes' => TypeReader'
           /\ (\A n \in DOMAIN notes : notes'[n] = notes[n]) => ReaderInv'
<1>0. TypeOK /\ RowsInv /\ TypeUpdates /\ TypeUpserts /\ TypeReader
  BY TypeParts, Zenon DEF Inv
<1>1. /\ UNCHANGED <<tracked, images, rows, round, latest, ancestry, upserting, nextId, reader>>
      /\ upc' = "idle" /\ changes' = {}
  BY Zenon DEF EndUpdate, upserts
<1>2. RowsInv'
  BY <1>0, <1>1, RowsSame, Zenon
<1>3. ChangesInv'
  BY <1>1, Zenon DEF ChangesInv
<1>4. TypeUpserts'
  BY <1>0, <1>1, Zenon DEF TypeUpserts
<1>5. TypeUpdates' <=>
        /\ notes' \in Seq([old : {NoRow} \cup DOMAIN rows, new : DOMAIN rows, change : Change])
        /\ first' \in BOOLEAN
  <2>1. Change' = Change
    BY <1>1, Zenon DEF Change
  <2>2. IsFiniteSet({})
    BY FS_EmptySet, Zenon
  <2> QED
    BY <1>0, <1>1, <2>1, <2>2, Zenon DEF TypeUpdates
<1>6. ASSUME DOMAIN notes \subseteq DOMAIN notes' PROVE TypeReader'
  <2>1. reader \in [note : {0} \cup DOMAIN notes', side : {"old", "new"}, start : Nat,
                    pages : Seq(SUBSET (Nat \X images)), kept : SUBSET images, done : BOOLEAN]
    BY <1>0, <1>6 DEF TypeReader
  <2> QED
    BY <1>1, <2>1, Zenon DEF TypeReader
<1>7. ASSUME \A n \in DOMAIN notes : notes'[n] = notes[n] PROVE ReaderInv'
  <2>1. \A a \in images : ancestry[a].id <= ancestry[a].id /\ ancestry[a].id \in Nat
    BY <1>0 DEF TypeUpserts
  <2>2. /\ \A a \in images : upserting[a] # NoAncestry => ancestry[a].id < upserting[a].id
        /\ reader.note = 0 => reader = NoReader
        /\ reader.note # 0 /\ ~ reader.done => reader.kept \subseteq Affected(rows, ancestry, ReadRow)
    BY Zenon DEF Inv, ReaderInv
  <2> QED
    BY <1>1, <1>7, <2>1, <2>2, ReaderStill, Zenon
<1> QED
  BY <1>2, <1>3, <1>4, <1>5, <1>6, <1>7

\* createVulnerabilityNotifications keeps the invariant.
LEMMA CreateKeeps ==
    ASSUME Inv, CreateNotifications
    PROVE  Inv'
<1> DEFINE Note == [old : {NoRow} \cup DOMAIN rows, new : DOMAIN rows, change : Change]
<1>0. /\ TypeOK /\ RowsInv /\ ChangesInv /\ NotifiedRows /\ notes \in Seq(Note)
      /\ changes \subseteq Change
  BY TypeParts, Zenon DEF Inv, TypeUpdates
<1>1. EndUpdate /\ first' = FALSE
  BY Zenon DEF CreateNotifications
<1>2. CASE notes' = notes
  <2>1. NotifiedRows'
    BY <1>0, <1>2, Zenon DEF NotifiedRows
  <2>2. RowsInv' /\ ChangesInv' /\ TypeUpserts' /\ TypeUpdates' /\ TypeReader' /\ ReaderInv'
    BY <1>0, <1>1, <1>2, EndKeeps, Zenon
  <2> QED
    BY <2>1, <2>2, TypeParts, PTL DEF Inv
<1>3. ASSUME NEW order \in Orders(changes), notes' = notes \o Inserted(order)
      PROVE  Inv'
  <2> DEFINE n == Cardinality(changes)
             added == Inserted(order)
  <2>1. /\ n \in Nat /\ DOMAIN added = 1 .. n /\ added = [k \in 1 .. n |-> added[k]]
        /\ \A k \in 1 .. n : \E c \in changes, o \in {NoRow} \cup DOMAIN rows :
                /\ added[k] = [old |-> o, new |-> c.new, change |-> c]
                /\ c.old # NoRow => o = c.old
    BY <1>0, InsertedIs, Zenon
  <2> HIDE DEF n, added
  <2>2. ASSUME NEW k \in 1 .. n
        PROVE  /\ added[k] \in Note /\ added[k].new = added[k].change.new
               /\ added[k].change.old # NoRow => added[k].old = added[k].change.old
    <3>1. PICK c \in changes, o \in {NoRow} \cup DOMAIN rows :
                /\ added[k] = [old |-> o, new |-> c.new, change |-> c]
                /\ c.old # NoRow => o = c.old
      BY <2>1, Zenon
    <3>2. c \in Change /\ c.new \in DOMAIN rows
      BY <1>0, Zenon DEF Change
    <3>3. added[k].old = o /\ added[k].new = c.new /\ added[k].change = c
      BY <3>1
    <3>4. added[k] \in Note
      BY <3>1, <3>2
    <3> QED
      BY <3>1, <3>3, <3>4, Zenon
  <2>3. added \in [1 .. n -> Note]
    BY <2>1, <2>2
  <2> HIDE DEF Note
  <2>4. added \in Seq(Note) /\ Len(added) = n
    BY <2>1, <2>3, SeqOf, Zenon
  <2>5. notes' \in Seq(Note) /\ Joins(notes', notes, Len(notes), added, n)
    BY <1>0, <1>3, <2>4, ConcatIs, Zenon DEF added
  <2>6. Len(notes) \in Nat /\ DOMAIN notes = 1 .. Len(notes)
    BY <1>0, SeqIs, Zenon
  <2>7. /\ DOMAIN notes' = 1 .. Len(notes) + n
        /\ \A i \in 1 .. Len(notes) : notes'[i] = notes[i]
        /\ \A k \in 1 .. n : notes'[Len(notes) + k] = added[k]
    BY <2>5, Zenon DEF Joins
  <2>8. /\ \A i \in 1 .. Len(notes) + n : i \in 1 .. Len(notes) \/ \E k \in 1 .. n : i = Len(notes) + k
        /\ \A i \in 1 .. Len(notes) : i \in 1 .. Len(notes) + n
    BY <2>1, <2>6, PlacesAfter
  <2>9. DOMAIN notes \subseteq DOMAIN notes'
    BY <2>6, <2>7, <2>8, Zenon
  <2>10. NotifiedRows'
    <3>1. ASSUME NEW i \in DOMAIN notes'
          PROVE  /\ notes'[i].new = notes'[i].change.new
                 /\ notes'[i].change.old # NoRow => notes'[i].old = notes'[i].change.old
      <4>1. CASE i \in 1 .. Len(notes)
        BY <1>0, <2>6, <2>7, <4>1, Zenon DEF NotifiedRows
      <4>2. ASSUME NEW k \in 1 .. n, i = Len(notes) + k
            PROVE  notes'[i] = added[k]
        BY <2>7, <4>2, Zenon
      <4>3. i \in 1 .. Len(notes) \/ \E k \in 1 .. n : i = Len(notes) + k
        BY <2>7, <2>8, Zenon
      <4> QED
        BY <2>2, <4>1, <4>2, <4>3, Zenon
    <3> QED
      BY <3>1, Zenon DEF NotifiedRows
  <2>11. first' \in BOOLEAN
    BY <1>1, Zenon
  <2>12. \A i \in DOMAIN notes : notes'[i] = notes[i]
    BY <2>6, <2>7, Zenon
  <2>13. RowsInv' /\ ChangesInv' /\ TypeUpserts' /\ TypeUpdates' /\ TypeReader' /\ ReaderInv'
    BY <1>1, <2>5, <2>9, <2>11, <2>12, EndKeeps, Zenon DEF Note
  <2> QED
    BY <2>10, <2>13, TypeParts, PTL DEF Inv
<1> QED
  BY <1>2, <1>3, Zenon DEF CreateNotifications

\* An update that fails, or a process that dies, keeps the invariant.
LEMMA FailKeeps ==
    ASSUME Inv, UpdateFailed
    PROVE  Inv'
<1>0. /\ TypeOK /\ NotifiedRows /\ first \in BOOLEAN
      /\ notes \in Seq([old : {NoRow} \cup DOMAIN rows, new : DOMAIN rows, change : Change])
  BY TypeParts, Zenon DEF Inv, TypeUpdates
<1>1. EndUpdate /\ first' = first /\ notes' = notes
  BY Zenon DEF UpdateFailed
<1>2. NotifiedRows'
  BY <1>0, <1>1, Zenon DEF NotifiedRows
<1>3. RowsInv' /\ ChangesInv' /\ TypeUpserts' /\ TypeUpdates' /\ TypeReader' /\ ReaderInv'
  BY <1>0, <1>1, EndKeeps, Zenon
<1> QED
  BY <1>2, <1>3, TypeParts, PTL DEF Inv

\* UpsertAncestry, until it commits, keeps the invariant: the id that it takes is
\* above all that were taken.
LEMMA UpsertKeeps ==
    ASSUME Inv, NEW a \in images, NEW fs \in FeatureSets, UpsertAncestry(a, fs)
    PROVE  Inv'
<1>0. TypeUpserts /\ TypeReader
  BY TypeParts, Zenon DEF Inv
<1>1. /\ UNCHANGED <<tracked, images, updates, notes, ancestry, reader>>
      /\ upserting' = [upserting EXCEPT ![a] = [id |-> nextId, features |-> fs]]
      /\ nextId' = nextId + 1
  BY Zenon DEF UpsertAncestry
<1>2. TypeUpdates' /\ RowsInv' /\ ChangesInv' /\ NotifiedRows'
  BY <1>1, UpdatesKept, Zenon
<1>3. /\ TypeUpserts' /\ \A b \in images : ancestry[b].id \in Nat /\ ancestry[b].id < nextId
  <2> DEFINE Old == [id : 0 .. nextId - 1, features : FeatureSets \cup {{}}]
             New == [id : 0 .. nextId' - 1, features : FeatureSets \cup {{}}]
  <2>1. ancestry \in [images -> Old] /\ upserting \in [images -> Old] /\ nextId \in Nat
    BY <1>0, Zenon DEF TypeUpserts
  <2>2. Old \subseteq New /\ [id |-> nextId, features |-> fs] \in New /\ nextId' \in Nat
    BY <1>1, <2>1
  <2>3. \A b \in images : ancestry[b].id \in Nat /\ ancestry[b].id < nextId
    BY <2>1
  <2> HIDE DEF Old, New
  <2>4. ancestry \in [images -> New] /\ upserting' \in [images -> New]
    BY <1>1, <2>1, <2>2
  <2> QED
    BY <1>1, <2>2, <2>3, <2>4, Zenon DEF TypeUpserts, New
<1>4. TypeReader'
  BY <1>0, <1>1, Zenon DEF TypeReader
<1>5. ReaderInv'
  <2>1. /\ \A b \in images : upserting[b] # NoAncestry => ancestry[b].id < upserting[b].id
        /\ reader.note = 0 => reader = NoReader
        /\ reader.note # 0 /\ ~ reader.done => reader.kept \subseteq Affected(rows, ancestry, ReadRow)
    BY Zenon DEF Inv, ReaderInv
  <2>2. \A b \in images : upserting'[b] = IF b = a THEN [id |-> nextId, features |-> fs] ELSE upserting[b]
    <3>1. DOMAIN upserting = images
      BY <1>0 DEF TypeUpserts
    <3> QED
      BY <1>1, <3>1, Zenon
  <2>3. upserting'[a].id = nextId
    BY <2>2
  <2>4. \A b \in images : upserting'[b] # NoAncestry => ancestry[b].id < upserting'[b].id
    BY <1>3, <2>1, <2>2, <2>3, Zenon
  <2>5. \A b \in images : ancestry[b].id <= ancestry[b].id
    BY <1>3
  <2>6. rows' = rows
    BY <1>1, Zenon DEF updates
  <2> QED
    BY <1>1, <1>3, <2>1, <2>4, <2>5, <2>6, ReaderStill, Zenon
<1> QED
  BY <1>2, <1>3, <1>4, <1>5, TypeParts, PTL DEF Inv

\* The commit of UpsertAncestry keeps the invariant: an image's id only grows.
LEMMA CommitKeeps ==
    ASSUME Inv, NEW a \in images, CommitUpsert(a)
    PROVE  Inv'
<1>0. TypeUpserts /\ TypeReader
  BY TypeParts, Zenon DEF Inv
<1>1. /\ UNCHANGED <<tracked, images, updates, notes, nextId>>
      /\ upserting[a] # NoAncestry
      /\ ancestry' = [ancestry EXCEPT ![a] = upserting[a]]
      /\ upserting' = [upserting EXCEPT ![a] = NoAncestry]
      /\ reader' = StillAffected(rows, ancestry')
  BY Zenon DEF CommitUpsert
<1>2. TypeUpdates' /\ RowsInv' /\ ChangesInv' /\ NotifiedRows'
  BY <1>1, UpdatesKept, Zenon
<1>3. \A b \in images : upserting[b] # NoAncestry => ancestry[b].id < upserting[b].id
  BY Zenon DEF Inv, ReaderInv
<1> DEFINE A == [id : 0 .. nextId - 1, features : FeatureSets \cup {{}}]
<1>4. ancestry \in [images -> A] /\ upserting \in [images -> A] /\ nextId \in Nat
  BY <1>0, Zenon DEF TypeUpserts
<1>5. NoAncestry \in A /\ \A x \in A : x.id \in Nat
  <2>1. upserting[a] \in A
    BY <1>4, Zenon
  <2>2. 0 \in 0 .. nextId - 1
    BY <1>4, <2>1
  <2> QED
    BY <1>4, <2>2 DEF NoAncestry, NoRow
<1> HIDE DEF A
<1>6. ancestry' \in [images -> A] /\ upserting' \in [images -> A]
  BY <1>1, <1>4, <1>5
<1>7. TypeUpserts'
  BY <1>1, <1>4, <1>6, Zenon DEF TypeUpserts, A
<1>8. /\ \A b \in images : ancestry'[b] = IF b = a THEN upserting[a] ELSE ancestry[b]
      /\ \A b \in images : upserting'[b] = IF b = a THEN NoAncestry ELSE upserting[b]
  BY <1>1, <1>4, Zenon
<1>9. ASSUME NEW b \in images
      PROVE  /\ ancestry[b].id <= ancestry'[b].id /\ ancestry'[b].id \in Nat
             /\ upserting'[b] # NoAncestry => ancestry'[b].id < upserting'[b].id
  <2>1. ancestry[b].id \in Nat /\ upserting[b].id \in Nat
    BY <1>4, <1>5, Zenon
  <2>2. CASE b = a
    <3>1. ancestry[b].id < upserting[b].id /\ ancestry'[b] = upserting[b] /\ upserting'[b] = NoAncestry
      BY <1>1, <1>3, <1>8, <2>2, Zenon
    <3> QED
      BY <2>1, <3>1
  <2>3. CASE b # a
    <3>1. ancestry'[b] = ancestry[b] /\ upserting'[b] = upserting[b]
      BY <1>8, <2>3, Zenon
    <3> QED
      BY <1>3, <2>1, <3>1
  <2> QED
    BY <2>2, <2>3, Zenon
<1>10. TypeReader' /\ ReaderInv'
  <2>1. /\ reader'.note = reader.note /\ reader'.side = reader.side /\ reader'.start = reader.start
        /\ reader'.pages = reader.pages /\ reader'.done = reader.done /\ reader'.kept \subseteq reader.kept
        /\ reader.note = 0 => reader' = NoReader
        /\ reader.note # 0 /\ ~ reader.done => reader'.kept \subseteq Affected(rows, ancestry', ReadRow)
        /\ reader' \in [note : {0} \cup DOMAIN notes, side : {"old", "new"}, start : Nat,
                     pages : Seq(SUBSET (Nat \X images)), kept : SUBSET images, done : BOOLEAN]
    BY <1>1, StillIs
  <2>2. rows' = rows
    BY <1>1, Zenon DEF updates
  <2>3. ReaderInv'
    BY <1>1, <1>9, <2>1, <2>2, ReaderStill, Zenon
  <2> QED
    BY <1>1, <2>1, <2>3, Zenon DEF TypeReader
<1> QED
  BY <1>2, <1>7, <1>10, TypeParts, PTL DEF Inv

\* A transaction of UpsertAncestry that is rolled back keeps the invariant.
LEMMA RollbackKeeps ==
    ASSUME Inv, NEW a \in images, RollbackUpsert(a)
    PROVE  Inv'
<1>0. TypeUpserts /\ TypeReader
  BY TypeParts, Zenon DEF Inv
<1>1. /\ UNCHANGED <<tracked, images, updates, notes, ancestry, nextId, reader>>
      /\ upserting' = [upserting EXCEPT ![a] = NoAncestry]
  BY Zenon DEF RollbackUpsert
<1>2. TypeUpdates' /\ RowsInv' /\ ChangesInv' /\ NotifiedRows'
  BY <1>1, UpdatesKept, Zenon
<1> DEFINE A == [id : 0 .. nextId - 1, features : FeatureSets \cup {{}}]
<1>3. ancestry \in [images -> A] /\ upserting \in [images -> A] /\ nextId \in Nat
  BY <1>0, Zenon DEF TypeUpserts
<1>4. NoAncestry \in A /\ \A x \in A : x.id \in Nat
  <2>1. upserting[a] \in A
    BY <1>3, Zenon
  <2>2. 0 \in 0 .. nextId - 1
    BY <1>3, <2>1
  <2> QED
    BY <1>3, <2>2 DEF NoAncestry, NoRow
<1> HIDE DEF A
<1>5. upserting' \in [images -> A]
  BY <1>1, <1>3, <1>4
<1>6. TypeUpserts'
  BY <1>1, <1>3, <1>5, Zenon DEF TypeUpserts, A
<1>7. TypeReader'
  BY <1>0, <1>1, Zenon DEF TypeReader
<1>8. ReaderInv'
  <2>1. /\ \A b \in images : upserting[b] # NoAncestry => ancestry[b].id < upserting[b].id
        /\ reader.note = 0 => reader = NoReader
        /\ reader.note # 0 /\ ~ reader.done => reader.kept \subseteq Affected(rows, ancestry, ReadRow)
    BY Zenon DEF Inv, ReaderInv
  <2>2. \A b \in images : upserting'[b] = IF b = a THEN NoAncestry ELSE upserting[b]
    BY <1>1, <1>3, Zenon
  <2>3. \A b \in images : upserting'[b] # NoAncestry => ancestry[b].id < upserting'[b].id
    BY <2>1, <2>2, Zenon
  <2>4. \A b \in images : ancestry[b].id <= ancestry[b].id /\ ancestry[b].id \in Nat
    BY <1>3, <1>4
  <2>5. rows' = rows
    BY <1>1, Zenon DEF updates
  <2> QED
    BY <1>1, <2>1, <2>3, <2>4, <2>5, ReaderStill, Zenon
<1> QED
  BY <1>2, <1>6, <1>7, <1>8, TypeParts, PTL DEF Inv

\* A step of the client alone keeps the invariant if it keeps the client's part.
LEMMA ClientStep ==
    ASSUME Inv, UNCHANGED <<tracked, images, updates, notes, upserts>>, TypeReader',
           reader'.note = 0 => reader' = NoReader,
           reader'.note = 0 => Increase(reader'.pages),
           reader'.note # 0 /\ ~ reader'.done =>
              /\ Reading(reader'.kept, reader'.pages, reader'.start)
              /\ reader'.kept \subseteq Affected(rows, ancestry, ReadRow'),
           reader'.done => HaveRead(reader'.kept, reader'.pages)
    PROVE  Inv'
<1>1. TypeUpdates' /\ RowsInv' /\ ChangesInv' /\ NotifiedRows'
  BY UpdatesKept, Zenon
<1>2. rows' = rows /\ images' = images /\ ancestry' = ancestry /\ upserting' = upserting /\ nextId' = nextId
  BY Zenon DEF updates, upserts
<1>3. TypeUpserts'
  BY <1>2, TypeParts, Zenon DEF Inv, TypeUpserts
<1>4. PagesIncrease' /\ NothingMissed'
  <2>1. Increase(reader'.pages) /\ (reader'.done => \A a \in reader'.kept : Listed(reader'.pages, a))
    BY Zenon DEF Reading, HaveRead
  <2> QED
    BY <2>1, Zenon DEF PagesIncrease, NothingMissed, Increase, Listed
<1>5. \A a \in images : upserting[a] # NoAncestry => ancestry[a].id < upserting[a].id
  BY Zenon DEF Inv, ReaderInv
<1>6. ReaderInv'
  BY <1>2, <1>4, <1>5, Zenon DEF ReaderInv, Reading
<1> QED
  BY <1>1, <1>3, <1>6, TypeParts, PTL DEF Inv

\* The images that a row affects are among those that are posted.
LEMMA AffectedIs ==
    ASSUME TypeUpserts, NEW row
    PROVE  Affected(rows, ancestry, row) \in SUBSET images
<1>1. DOMAIN ancestry = images
  BY DEF TypeUpserts
<1> QED
  BY <1>1, Zenon DEF Affected

\* The first page keeps the invariant.
LEMMA FirstKeeps ==
    ASSUME Inv, NEW n \in DOMAIN notes, NEW side \in {"old", "new"}, ReadFirstPage(n, side)
    PROVE  Inv'
<1> DEFINE row == notes[n][side]
           kept == Affected(rows, ancestry, row)
           page == findPagedVulnerableAncestries(row, 0)
           P == {<<ancestry[a].id, a>> : a \in page.affected}
           all == Append(<<>>, P)
<1>0. TypeOK /\ TypeUpserts /\ notes \in Seq([old : {NoRow} \cup DOMAIN rows, new : DOMAIN rows, change : Change])
  BY TypeParts, Zenon DEF Inv, TypeUpdates
<1>1. /\ UNCHANGED <<tracked, images, updates, notes, upserts>>
      /\ reader' = [note |-> n, side |-> side, start |-> page.next, done |-> page.end,
                    pages |-> <<P>>, kept |-> kept]
  BY Zenon DEF ReadFirstPage
<1>2. kept \in SUBSET images /\ kept \in SUBSET Affected(rows, ancestry, row)
  BY <1>0, AffectedIs, Zenon
<1>3. n # 0
  <2>1. Len(notes) \in Nat /\ DOMAIN notes = 1 .. Len(notes)
    BY <1>0, SeqIs, Zenon
  <2> QED
    BY <2>1
<1>4. 0 \in Nat /\ \A a \in kept : 0 <= ancestry[a].id
  <2>1. \A a \in images : ancestry[a].id \in Nat
    BY <1>0 DEF TypeUpserts
  <2>2. \A i \in Nat : 0 <= i
    OBVIOUS
  <2> QED
    BY <1>2, <2>1, <2>2
<1> HIDE DEF kept, page, P, row
<1>5. <<>> \in Seq(SUBSET (Nat \X images)) /\ DOMAIN <<>> = {} /\ <<P>> = all
  OBVIOUS
<1>6. Reading(kept, <<>>, 0)
  BY <1>4, <1>5, Zenon DEF Reading, Below, Increase
<1>7. /\ all \in Seq(SUBSET (Nat \X images)) /\ page.next \in Nat /\ page.end \in BOOLEAN
      /\ page.end => HaveRead(kept, all)
      /\ ~ page.end => Reading(kept, all, page.next)
  <2>1. ReadOn(kept, page, all)
    BY <1>0, <1>2, <1>4, <1>5, <1>6, PageAdded, Zenon DEF page, P
  <2> QED
    BY <2>1, Zenon DEF ReadOn
<1> HIDE DEF all
<1>8. /\ reader'.note = n /\ reader'.side = side /\ reader'.start = page.next
      /\ reader'.pages = all /\ reader'.kept = kept
  BY <1>1, <1>5
<1>9. reader'.done = page.end
  BY <1>1, Zenon
<1>10. TypeReader'
  <2>1. reader' \in [note : {0} \cup DOMAIN notes, side : {"old", "new"}, start : Nat,
                     pages : Seq(SUBSET (Nat \X images)), kept : SUBSET images, done : BOOLEAN]
    BY <1>1, <1>2, <1>5, <1>7, Zenon
  <2> QED
    BY <1>1, <2>1, Zenon DEF TypeReader
<1>11. ReadRow' = row
  BY <1>1, <1>3, <1>8, Zenon DEF ReadRow, row
<1>12. kept = Affected(rows, ancestry, row)
  BY Zenon DEF kept
<1> QED
  BY <1>1, <1>3, <1>7, <1>8, <1>9, <1>10, <1>11, <1>12, ClientStep, Zenon

\* A further page keeps the invariant.
LEMMA NextKeeps ==
    ASSUME Inv, ReadNextPage
    PROVE  Inv'
<1> DEFINE page == findPagedVulnerableAncestries(ReadRow, reader.start)
           P == {<<ancestry[a].id, a>> : a \in page.affected}
           all == Append(reader.pages, P)
           R == [note : {0} \cup DOMAIN notes, side : {"old", "new"}, start : Nat,
                 pages : Seq(SUBSET (Nat \X images)), kept : SUBSET images, done : BOOLEAN]
<1>0. TypeOK /\ reader \in R
  BY TypeParts, Zenon DEF Inv, TypeReader
<1>1. /\ UNCHANGED <<tracked, images, updates, notes, upserts>>
      /\ reader.note # 0 /\ ~ reader.done
      /\ reader' = [reader EXCEPT !.start = page.next, !.done = page.end, !.pages = all]
  BY Zenon DEF ReadNextPage
<1>2. /\ Reading(reader.kept, reader.pages, reader.start)
      /\ reader.kept \subseteq Affected(rows, ancestry, ReadRow)
  BY <1>1, Zenon DEF Inv, ReaderInv, PagesIncrease, Increase, Reading
<1>3. reader.start \in Nat /\ reader.pages \in Seq(SUBSET (Nat \X images))
  BY <1>0, Zenon
<1> HIDE DEF page, P
<1>4. /\ all \in Seq(SUBSET (Nat \X images)) /\ page.next \in Nat /\ page.end \in BOOLEAN
      /\ page.end => HaveRead(reader.kept, all)
      /\ ~ page.end => Reading(reader.kept, all, page.next)
  <2>1. /\ page = findPagedVulnerableAncestries(ReadRow, reader.start)
        /\ all = Append(reader.pages, {<<ancestry[a].id, a>> : a \in page.affected})
        /\ reader.kept \in SUBSET Affected(rows, ancestry, ReadRow)
    BY <1>2, Zenon DEF page, P
  <2>2. TypeOK
    BY <1>0, Zenon
  <2>3. Reading(reader.kept, reader.pages, reader.start)
    BY <1>2, Zenon
  <2> HIDE DEF all
  <2>4. ReadOn(reader.kept, page, all)
    BY <1>3, <2>1, <2>2, <2>3, PageAdded, Zenon
  <2> QED
    BY <2>4, Zenon DEF ReadOn
<1> HIDE DEF all
<1>5. /\ reader'.note = reader.note /\ reader'.side = reader.side /\ reader'.start = page.next
      /\ reader'.pages = all /\ reader'.kept = reader.kept /\ reader' \in R
  BY <1>0, <1>1, <1>4, Zenon
<1>6. reader'.done = page.end
  BY <1>0, <1>1, Zenon
<1>7. TypeReader'
  BY <1>1, <1>5, Zenon DEF TypeReader
<1>8. ReadRow' = ReadRow
  BY <1>1, <1>5, Zenon DEF ReadRow
<1> QED
  BY <1>1, <1>2, <1>4, <1>5, <1>6, <1>7, <1>8, ClientStep, Zenon

\* A client that stops keeps the invariant.
LEMMA StopKeeps ==
    ASSUME Inv, EndReading
    PROVE  Inv'
<1>1. UNCHANGED <<tracked, images, updates, notes, upserts>> /\ reader' = NoReader
  BY Zenon DEF EndReading
<1>2. /\ NoReader.note = 0 /\ NoReader.side = "new" /\ NoReader.start = 0
      /\ NoReader.pages = <<>> /\ NoReader.kept = {}
  BY DEF NoReader
<1>3. NoReader.done = FALSE
  BY Zenon DEF NoReader
<1>4. NoReader \in [note : {0} \cup DOMAIN notes, side : {"old", "new"}, start : Nat,
                    pages : Seq(SUBSET (Nat \X images)), kept : SUBSET images, done : BOOLEAN]
  BY DEF NoReader
<1>5. TypeReader'
  BY <1>1, <1>4, Zenon DEF TypeReader
<1>6. DOMAIN <<>> = {}
  OBVIOUS
<1>7. Increase(<<>>)
  BY <1>6, Zenon DEF Increase
<1> QED
  BY <1>1, <1>2, <1>3, <1>5, <1>7, ClientStep, Zenon

-----------------------------------------------------------------------------
(* The theorems.                                                            *)

\* The invariant holds before anything is stored, posted or read.
LEMMA InitKeeps ==
    Init => Inv
<1>1. SUFFICES ASSUME Init PROVE Inv
  OBVIOUS
<1>2. PICK i \in Instances : tracked = i[1] /\ images = i[2]
  BY <1>1, Zenon DEF Init
<1>3. /\ rows = <<>> /\ notes = <<>> /\ changes = {} /\ upc = "idle" /\ first = TRUE /\ round = 0
      /\ latest = [v \in tracked |-> NoContent]
      /\ ancestry = [a \in images |-> NoAncestry] /\ upserting = [a \in images |-> NoAncestry]
      /\ nextId = 1 /\ reader = NoReader
  BY <1>1, Zenon DEF Init
<1>4. DOMAIN <<>> = {} /\ \A T : <<>> \in Seq(T)
  OBVIOUS
<1>5. TypeUpdates
  <2>1. IsFiniteSet(tracked) /\ IsFiniteSet(changes)
    BY <1>2, <1>3, NotificationsAssumption, FS_EmptySet, Zenon
  <2>2. round \in Nat
    BY <1>3
  <2>3. latest \in [tracked -> Contents \cup {NoContent}]
    BY <1>3, Zenon
  <2> QED
    BY <1>3, <1>4, <2>1, <2>2, <2>3, Zenon DEF TypeUpdates
<1>6. TypeUpserts
  <2>1. NoAncestry \in [id : 0 .. nextId - 1, features : FeatureSets \cup {{}}] /\ nextId \in Nat
    BY <1>3 DEF NoAncestry, NoRow
  <2> QED
    BY <1>3, <2>1, Zenon DEF TypeUpserts
<1>7. TypeReader
  <2>1. NoReader \in [note : {0} \cup DOMAIN notes, side : {"old", "new"}, start : Nat,
                      pages : Seq(SUBSET (Nat \X images)), kept : SUBSET images, done : BOOLEAN]
    BY DEF NoReader
  <2> QED
    BY <1>3, <2>1, Zenon DEF TypeReader
<1>8. RowsInv /\ ChangesInv /\ NotifiedRows
  <2>1. \A v \in tracked : latest[v] = NoContent
    BY <1>3, Zenon
  <2> QED
    BY <1>3, <1>4, <2>1, Zenon DEF RowsInv, ReplacedByAnother, ChangesInv, NotifiedRows
<1>9. ReaderInv
  <2>1. reader.note = 0 /\ reader.pages = <<>>
    BY <1>3 DEF NoReader
  <2>2. ~ reader.done
    BY <1>3, Zenon DEF NoReader
  <2>3. \A a \in images : upserting[a] = NoAncestry
    BY <1>3, Zenon
  <2> QED
    BY <1>3, <1>4, <2>1, <2>2, <2>3, Zenon DEF ReaderInv, PagesIncrease, NothingMissed
<1> QED
  BY <1>5, <1>6, <1>7, <1>8, <1>9, TypeParts, Zenon DEF Inv

\* Every step keeps the invariant.
LEMMA StepKeeps ==
    Inv /\ [Next]_vars => Inv'
<1>1. SUFFICES ASSUME Inv, [Next]_vars PROVE Inv'
  OBVIOUS
<1>2. ASSUME NEW known \in SUBSET tracked, NEW batch \in [known -> Contents],
             UpdateVulnerabilities(batch)
      PROVE  Inv'
  BY <1>1, <1>2, UpdateKeeps, Zenon
<1>3. CASE CreateNotifications
  BY <1>1, <1>3, CreateKeeps, Zenon
<1>4. CASE UpdateFailed
  BY <1>1, <1>4, FailKeeps, Zenon
<1>5. ASSUME NEW a \in images, NEW fs \in FeatureSets, UpsertAncestry(a, fs) PROVE Inv'
  BY <1>1, <1>5, UpsertKeeps, Zenon
<1>6. ASSUME NEW a \in images, CommitUpsert(a) PROVE Inv'
  BY <1>1, <1>6, CommitKeeps, Zenon
<1>7. ASSUME NEW a \in images, RollbackUpsert(a) PROVE Inv'
  BY <1>1, <1>7, RollbackKeeps, Zenon
<1>8. ASSUME NEW n \in DOMAIN notes, NEW side \in {"old", "new"}, ReadFirstPage(n, side) PROVE Inv'
  BY <1>1, <1>8, FirstKeeps, Zenon
<1>9. CASE ReadNextPage
  BY <1>1, <1>9, NextKeeps, Zenon
<1>10. CASE EndReading
  BY <1>1, <1>10, StopKeeps, Zenon
<1>11. CASE UNCHANGED vars
  <2>1. UNCHANGED <<tracked, images, updates, notes, upserts>> /\ reader' = reader
    BY <1>11, Zenon DEF vars
  <2>2. TypeReader' /\ ReadRow' = ReadRow
    BY <1>1, <2>1, TypeParts, Zenon DEF Inv, TypeReader, ReadRow
  <2>3. /\ reader.note = 0 => reader = NoReader
        /\ reader.note # 0 /\ ~ reader.done =>
              /\ Reading(reader.kept, reader.pages, reader.start)
              /\ reader.kept \subseteq Affected(rows, ancestry, ReadRow)
        /\ Increase(reader.pages)
        /\ reader.done => HaveRead(reader.kept, reader.pages)
    BY <1>1, Zenon DEF Inv, ReaderInv, PagesIncrease, NothingMissed, Increase, Listed, Reading, HaveRead
  <2> QED
    BY <1>1, <2>1, <2>2, <2>3, ClientStep, Zenon
<1> QED
  BY <1>1, <1>2, <1>3, <1>4, <1>5, <1>6, <1>7, <1>8, <1>9, <1>10, <1>11, Zenon DEF Next

\* The invariant holds in every state.
THEOREM NotificationsInvariant ==
    Spec => []Inv
BY InitKeeps, StepKeeps, PTL DEF Spec

\* A vulnerability that was ever stored has one row that is not deleted, which
\* says what was fetched last; and a row is only replaced by one that says
\* something else (updateVulnerabilities).
THEOREM StoresLatest ==
    Spec => []LatestStored
<1>1. Inv => LatestStored
  <2>1. SUFFICES ASSUME Inv PROVE LatestStored
    OBVIOUS
  <2>2. TypeOK /\ RowsInv /\ ReplacedByAnother
    BY <2>1, Zenon DEF Inv, RowsInv
  <2>3. ASSUME NEW v \in tracked, latest[v] # NoContent
        PROVE  /\ Cardinality(Live(v)) = 1
               /\ rows[LiveRow(v)].content.severity = latest[v].severity
               /\ Range(rows[LiveRow(v)].content.affected) = Range(latest[v].affected)
    <3>1. Live(v) # {}
      BY <2>2, <2>3, Zenon DEF RowsInv
    <3>2. LiveRow(v) \in Live(v) /\ \A i \in Live(v) : LiveRow(v) = i
      BY <2>2, <3>1, LiveIs, Zenon
    <3>3. Live(v) = {LiveRow(v)}
      BY <3>2, Zenon
    <3>4. Cardinality(Live(v)) = 1
      BY <3>3, FS_Singleton, Zenon
    <3>5. LiveRow(v) \in DOMAIN rows /\ rows[LiveRow(v)].name = v /\ rows[LiveRow(v)].deleted = 0
      BY <3>2, Zenon DEF Live
    <3>6. SaysTheSame(rows[LiveRow(v)].content, latest[v])
      BY <2>2, <3>5, Zenon DEF RowsInv
    <3> QED
      BY <3>4, <3>6, Zenon DEF SaysTheSame
  <2> QED
    BY <2>2, <2>3, Zenon DEF LatestStored
<1> QED
  BY <1>1, NotificationsInvariant, PTL

\* A notification refers to the rows of the change that it was made for, although
\* InsertVulnerabilityNotifications looks them up by name in a later transaction.
THEOREM NotifiesRows ==
    Spec => []NotifiedRows
<1>1. Inv => NotifiedRows
  BY Zenon DEF Inv
<1> QED
  BY <1>1, NotificationsInvariant, PTL

\* From page to page the indexes of the ancestries increase, whatever is posted,
\* fetched and stored between two requests, and for any limit of a page.
THEOREM IndexesIncrease ==
    Spec => []PagesIncrease
<1>1. Inv => PagesIncrease
  BY Zenon DEF Inv, ReaderInv
<1> QED
  BY <1>1, NotificationsInvariant, PTL

\* A client that has read the last page has seen every image that was affected
\* from the first page on, although its index may have changed in between.
THEOREM MissesNothing ==
    Spec => []NothingMissed
<1>1. Inv => NothingMissed
  BY Zenon DEF Inv, ReaderInv
<1> QED
  BY <1>1, NotificationsInvariant, PTL
=============================================================================
