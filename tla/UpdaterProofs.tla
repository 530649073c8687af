--------------------------- MODULE UpdaterProofs ---------------------------
(***************************************************************************)
(* Proofs about Updater, for any set of instances and sources, any number  *)
(* of errors, crashes, stops and publications, and any durations that let  *)
(* a refresh that is in time come before the lock expires.                 *)
(*                                                                         *)
(* The lock excludes an update that has missed no refresh and was not      *)
(* stopped from every other such update.  What rests on one update at a    *)
(* time is proved up to the first overlap.                                 *)
(***************************************************************************)
EXTENDS Updater, TLAPS

\* The rows of the lock table.
Rows == [owner : Owners \cup {NoOwner}, until : -1 .. LockDuration]

\* The select starts with no time gone and no refresh missed.
SelectStarts ==
    \A p \in Owners : pc[p] # "select" => refresh[p] = 0 /\ ~missed[p]

\* In the select, an instance that has missed no refresh has the lock; what is
\* gone of its duration was spent since the last refresh.
Keeps(p) ==
    pc[p] = "select" /\ ~missed[p] =>
        /\ locks[Updater].owner = p
        /\ LockDuration <= locks[Updater].until + refresh[p]
\* Every such instance keeps the lock.
HoldsLock == \A p \in Owners : Keeps(p)

\* The invariant that the exclusion of updates rests on.
LockInv == TypeOK /\ SelectStarts /\ HoldsLock

-----------------------------------------------------------------------------
\* The assumptions, as far as they are used.
LEMMA Constants ==
    /\ NoOwner \notin Owners
    /\ Names = {Updater}
    /\ MaxRevision \in Nat \ {0}
    /\ LockDuration \in Nat \ {0}
    /\ RefreshDuration \in Nat \ {0} /\ RefreshDelay \in Nat
    /\ RefreshDuration + RefreshDelay <= LockDuration
    /\ Interval \in Nat \ {0}
    /\ MaxEvents \in Nat
    /\ Mortal \cup Stoppable \subseteq Owners
BY UpdaterAssumption, NoOwnerAssumption

\* The rows of the table stay rows by an insertion, ...
LEMMA LockType ==
    ASSUME locks \in [Names -> Rows], NEW p \in Owners
    PROVE  Lock(locks, Updater, p, 0, LockDuration) \in [Names -> Rows]
<1>1. [owner |-> p, until |-> LockDuration] \in Rows
  BY Constants DEF Rows
<1>2. pruneLocks(locks, 0) \in [Names -> Rows]
  BY Constants DEF pruneLocks, NoRow, Rows
<1> QED
  BY <1>1, <1>2, Zenon DEF Lock

\* ... by a renewal, ...
LEMMA RenewType ==
    ASSUME locks \in [Names -> Rows]
    PROVE  Renew(locks, Updater, LockDuration) \in [Names -> Rows]
BY Constants DEF Renew, Rows

\* ... and by a removal.
LEMMA UnlockType ==
    ASSUME locks \in [Names -> Rows], NEW p
    PROVE  Unlock(locks, Updater, p) \in [Names -> Rows]
BY Constants DEF Unlock, NoRow, Rows

\* What updateVulnerabilities finds are changes.
LEMMA ChangesType ==
    ASSUME TypeOK, NEW p \in Owners
    PROVE  FoundChanges(p) \subseteq Changes
BY DEF TypeOK, FoundChanges, Changes, Revisions

\* The two ends of update, as far as types go.
LEMMA ForgetType ==
    ASSUME TypeOK, NEW p \in Owners, NEW l \in {"none", "done"}, Forget(p, l)
    PROVE  /\ up' \in [Owners -> {"none", "fetch", "namespaces", "vulnerabilities",
                                  "notifications", "flags", "last", "done"}]
           /\ pending' \in [Owners -> SUBSET Sources]
           /\ got' \in [Owners -> [Sources -> Revisions]]
           /\ success' \in [Owners -> BOOLEAN]
           /\ changes' \in [Owners -> SUBSET Changes]
<1>1. Nothing \in [Sources -> Revisions]
  BY Constants DEF Nothing, Revisions
<1> QED
  BY <1>1 DEF TypeOK, Forget

-----------------------------------------------------------------------------

\* The counters and the tables stay within their types.
LEMMA NextType ==
    TypeOK /\ [Next]_vars => TypeOK'
<1> SUFFICES ASSUME TypeOK, [Next]_vars PROVE TypeOK'
  OBVIOUS
<1> USE Constants DEF TypeOK, database, main, update, environment, history, Event, Quiet
<1>1. CASE UNCHANGED vars
  BY <1>1 DEF vars
<1>2. ASSUME NEW p \in Owners, RunUpdater(p) PROVE TypeOK'
  <2>0. locks \in [Names -> Rows]
    BY DEF Rows
  <2>1. CASE CheckDue(p)
    BY <2>1 DEF CheckDue, Go
  <2>2. CASE CheckNotDue(p)
    BY <2>2 DEF CheckNotDue, Go
  <2>3. CASE WakeUp(p)
    BY <2>3 DEF WakeUp
  <2>4. CASE SleepInterrupted(p)
    BY <2>4 DEF SleepInterrupted
  <2>5. CASE LockUpdate(p)
    BY <2>0, <2>5, LockType, Zenon DEF LockUpdate, Go, Rows
  <2>6. CASE LockFailed(p)
    <3>0. locks' = locks \/ locks' = Lock(locks, Updater, p, 0, LockDuration)
      BY <2>6, Zenon DEF LockFailed
    <3>1. locks' \in [Names -> Rows]
      BY <2>0, <3>0, LockType
    <3>2. events' \in 0 .. MaxEvents
      BY <2>6 DEF LockFailed
    <3> QED
      BY <2>6, <3>1, <3>2, Zenon DEF LockFailed, Go, Rows
  <2>10. CASE LockTaken(p)
    BY <2>10 DEF LockTaken, Go
  <2>11. CASE FindLock(p)
    <3>0. events' = events \/ (events < MaxEvents /\ events' = events + 1)
      BY <2>11, Zenon DEF FindLock
    <3>1. events' \in 0 .. MaxEvents
      BY <3>0
    <3>2. \/ pc' = [pc EXCEPT ![p] = "wait"]
          \/ pc' = [pc EXCEPT ![p] = "check"]
      BY <2>11, Zenon DEF FindLock
    <3>3. UNCHANGED <<locks, database, upstream, stopping, refresh, update, history>>
      BY <2>11, Zenon DEF FindLock
    <3>4. first' \in [Owners -> BOOLEAN]
      BY <2>11, Zenon DEF FindLock
    <3> QED
      BY <3>1, <3>2, <3>3, <3>4, Zenon
  <2>7. CASE UpdateDone(p)
    BY <2>7 DEF UpdateDone, LeaveSelect, Go
  <2>8. CASE SeeStop(p)
    BY <2>8 DEF SeeStop, LeaveSelect, Go
  <2>9. CASE UnlockUpdate(p)
    <3>0. events' = events \/ (events < MaxEvents /\ events' = events + 1)
      BY <2>9, Zenon DEF UnlockUpdate
    <3>1. events' \in 0 .. MaxEvents
      BY <3>0
    <3>2. locks' = locks \/ locks' = Unlock(locks, Updater, p)
      BY <2>9, Zenon DEF UnlockUpdate
    <3>3. locks' \in [Names -> Rows]
      BY <2>0, <3>2, UnlockType
    <3>4. \/ pc' = [pc EXCEPT ![p] = "stopped"]
          \/ pc' = [pc EXCEPT ![p] = "wait"]
      BY <2>9, Zenon DEF UnlockUpdate
    <3>5. UNCHANGED <<database, upstream, stopping, first, refresh, update, history>>
      BY <2>9, Zenon DEF UnlockUpdate
    <3> QED
      BY <3>1, <3>3, <3>4, <3>5, Zenon DEF Rows
  <2> QED
    BY <1>2, <2>1, <2>2, <2>3, <2>4, <2>5, <2>6, <2>7, <2>8, <2>9, <2>10, <2>11, Zenon
       DEF RunUpdater
<1>3. ASSUME NEW p \in Owners, RefreshLock(p) PROVE TypeOK'
  <2>1. CASE Refresh(p)
    BY <2>1, RenewType DEF Refresh, Rows
  <2>2. CASE RefreshFailed(p)
    BY <2>2, RenewType DEF RefreshFailed, Rows
  <2> QED
    BY <1>3, <2>1, <2>2 DEF RefreshLock
<1>4. ASSUME NEW p \in Owners, RunUpdate(p) PROVE TypeOK'
  <2>1. ASSUME NEW s \in Sources, FetchOK(p, s) PROVE TypeOK'
    <3>1. got' \in [Owners -> [Sources -> Revisions]]
      BY <2>1 DEF FetchOK, Revisions
    <3> QED
      BY <2>1, <3>1 DEF FetchOK
  <2>2. ASSUME NEW s \in Sources, FetchFailed(p, s) PROVE TypeOK'
    BY <2>2 DEF FetchFailed
  <2>3. CASE PersistNamespaces(p)
    BY <2>3 DEF PersistNamespaces
  <2>4. CASE FlagsUpdated(p)
    BY <2>4 DEF FlagsUpdated
  <2>5. CASE SetLastUpdateTime(p)
    BY <2>5 DEF SetLastUpdateTime
  <2>6. CASE UpdateVulnerabilities(p)
    <3>1. stored' \in [Sources -> Revisions] /\ FoundChanges(p) \subseteq Changes
      BY <2>6, ChangesType DEF UpdateVulnerabilities
    <3>2. CASE Forget(p, "done")
      BY <2>6, <3>1, <3>2, ForgetType DEF UpdateVulnerabilities
    <3>3. CASE ~ Forget(p, "done")
      <4>1. /\ up' = [up EXCEPT ![p] = IF first[p] THEN "flags" ELSE "notifications"]
            /\ changes' = [changes EXCEPT ![p] = FoundChanges(p)]
            /\ UNCHANGED <<locks, last, flags, told, environment, pc, first, refresh,
                            pending, got, success, history>>
        BY <2>6, <3>3, Zenon DEF UpdateVulnerabilities
      <4>2. changes' \in [Owners -> SUBSET Changes]
        BY <3>1, <4>1
      <4> QED
        BY <3>1, <4>1, <4>2
    <3> QED
      BY <3>2, <3>3
  <2>7. CASE CreateNotifications(p)
    <3>1. told' \subseteq Changes
      BY <2>7 DEF CreateNotifications
    <3>2. CASE Forget(p, "done")
      BY <2>7, <3>1, <3>2, ForgetType DEF CreateNotifications
    <3>3. CASE ~ Forget(p, "done")
      BY <2>7, <3>1, <3>3, Zenon DEF CreateNotifications
    <3> QED
      BY <3>2, <3>3
  <2>8. ASSUME NEW s \in Sources, UpdateFlag(p, s) PROVE TypeOK'
    <3>1. got' \in [Owners -> [Sources -> Revisions]] /\ flags' \in [Sources -> Revisions]
      BY <2>8 DEF UpdateFlag, Revisions
    <3> QED
      BY <2>8, <3>1 DEF UpdateFlag
  <2>9. CASE UpdateFailed(p)
    BY <2>9, ForgetType DEF UpdateFailed
  <2> QED
    BY <1>4, <2>1, <2>2, <2>3, <2>4, <2>5, <2>6, <2>7, <2>8, <2>9, Zenon DEF RunUpdate
<1>5. ASSUME NEW s \in Sources, Publish(s) PROVE TypeOK'
  <2>1. upstream' \in [Sources -> Revisions]
    BY <1>5 DEF Publish, Revisions
  <2> QED
    BY <1>5, <2>1 DEF Publish
<1>6. ASSUME NEW p \in Owners, Stop(p) PROVE TypeOK'
  BY <1>6 DEF Stop
<1>7. ASSUME NEW p \in Owners, Exit(p) PROVE TypeOK'
  BY <1>7, ForgetType DEF Exit
<1>8. CASE Tick
  <2>1. \A n \in Names : locks'[n] \in Rows
    <3> TAKE n \in Names
    <3>1. locks[n] \in Rows /\ locks[n].until \in Int
      BY DEF Rows
    <3>2. locks[n].until >= 0 => locks[n].until - 1 \in -1 .. LockDuration
      BY <3>1 DEF Rows
    <3>3. locks[n].until >= 0 => [locks[n] EXCEPT !.until = locks[n].until - 1] \in Rows
      BY <3>1, <3>2, Zenon DEF Rows
    <3> QED
      BY <1>8, <3>1, <3>3 DEF Tick
  <2>2. locks' \in [Names -> Rows]
    BY <1>8, <2>1 DEF Tick
  <2>3. last' \in {Never} \cup 0 .. Interval + 1
    BY <1>8 DEF Tick, Never
  <2>4. refresh' \in [Owners -> 0 .. RefreshDuration + RefreshDelay]
    BY <1>8 DEF Tick
  <2> QED
    BY <1>8, <2>2, <2>3, <2>4 DEF Tick, Rows
<1> QED
  BY <1>1, <1>2, <1>3, <1>4, <1>5, <1>6, <1>7, <1>8, Zenon DEF Next

\* The update goroutine does not touch the lock, nor RunUpdater; it starts with
\* the lock and ends in the select.
UpdateApart ==
    /\ UNCHANGED <<locks, pc, refresh, missed, overlapped>>
    /\ \A q \in Owners : up'[q] # "none" => up[q] # "none"

\* That holds for each of its steps.
LEMMA UpdateIsApart ==
    ASSUME TypeOK, NEW p \in Owners, RunUpdate(p)
    PROVE  UpdateApart
<1> USE DEF TypeOK, main, database, update, history, UpdateApart
<1>1. ASSUME NEW s \in Sources, FetchOK(p, s) \/ FetchFailed(p, s) \/ UpdateFlag(p, s)
      PROVE  UpdateApart
  BY <1>1 DEF FetchOK, FetchFailed, UpdateFlag
<1>2. CASE \/ PersistNamespaces(p) \/ UpdateVulnerabilities(p) \/ CreateNotifications(p)
           \/ FlagsUpdated(p) \/ SetLastUpdateTime(p) \/ UpdateFailed(p)
  BY <1>2 DEF PersistNamespaces, UpdateVulnerabilities, CreateNotifications, FlagsUpdated,
              SetLastUpdateTime, UpdateFailed, Forget
<1> QED
  BY <1>1, <1>2, Zenon DEF RunUpdate

\* The time and the missed refreshes of one stay in the select do not reach the
\* next.
LEMMA NextSelect ==
    TypeOK /\ SelectStarts /\ [Next]_vars => SelectStarts'
<1> SUFFICES ASSUME TypeOK, SelectStarts, [Next]_vars PROVE SelectStarts'
  OBVIOUS
<1> USE Constants DEF TypeOK, SelectStarts, database, main, update, history
<1>1. CASE UNCHANGED vars
  BY <1>1, Zenon DEF vars
<1>2. ASSUME NEW p \in Owners, RunUpdater(p) PROVE SelectStarts'
  <2>1. CASE CheckDue(p) \/ CheckNotDue(p) \/ WakeUp(p) \/ SleepInterrupted(p)
    BY <2>1, Zenon DEF CheckDue, Go, CheckNotDue, WakeUp, SleepInterrupted
  <2>2. CASE LockUpdate(p)
    BY <2>2, Zenon DEF LockUpdate, Go
  <2>7. CASE LockFailed(p) \/ LockTaken(p)
    BY <2>7, Zenon DEF LockFailed, LockTaken, Go
  <2>3. CASE UpdateDone(p)
    BY <2>3 DEF UpdateDone, LeaveSelect, Go
  <2>4. CASE SeeStop(p)
    BY <2>4 DEF SeeStop, LeaveSelect, Go
  <2>5. CASE UnlockUpdate(p)
    BY <2>5, Zenon DEF UnlockUpdate
  <2>6. CASE FindLock(p)
    BY <2>6 DEF FindLock
  <2> QED
    BY <1>2, <2>1, <2>2, <2>3, <2>4, <2>5, <2>6, <2>7, Zenon DEF RunUpdater
<1>3. ASSUME NEW p \in Owners, RefreshLock(p) PROVE SelectStarts'
  BY <1>3, Zenon DEF RefreshLock, Refresh, RefreshFailed
<1>4. ASSUME NEW p \in Owners, RunUpdate(p) PROVE SelectStarts'
  BY <1>4, UpdateIsApart, Zenon DEF UpdateApart
<1>5. ASSUME NEW s \in Sources, Publish(s) PROVE SelectStarts'
  BY <1>5, Zenon DEF Publish
<1>6. ASSUME NEW p \in Owners, Stop(p) PROVE SelectStarts'
  BY <1>6, Zenon DEF Stop
<1>7. ASSUME NEW p \in Owners, Exit(p) PROVE SelectStarts'
  BY <1>7 DEF Exit
<1>8. CASE Tick
  BY <1>8 DEF Tick
<1> QED
  BY <1>1, <1>2, <1>3, <1>4, <1>5, <1>6, <1>7, <1>8, Zenon DEF Next

-----------------------------------------------------------------------------
\* The row that an update relies on has not expired: nobody prunes it, and
\* nobody else is granted the lock.
LEMMA RowAlive ==
    ASSUME LockInv, NEW p \in Owners, pc[p] = "select", ~missed[p]
    PROVE  /\ locks[Updater].owner = p
           /\ locks[Updater].until \in Int /\ locks[Updater].until >= 0
           /\ ~CanLock(locks, Updater, 0)
<1>1. /\ Updater \in Names /\ locks[Updater].until \in Int
      /\ refresh[p] \in Nat /\ refresh[p] <= LockDuration
  BY Constants DEF LockInv, TypeOK
<1>2. /\ LockDuration <= locks[Updater].until + refresh[p]
      /\ locks[Updater].owner = p
  BY DEF LockInv, HoldsLock, Keeps
<1>3. locks[Updater].until >= 0
  BY <1>1, <1>2, Constants
<1>4. pruneLocks(locks, 0)[Updater] = locks[Updater]
  BY <1>1, <1>3, Constants DEF pruneLocks
<1> QED
  BY <1>1, <1>2, <1>3, <1>4, Constants DEF CanLock

\* An instance keeps the lock over a step that neither moves it nor touches the
\* row.
LEMMA Frame ==
    ASSUME LockInv, NEW q \in Owners,
           pc'[q] = "select" /\ ~missed'[q] =>
               /\ pc[q] = "select" /\ ~missed[q]
               /\ UNCHANGED <<locks, refresh[q]>>
    PROVE  Keeps(q)'
BY DEF LockInv, HoldsLock, Keeps

\* A row that was just written keeps its owner's lock.
LEMMA Fresh ==
    ASSUME NEW p \in Owners, NEW q \in Owners,
           locks'[Updater].owner = p, locks'[Updater].until = LockDuration,
           refresh'[p] = 0,
           q # p => pc'[q] # "select" \/ missed'[q]
    PROVE  Keeps(q)'
BY Constants DEF Keeps

\* What each action does to the lock of the update.
LEMMA NextKeeps == LockInv /\ [Next]_vars => HoldsLock'
<1> SUFFICES ASSUME LockInv, [Next]_vars, NEW q \in Owners PROVE Keeps(q)'
  BY DEF HoldsLock
<1>0. TypeOK /\ SelectStarts /\ Keeps(q)
  BY DEF LockInv, HoldsLock
<1> USE DEF database, main, update, history
<1>1. CASE UNCHANGED vars
  BY <1>1, Frame DEF vars
<1>2. ASSUME NEW p \in Owners,
             \/ CheckDue(p) \/ CheckNotDue(p) \/ WakeUp(p) \/ SleepInterrupted(p)
             \/ LockTaken(p)
      PROVE  Keeps(q)'
  BY <1>0, <1>2, Frame DEF CheckDue, CheckNotDue, WakeUp, SleepInterrupted, LockTaken, Go, TypeOK
<1>3. ASSUME NEW p \in Owners, LockUpdate(p) PROVE Keeps(q)'
  <2>1. refresh'[p] = 0
    BY <1>0, <1>3, Zenon DEF SelectStarts, LockUpdate, Go
  <2>2. locks'[Updater].owner = p /\ locks'[Updater].until = LockDuration
    BY <1>3, Constants DEF LockUpdate, Lock, pruneLocks
  <2>3. q # p => pc[q] # "select" \/ missed[q]
    BY <1>3, RowAlive, Zenon DEF LockUpdate
  <2>4. q # p => pc'[q] # "select" \/ missed'[q]
    BY <1>0, <1>3, <2>3, Zenon DEF LockUpdate, Go, TypeOK
  <2> QED
    BY <2>1, <2>2, <2>4, Fresh, Zenon
<1>4. ASSUME NEW p \in Owners, LockFailed(p) PROVE Keeps(q)'
  <2>1. /\ pc'[q] = "select" => pc[q] = "select"
        /\ UNCHANGED <<refresh, missed>>
    BY <1>0, <1>4, Zenon DEF LockFailed, Go, TypeOK
  <2>2. pc[q] = "select" /\ ~missed[q] => UNCHANGED locks
    BY <1>4, RowAlive, Zenon DEF LockFailed
  <2> QED
    BY <2>1, <2>2, Frame, Zenon
<1>5. ASSUME NEW p \in Owners, UpdateDone(p) \/ SeeStop(p) PROVE Keeps(q)'
  BY <1>0, <1>5, Frame, Zenon DEF UpdateDone, SeeStop, LeaveSelect, Go, TypeOK
<1>6. ASSUME NEW p \in Owners, UnlockUpdate(p) PROVE Keeps(q)'
  <2>1. /\ pc'[q] = "select" => pc[q] = "select" /\ q # p
        /\ UNCHANGED <<refresh, missed>>
    BY <1>0, <1>6 DEF UnlockUpdate, TypeOK
  <2>2. pc[q] = "select" /\ ~missed[q] /\ q # p => Unlock(locks, Updater, p) = locks
    BY <1>0, Constants DEF Keeps, Unlock, TypeOK
  <2> QED
    BY <1>6, <2>1, <2>2, Frame, Zenon DEF UnlockUpdate
<1>7. ASSUME NEW p \in Owners, Refresh(p) PROVE Keeps(q)'
  <2>1. /\ UNCHANGED pc /\ refresh'[p] = 0
        /\ \A o \in Owners : o # p => UNCHANGED <<refresh[o], missed[o]>>
        /\ missed'[p] = (locks[Updater].owner # p)
    BY <1>0, <1>7, Zenon DEF Refresh, TypeOK, CanRenew
  <2>2. CASE locks[Updater].owner = p
    <3>1. locks'[Updater].owner = p /\ locks'[Updater].until = LockDuration
      BY <1>0, <1>7, <2>2, Constants DEF Refresh, CanRenew, Renew, TypeOK
    <3>2. q # p => pc[q] # "select" \/ missed[q]
      BY <2>2, RowAlive, Zenon
    <3> QED
      BY <2>1, <3>1, <3>2, Fresh, Zenon
  <2>3. CASE locks[Updater].owner # p
    <3>1. UNCHANGED locks
      BY <1>7, <2>3, Zenon DEF Refresh, CanRenew
    <3> QED
      BY <2>1, <2>3, <3>1, Frame, Zenon
  <2> QED
    BY <2>2, <2>3
<1>8. ASSUME NEW p \in Owners, RefreshFailed(p) PROVE Keeps(q)'
  <2>1. /\ UNCHANGED pc /\ missed'[p] = TRUE
        /\ \A o \in Owners : o # p => UNCHANGED <<refresh[o], missed[o]>>
    BY <1>0, <1>8, Zenon DEF RefreshFailed, TypeOK
  <2>2. pc[q] = "select" /\ ~missed[q] /\ q # p => UNCHANGED locks
    BY <1>8, RowAlive, Zenon DEF RefreshFailed, CanRenew
  <2> QED
    BY <2>1, <2>2, Frame, Zenon
<1>9. ASSUME NEW p \in Owners, RunUpdate(p) PROVE Keeps(q)'
  BY <1>0, <1>9, UpdateIsApart, Frame, Zenon DEF UpdateApart
<1>10. ASSUME NEW s \in Sources, Publish(s) PROVE Keeps(q)'
  BY <1>10, Frame, Zenon DEF Publish
<1>11. ASSUME NEW p \in Owners, Stop(p) \/ Exit(p) PROVE Keeps(q)'
  BY <1>0, <1>11, Frame, Zenon DEF Stop, Exit, TypeOK
<1>12. CASE Tick
  <2>1. UNCHANGED <<pc, missed>>
    BY <1>12 DEF Tick
  <2> SUFFICES ASSUME pc[q] = "select", ~missed[q]
               PROVE  /\ locks'[Updater].owner = q
                      /\ LockDuration <= locks'[Updater].until + refresh'[q]
    BY <2>1 DEF Keeps
  <2>2. /\ locks[Updater].owner = q /\ q # NoOwner
        /\ locks[Updater].until \in Int /\ locks[Updater].until >= 0
    BY RowAlive, Constants
  <2>3. /\ locks'[Updater].owner = q
        /\ locks'[Updater].until = locks[Updater].until - 1
    BY <1>0, <1>12, <2>2, Constants DEF Tick, TypeOK
  <2>4. refresh'[q] = refresh[q] + 1 /\ refresh[q] \in Nat
    BY <1>0, <1>12, Constants DEF Tick, TypeOK
  <2>5. LockDuration <= locks[Updater].until + refresh[q]
    BY <1>0 DEF Keeps
  <2> QED
    BY <2>2, <2>3, <2>4, <2>5, Constants
<1>13. ASSUME NEW p \in Owners, FindLock(p) PROVE Keeps(q)'
  <2>1. pc'[q] = "select" => pc[q] = "select"
    BY <1>0, <1>13 DEF FindLock, TypeOK
  <2>2. UNCHANGED <<locks, refresh, missed>>
    BY <1>13, Zenon DEF FindLock
  <2> QED
    BY <2>1, <2>2, Frame, Zenon
<1> QED
  BY <1>1, <1>2, <1>3, <1>4, <1>5, <1>6, <1>7, <1>8, <1>9, <1>10, <1>11, <1>12, <1>13, Zenon
     DEF Next, RunUpdater, RefreshLock

\* Nobody is in the select at first.
LEMMA InitLock == Init => LockInv
<1> SUFFICES ASSUME Init PROVE LockInv
  OBVIOUS
<1>1. TypeOK
  <2>1. locks \in [Names -> Rows]
    BY Constants DEF Init, EmptyTable, NoRow, Rows
  <2>2. /\ {flags, stored, upstream} \subseteq [Sources -> Revisions]
        /\ got \in [Owners -> [Sources -> Revisions]]
    BY Constants DEF Init, Nothing, Revisions
  <2>3. last \in {Never} \cup 0 .. Interval + 1 /\ events \in 0 .. MaxEvents
    BY Constants DEF Init
  <2>4. refresh \in [Owners -> 0 .. RefreshDuration + RefreshDelay]
    BY Constants DEF Init
  <2>5. told = {} /\ stopping = {}
    BY DEF Init
  <2> QED
    BY <2>1, <2>2, <2>3, <2>4, <2>5, Zenon DEF Init, TypeOK, Rows
<1> QED
  BY <1>1 DEF Init, LockInv, SelectStarts, HoldsLock, Keeps

-----------------------------------------------------------------------------
\* Every variable of the updaters keeps its type, with or without stops.
THEOREM Typing == Spec => []TypeOK
<1>1. Init => TypeOK
  BY InitLock DEF LockInv
<1> QED
  BY <1>1, NextType, PTL DEF Spec

\* Any two updates that run at the same time are accounted for: whoever crashes
\* or stops and whichever refreshes fail, one of them has lost its lock by a stop
\* or a missed refresh.
THEOREM OneAtATime == Spec => []OneUpdate
<1>1. LockInv /\ [Next]_vars => LockInv'
  BY NextType, NextSelect, NextKeeps, Zenon DEF LockInv
<1>2. LockInv => OneUpdate
  BY DEF LockInv, HoldsLock, Keeps, OneUpdate
<1> QED
  BY <1>1, <1>2, InitLock, PTL DEF Spec
-----------------------------------------------------------------------------
(* What an update that was the first, or a success, has stored.  Nothing here *)
(* needs the updates to exclude each other.                                   *)

\* A source whose flag is set, or is about to be, has vulnerabilities.
FlagNeedsStored(s) ==
    /\ upstream[s] # 0
    /\ flags[s] # 0 => stored[s] # 0
    /\ \A p \in Owners :
        up[p] \in {"notifications", "flags"} /\ got[p][s] # 0 => stored[s] # 0

\* As long as no source has failed, each one that has answered has
\* vulnerabilities, fetched or stored.
SuccessIsStored(s) ==
    \A p \in Owners :
        /\ up[p] \in {"fetch", "namespaces", "vulnerabilities"} /\ success[p]
              /\ s \notin pending[p] => got[p][s] # 0 \/ stored[s] # 0
        /\ up[p] \in {"namespaces", "vulnerabilities"} => pending[p] = {}
        /\ up[p] \in {"notifications", "flags"} /\ success[p] => stored[s] # 0
        /\ up[p] = "last" => stored[s] # 0

\* What is claimed of a source, together.
Complete(s) ==
    FlagNeedsStored(s) /\ SuccessIsStored(s) /\ (last # Never => stored[s] # 0)

\* A step in which no update goes on: it leaves what is stored alone, sources
\* may publish, and updates may end, without anything fetched.
Kept(q) == UNCHANGED <<up[q], pending[q], got[q], success[q], changes[q]>>
Over(q) ==
    /\ up'[q] \in {"none", "done"}
    /\ got'[q] = Nothing \/ (up[q] = "done" /\ got'[q] = got[q])
Aside ==
    /\ UNCHANGED <<flags, stored, told>>
    /\ \A s \in Sources : upstream[s] <= upstream'[s]
    /\ last' # Never => last # Never
    /\ \A q \in Owners : Kept(q) \/ Over(q)

\* What the steps of an update are, and that the others are aside.
LEMMA StepsOfUpdates ==
    ASSUME TypeOK, [Next]_vars
    PROVE  \/ Aside
           \/ \E p \in Owners : LockUpdate(p)
           \/ \E p \in Owners, s \in Sources : FetchOK(p, s) \/ FetchFailed(p, s)
           \/ \E p \in Owners : PersistNamespaces(p) \/ UpdateVulnerabilities(p)
           \/ \E p \in Owners : CreateNotifications(p)
           \/ \E p \in Owners, s \in Sources : UpdateFlag(p, s)
           \/ \E p \in Owners : FlagsUpdated(p) \/ SetLastUpdateTime(p)
<1> USE DEF database, main, update, environment
<1>0. \A s \in Sources : upstream[s] \in Nat
  BY Constants DEF TypeOK, Revisions
<1>1. CASE UNCHANGED vars
  <2>1. UNCHANGED <<flags, stored, told, upstream, last, up, pending, got, success, changes>>
    BY <1>1 DEF vars
  <2> QED
    BY <1>0, <2>1 DEF Aside, Kept
<1>2. ASSUME NEW p \in Owners,
             \/ CheckDue(p) \/ CheckNotDue(p) \/ LockTaken(p) \/ LockFailed(p)
             \/ FindLock(p) \/ WakeUp(p) \/ SleepInterrupted(p)
             \/ SeeStop(p) \/ UnlockUpdate(p)
             \/ Refresh(p) \/ RefreshFailed(p) \/ Stop(p)
      PROVE  Aside
  <2>1. UNCHANGED <<flags, stored, told, upstream, last, up, pending, got, success, changes>>
    BY <1>2, Zenon DEF CheckDue, CheckNotDue, LockTaken, LockFailed, FindLock, WakeUp,
                       SleepInterrupted, SeeStop, UnlockUpdate, Refresh, RefreshFailed, Stop
  <2> QED
    BY <1>0, <2>1 DEF Aside, Kept
<1>3. ASSUME NEW p \in Owners, UpdateDone(p) \/ UpdateFailed(p) \/ Exit(p) PROVE Aside
  <2>1. UNCHANGED <<flags, stored, told, upstream, last>>
    BY <1>3 DEF UpdateDone, UpdateFailed, Exit
  <2>2. \A q \in Owners \ {p} : Kept(q)
    BY <1>3, Zenon DEF UpdateDone, UpdateFailed, Exit, Forget, TypeOK, Kept
  <2>3. Over(p)
    BY <1>3, Zenon DEF UpdateDone, UpdateFailed, Exit, Forget, TypeOK, Over
  <2> QED
    BY <1>0, <2>1, <2>2, <2>3 DEF Aside
<1>4. ASSUME NEW s \in Sources, Publish(s) PROVE Aside
  <2>1. UNCHANGED <<flags, stored, told, last, up, pending, got, success, changes>>
    BY <1>4 DEF Publish
  <2>2. upstream' = [upstream EXCEPT ![s] = upstream[s] + 1] /\ DOMAIN upstream = Sources
    BY <1>4 DEF Publish, TypeOK
  <2>3. \A q \in Sources : upstream[q] <= upstream'[q]
    BY <1>0, <2>2
  <2> QED
    BY <2>1, <2>3, Zenon DEF Aside, Kept
<1>5. CASE Tick
  <2>1. last' # Never => last # Never
    BY <1>5 DEF Tick, Never
  <2> QED
    BY <1>0, <1>5, <2>1 DEF Tick, Aside, Kept
<1> QED
  BY <1>1, <1>2, <1>3, <1>4, <1>5, Zenon DEF Next, RunUpdater, RefreshLock, RunUpdate

\* Each action keeps the claims about a source.
LEMMA NextComplete ==
    ASSUME NEW r \in Sources, TypeOK, Complete(r), [Next]_vars
    PROVE  Complete(r)'
<1> USE DEF Complete, FlagNeedsStored, SuccessIsStored, database, main, update, environment
<1>1. CASE Aside
  <2>1. upstream'[r] # 0
    <3>1. TypeOK'
      BY NextType
    <3>2. upstream[r] \in Nat /\ upstream'[r] \in Nat
      BY <3>1, Constants DEF TypeOK, Revisions
    <3> QED
      BY <1>1, <3>2 DEF Aside
  <2> QED
    BY <1>1, <2>1 DEF Aside, Kept, Over
<1> USE DEF TypeOK
<1>2. ASSUME NEW p \in Owners, LockUpdate(p) PROVE Complete(r)'
  BY <1>2, Zenon DEF LockUpdate, Go
<1>3. ASSUME NEW p \in Owners, NEW s \in Sources, FetchOK(p, s) PROVE Complete(r)'
  BY <1>3, Zenon DEF FetchOK
<1>4. ASSUME NEW p \in Owners, NEW s \in Sources, FetchFailed(p, s) PROVE Complete(r)'
  BY <1>4, Zenon DEF FetchFailed
<1>5. ASSUME NEW p \in Owners, PersistNamespaces(p) PROVE Complete(r)'
  BY <1>5, Zenon DEF PersistNamespaces
<1>6. ASSUME NEW p \in Owners, UpdateVulnerabilities(p) PROVE Complete(r)'
  <2>1. /\ stored[r] # 0 => stored'[r] # 0
        /\ got[p][r] # 0 => stored'[r] # 0
        /\ UNCHANGED <<flags, last, upstream>>
    BY <1>6, Zenon DEF UpdateVulnerabilities
  <2>2. \A q \in Owners : q # p =>
            UNCHANGED <<up[q], got[q], success[q], pending[q]>>
    BY <1>6 DEF UpdateVulnerabilities, Forget
  <2>3. \/ up'[p] = "done"
        \/ /\ up'[p] \in {"flags", "notifications"}
           /\ UNCHANGED <<got, success>>
    BY <1>6 DEF UpdateVulnerabilities, Forget
  <2>4. success[p] => stored'[r] # 0
    BY <1>6, <2>1 DEF UpdateVulnerabilities
  <2> HIDE DEF TypeOK
  <2> QED
    BY <2>1, <2>2, <2>3, <2>4
<1>7. ASSUME NEW p \in Owners, CreateNotifications(p) PROVE Complete(r)'
  <2>1. up[p] = "notifications" /\ UNCHANGED <<stored, flags, last, upstream>>
    BY <1>7 DEF CreateNotifications
  <2>2. \A q \in Owners : q # p =>
            UNCHANGED <<up[q], got[q], success[q], pending[q]>>
    BY <1>7 DEF CreateNotifications, Forget
  <2>3. \/ up'[p] = "done"
        \/ up'[p] = "flags" /\ UNCHANGED <<got, success, pending>>
    BY <1>7 DEF CreateNotifications, Forget
  <2> HIDE DEF TypeOK
  <2> QED
    BY <2>1, <2>2, <2>3
<1>8. ASSUME NEW p \in Owners, NEW s \in Sources, UpdateFlag(p, s) PROVE Complete(r)'
  BY <1>8, Zenon DEF UpdateFlag
<1>9. ASSUME NEW p \in Owners, FlagsUpdated(p) PROVE Complete(r)'
  BY <1>9 DEF FlagsUpdated
<1>10. ASSUME NEW p \in Owners, SetLastUpdateTime(p) PROVE Complete(r)'
  BY <1>10, Zenon DEF SetLastUpdateTime
<1> HIDE DEF TypeOK, Complete
<1> QED
  BY <1>1, <1>2, <1>3, <1>4, <1>5, <1>6, <1>7, <1>8, <1>9, <1>10, StepsOfUpdates, Zenon

\* The time of the last update, once it exists, says that every source was
\* stored: whatever failed before, the first update that is recorded is a
\* complete one, even if updates overlap.
THEOREM FirstIsComplete == Spec => []FirstUpdateIsComplete
<1> DEFINE Inv == TypeOK /\ \A s \in Sources : Complete(s)
<1>1. Init => Inv
  <2> SUFFICES ASSUME Init PROVE Inv
    OBVIOUS
  <2>1. TypeOK
    BY InitLock DEF LockInv
  <2> QED
    BY <2>1 DEF Init, Complete, FlagNeedsStored, SuccessIsStored, Nothing
<1>2. Inv /\ [Next]_vars => Inv'
  <2> SUFFICES ASSUME Inv, [Next]_vars PROVE Inv'
    OBVIOUS
  <2>1. TypeOK'
    BY NextType
  <2>2. \A s \in Sources : Complete(s)'
    BY NextComplete
  <2> QED
    BY <2>1, <2>2
<1>3. Inv => FirstUpdateIsComplete
  BY DEF Complete, FirstUpdateIsComplete
<1> QED
  BY <1>1, <1>2, <1>3, PTL DEF Spec

-----------------------------------------------------------------------------
(* What is stored, flagged and told, as long as one update runs at a time.    *)

\* No two updates run.
Exclusive ==
    \A p, q \in Owners : up[p] # "none" /\ up[q] # "none" => p = q
\* What overlapped records.
NoneOverlapped == ~overlapped => Exclusive

\* Revisions only go up: from what is stored to what was fetched to upstream.
Between(label, old, new, most) ==
    new # 0 =>
        /\ label \in {"fetch", "namespaces", "vulnerabilities", "notifications", "flags"}
        /\ old <= new /\ new <= most
        /\ label \in {"notifications", "flags"} => new = old
FetchedBy(p, s) == Between(up[p], stored[s], got[p][s], upstream[s])
FetchedIsNewer(s) ==
    /\ flags[s] <= stored[s] /\ stored[s] <= upstream[s]
    /\ \A p \in Owners : FetchedBy(p, s)

\* What was told is stored, and what is about to be told was not told before.
ToldIsOlder(s) ==
    /\ \A d \in told : d.source = s => d.new <= stored[s]
    /\ \A p \in Owners : up[p] = "notifications" =>
        \A c \in changes[p] : c.source = s =>
            /\ c.new <= stored[s]
            /\ \A d \in told : d.source = s => d.new < c.new

\* The revisions are numbers.
LEMMA Numbers ==
    ASSUME TypeOK
    PROVE  /\ flags \in [Sources -> Nat] /\ stored \in [Sources -> Nat]
           /\ upstream \in [Sources -> Nat] /\ got \in [Owners -> [Sources -> Nat]]
           /\ \A p \in Owners : \A c \in changes[p] : c.new \in Nat
           /\ \A d \in told : d.new \in Nat
BY Constants DEF TypeOK, Revisions, Changes

\* The order of numbers.
LEMMA Reflexive ==
    ASSUME NEW i \in Nat
    PROVE  i <= i
OBVIOUS

\* Orders chain.
LEMMA Trans ==
    ASSUME NEW i \in Nat, NEW j \in Nat, NEW k \in Nat, i <= j, j <= k
    PROVE  i <= k /\ (j < k => i < k)
OBVIOUS

\* Sources may publish.
LEMMA PublishedAfter ==
    ASSUME NEW label, NEW old \in Nat, NEW new \in Nat, NEW most \in Nat, NEW more \in Nat,
           most <= more, Between(label, old, new, most)
    PROVE  Between(label, old, new, more)
BY DEF Between

\* Nothing was fetched by an update that has ended.
LEMMA OverFetchedNothing ==
    ASSUME NEW label \in {"none", "done", "last"}, NEW old, NEW new, NEW most,
           Between(label, old, new, most)
    PROVE  new = 0
BY DEF Between

\* What is fetched is what upstream has, if it is anything.
LEMMA FetchedAnswer ==
    ASSUME NEW label \in {"fetch", "namespaces"}, NEW old \in Nat, NEW new \in Nat,
           NEW most \in Nat, NEW answer \in {0, new, most}, old <= most,
           Between("fetch", old, new, most)
    PROVE  Between(label, old, answer, most)
BY DEF Between

\* A change is found where what was fetched is not what is stored.
LEMMA FoundChange ==
    ASSUME NEW p, NEW c \in FoundChanges(p)
    PROVE  /\ c.new = got[p][c.source]
           /\ c.new # 0 /\ c.new # stored[c.source]
BY DEF FoundChanges

\* A number that is not another is below it or above it.
LEMMA Strict ==
    ASSUME NEW i \in Nat, NEW j \in Nat, i <= j, j # i
    PROVE  i < j
OBVIOUS

\* What is stored is what was fetched, if it is anything.
LEMMA StoredFetched ==
    ASSUME NEW r \in Sources, TypeOK, FetchedIsNewer(r), NEW p \in Owners, UpdateVulnerabilities(p)
    PROVE  /\ stored'[r] \in Nat /\ stored[r] <= stored'[r]
           /\ flags'[r] <= stored'[r] /\ stored'[r] <= upstream'[r]
           /\ got[p][r] # 0 => got[p][r] = stored'[r]
           /\ got[p][r] # 0 /\ got[p][r] # stored[r] => stored[r] < stored'[r]
<1>0. /\ flags[r] \in Nat /\ stored[r] \in Nat /\ upstream[r] \in Nat /\ got[p][r] \in Nat
  BY Numbers, Zenon
<1>1. /\ up[p] = "vulnerabilities" /\ UNCHANGED <<flags, upstream>>
      /\ got[p][r] = 0 => stored'[r] = stored[r]
      /\ got[p][r] # 0 => stored'[r] = got[p][r]
  BY Zenon DEF UpdateVulnerabilities
<1>2. /\ flags[r] <= stored[r] /\ stored[r] <= upstream[r]
      /\ got[p][r] # 0 => stored[r] <= got[p][r] /\ got[p][r] <= upstream[r]
  BY Zenon DEF FetchedIsNewer, FetchedBy, Between
<1>3. CASE got[p][r] = 0
  BY <1>0, <1>1, <1>2, <1>3, Reflexive, Zenon
<1>4. CASE got[p][r] # 0
  BY <1>0, <1>1, <1>2, <1>4, Trans, Strict, Zenon
<1> QED
  BY <1>3, <1>4

\* What was fetched waits to be stored.
LEMMA FetchedWaits ==
    ASSUME NEW label, NEW later \in {"fetch", "namespaces", "vulnerabilities"},
           NEW old, NEW new, NEW most, Between(label, old, new, most)
    PROVE  Between(later, old, new, most)
BY DEF Between

\* A step of one update that leaves the database alone.
LEMMA OneMoves ==
    ASSUME NEW r \in Sources, FetchedIsNewer(r), NEW p \in Owners, FetchedBy(p, r)',
           UNCHANGED <<flags, stored, upstream>>,
           \A q \in Owners : q # p => UNCHANGED <<up[q], got[q]>>
    PROVE  FetchedIsNewer(r)'
BY Zenon DEF FetchedIsNewer, FetchedBy

\* Each action keeps the order of the revisions.
LEMMA NextFetched ==
    ASSUME NEW r \in Sources, TypeOK, Exclusive, FetchedIsNewer(r), [Next]_vars
    PROVE  FetchedIsNewer(r)'
<1>0. /\ flags[r] \in Nat /\ stored[r] \in Nat /\ upstream[r] \in Nat
      /\ \A p \in Owners : got[p][r] \in Nat
  BY Numbers
<1>a. stored'[r] \in Nat /\ upstream'[r] \in Nat /\ \A p \in Owners : got'[p][r] \in Nat
  <2>1. TypeOK'
    BY NextType
  <2> QED
    BY <2>1, Constants DEF TypeOK, Revisions
<1>b. /\ flags[r] <= stored[r] /\ stored[r] <= upstream[r]
      /\ \A p \in Owners : FetchedBy(p, r)
  BY Zenon DEF FetchedIsNewer
<1>1. CASE Aside
  <2>1. UNCHANGED <<flags, stored>> /\ upstream[r] <= upstream'[r]
    BY <1>1, Zenon DEF Aside
  <2>2. ASSUME NEW q \in Owners PROVE FetchedBy(q, r)'
    <3>1. Between(up[q], stored'[r], got[q][r], upstream'[r])
      BY <1>0, <1>a, <1>b, <2>1, PublishedAfter, Zenon DEF FetchedBy
    <3>2. CASE Kept(q)
      BY <3>1, <3>2, Zenon DEF Kept, FetchedBy
    <3>3. CASE Over(q)
      <4>1. got'[q][r] = 0
        BY <3>1, <3>3, OverFetchedNothing, Zenon DEF Over, Nothing
      <4> QED
        BY <4>1, Zenon DEF FetchedBy, Between
    <3> QED
      BY <1>1, <3>2, <3>3, Zenon DEF Aside
  <2>3. stored[r] <= upstream'[r]
    BY <1>0, <1>a, <1>b, <2>1, Trans
  <2> QED
    BY <1>b, <2>1, <2>2, <2>3, Zenon DEF FetchedIsNewer
<1>2. ASSUME NEW p \in Owners, LockUpdate(p) \/ PersistNamespaces(p) PROVE FetchedIsNewer(r)'
  <2>1. UNCHANGED <<flags, stored, upstream, got>>
    BY <1>2, Zenon DEF LockUpdate, PersistNamespaces, database, environment
  <2>2. PICK later \in {"fetch", "vulnerabilities"} : up' = [up EXCEPT ![p] = later]
    BY <1>2, Zenon DEF LockUpdate, PersistNamespaces
  <2>3. up'[p] = later /\ \A q \in Owners : q # p => up'[q] = up[q]
    BY <2>2, Zenon DEF TypeOK
  <2>4. FetchedBy(p, r)'
    BY <1>b, <2>1, <2>3, FetchedWaits, Zenon DEF FetchedBy
  <2> QED
    BY <2>1, <2>3, <2>4, OneMoves, Zenon
<1>3. ASSUME NEW p \in Owners, NEW s \in Sources, FetchOK(p, s) \/ FetchFailed(p, s)
      PROVE  FetchedIsNewer(r)'
  <2>1. UNCHANGED <<flags, stored, upstream>> /\ up[p] = "fetch"
    BY <1>3, Zenon DEF FetchOK, FetchFailed, database, environment
  <2>2. PICK later \in {"fetch", "namespaces"} : up' = [up EXCEPT ![p] = later]
    BY <1>3, Zenon DEF FetchOK, FetchFailed
  <2>3. up'[p] = later /\ \A q \in Owners : q # p => up'[q] = up[q]
    BY <2>2, Zenon DEF TypeOK
  <2>4. PICK answer \in {0, upstream[s], got[p][s]} : got' = [got EXCEPT ![p][s] = answer]
    <3>1. CASE FetchOK(p, s)
      BY <3>1, Zenon DEF FetchOK
    <3>2. CASE FetchFailed(p, s)
      <4>1. got' = [got EXCEPT ![p][s] = got[p][s]]
        BY <3>2 DEF FetchFailed, TypeOK
      <4> QED
        BY <4>1, Zenon
    <3> QED
      BY <1>3, <3>1, <3>2
  <2>5. /\ got'[p][r] \in {0, got[p][r], upstream[r]}
        /\ \A q \in Owners : q # p => got'[q] = got[q]
    BY <2>4, Zenon DEF TypeOK
  <2>6. Between("fetch", stored[r], got[p][r], upstream[r])
    BY <1>b, <2>1, Zenon DEF FetchedBy
  <2>7. Between(later, stored[r], got'[p][r], upstream[r])
    BY <1>0, <1>b, <2>5, <2>6, FetchedAnswer, Zenon
  <2>8. FetchedBy(p, r)'
    BY <2>1, <2>3, <2>7, Zenon DEF FetchedBy
  <2> QED
    BY <2>1, <2>3, <2>5, <2>8, OneMoves, Zenon
<1>4. ASSUME NEW p \in Owners, UpdateVulnerabilities(p) PROVE FetchedIsNewer(r)'
  <2>1. up[p] = "vulnerabilities" /\ UNCHANGED <<flags, upstream>>
    BY <1>4, Zenon DEF UpdateVulnerabilities
  <2>2. ASSUME NEW q \in Owners, q # p PROVE got'[q][r] = 0
    <3>1. got'[q] = got[q]
      BY <1>4, <2>2, Zenon DEF UpdateVulnerabilities, Forget, TypeOK
    <3>2. up[q] = "none"
      BY <2>1, <2>2, Zenon DEF Exclusive
    <3> QED
      BY <1>b, <3>1, <3>2, OverFetchedNothing, Zenon DEF FetchedBy
  <2>3. \/ got'[p][r] = 0
        \/ up'[p] \in {"flags", "notifications"} /\ got'[p] = got[p]
    <3>1. CASE Forget(p, "done")
      BY <3>1, Zenon DEF Forget, Nothing, TypeOK
    <3>2. CASE ~ Forget(p, "done")
      BY <1>4, <3>2, Zenon DEF UpdateVulnerabilities, TypeOK
    <3> QED
      BY <3>1, <3>2
  <2>4. /\ flags'[r] <= stored'[r] /\ stored'[r] <= upstream'[r]
        /\ stored'[r] <= stored'[r]
        /\ got[p][r] # 0 => got[p][r] = stored'[r]
    BY <1>4, StoredFetched, Reflexive, Zenon
  <2>5. FetchedBy(p, r)'
    BY <2>3, <2>4, Zenon DEF FetchedBy, Between
  <2>6. \A q \in Owners : q # p => FetchedBy(q, r)'
    BY <2>2, Zenon DEF FetchedBy, Between
  <2> QED
    BY <2>4, <2>5, <2>6, Zenon DEF FetchedIsNewer
<1>5. ASSUME NEW p \in Owners, CreateNotifications(p) PROVE FetchedIsNewer(r)'
  <2>1. up[p] = "notifications" /\ UNCHANGED <<stored, flags, upstream>>
    BY <1>5, Zenon DEF CreateNotifications
  <2>2. \A q \in Owners : q # p => UNCHANGED <<up[q], got[q]>>
    BY <1>5, Zenon DEF CreateNotifications, Forget, TypeOK
  <2>3. got'[p] = Nothing \/ (up'[p] = "flags" /\ got'[p] = got[p])
    BY <1>5, Zenon DEF CreateNotifications, Forget, TypeOK
  <2>4. FetchedBy(p, r)'
    BY <1>b, <2>1, <2>3, Zenon DEF FetchedBy, Between, Nothing
  <2> QED
    BY <2>1, <2>2, <2>4, OneMoves, Zenon
<1>6. ASSUME NEW p \in Owners, NEW s \in Sources, UpdateFlag(p, s) PROVE FetchedIsNewer(r)'
  <2>1. up[p] = "flags" /\ got[p][s] # 0 /\ UNCHANGED <<up, stored, upstream>>
    BY <1>6, Zenon DEF UpdateFlag, environment
  <2>2. /\ flags'[r] = IF r = s THEN got[p][r] ELSE flags[r]
        /\ got'[p][r] \in {0, got[p][r]} /\ \A q \in Owners : q # p => got'[q] = got[q]
    BY <1>6, Zenon DEF UpdateFlag, TypeOK
  <2>3. r = s => got[p][r] = stored[r]
    BY <1>b, <2>1, Zenon DEF FetchedBy, Between
  <2>4. flags'[r] <= stored'[r]
    BY <1>0, <1>b, <2>1, <2>2, <2>3, Reflexive, Zenon
  <2>5. FetchedBy(p, r)' /\ \A q \in Owners : q # p => FetchedBy(q, r)'
    BY <1>b, <2>1, <2>2, Zenon DEF FetchedBy, Between
  <2> QED
    BY <1>b, <2>1, <2>4, <2>5, Zenon DEF FetchedIsNewer
<1>7. ASSUME NEW p \in Owners, FlagsUpdated(p) \/ SetLastUpdateTime(p) PROVE FetchedIsNewer(r)'
  <2>1. /\ UNCHANGED <<flags, stored, upstream, got>>
        /\ \A q \in Owners : q # p => up'[q] = up[q]
    BY <1>7, Zenon DEF FlagsUpdated, SetLastUpdateTime, database, environment, TypeOK
  <2>2. got[p] = Nothing \/ up[p] = "last"
    BY <1>7, Zenon DEF FlagsUpdated, SetLastUpdateTime
  <2>3. got'[p][r] = 0
    BY <1>b, <2>1, <2>2, OverFetchedNothing, Zenon DEF Nothing, FetchedBy
  <2>4. FetchedBy(p, r)'
    BY <2>3, Zenon DEF FetchedBy, Between
  <2> QED
    BY <2>1, <2>4, OneMoves, Zenon
<1> QED
  BY <1>1, <1>2, <1>3, <1>4, <1>5, <1>6, <1>7, StepsOfUpdates, Zenon

\* A step that neither stores nor notifies, and brings no update to its changes.
LEMMA ToldKept ==
    ASSUME NEW r \in Sources, ToldIsOlder(r), UNCHANGED <<stored, told>>,
           \A q \in Owners : up'[q] = "notifications" =>
                up[q] = "notifications" /\ changes'[q] = changes[q]
    PROVE  ToldIsOlder(r)'
BY Zenon DEF ToldIsOlder

\* Each action keeps what was told older than what is to be told.
LEMMA NextTold ==
    ASSUME NEW r \in Sources, TypeOK, Exclusive, FetchedIsNewer(r), ToldIsOlder(r), [Next]_vars
    PROVE  ToldIsOlder(r)'
<1>0. /\ flags[r] \in Nat /\ stored[r] \in Nat /\ upstream[r] \in Nat
      /\ \A p \in Owners : got[p][r] \in Nat
      /\ \A d \in told : d.new \in Nat
  BY Numbers, Zenon
<1>1. CASE Aside
  <2>1. UNCHANGED <<stored, told>>
    BY <1>1, Zenon DEF Aside
  <2>2. ASSUME NEW q \in Owners, up'[q] = "notifications"
        PROVE  up[q] = "notifications" /\ changes'[q] = changes[q]
    BY <1>1, <2>2, Zenon DEF Aside, Kept, Over
  <2> QED
    BY <2>1, <2>2, ToldKept, Zenon
<1>2. ASSUME NEW p \in Owners,
             LockUpdate(p) \/ PersistNamespaces(p) \/ FlagsUpdated(p) \/ SetLastUpdateTime(p)
      PROVE  ToldIsOlder(r)'
  <2>1. /\ UNCHANGED <<stored, told>>
        /\ \A q \in Owners : q # p => changes'[q] = changes[q]
    BY <1>2, Zenon DEF TypeOK, LockUpdate, PersistNamespaces, FlagsUpdated, SetLastUpdateTime, database
  <2>2. PICK later \in {"fetch", "vulnerabilities", "last", "done"} : up' = [up EXCEPT ![p] = later]
    BY <1>2, Zenon DEF LockUpdate, PersistNamespaces, FlagsUpdated, SetLastUpdateTime
  <2>3. ASSUME NEW q \in Owners, up'[q] = "notifications" PROVE q # p /\ up[q] = "notifications"
    BY <2>2, <2>3, Zenon DEF TypeOK
  <2> QED
    BY <2>1, <2>3, ToldKept, Zenon
<1>3. ASSUME NEW p \in Owners, NEW s \in Sources,
             FetchOK(p, s) \/ FetchFailed(p, s) \/ UpdateFlag(p, s)
      PROVE  ToldIsOlder(r)'
  <2>1. UNCHANGED <<stored, told, changes>>
    BY <1>3, Zenon DEF FetchOK, FetchFailed, UpdateFlag, database
  <2>2. up' = up \/ \E later \in {"fetch", "namespaces"} : up' = [up EXCEPT ![p] = later]
    BY <1>3, Zenon DEF FetchOK, FetchFailed, UpdateFlag
  <2>3. ASSUME NEW q \in Owners, up'[q] = "notifications" PROVE up[q] = "notifications"
    BY <2>2, <2>3, Zenon DEF TypeOK
  <2> QED
    BY <2>1, <2>3, ToldKept, Zenon
<1>4. ASSUME NEW p \in Owners, UpdateVulnerabilities(p) PROVE ToldIsOlder(r)'
  <2>1. up[p] = "vulnerabilities" /\ UNCHANGED told
    BY <1>4, Zenon DEF UpdateVulnerabilities
  <2>2. /\ stored'[r] \in Nat /\ stored[r] <= stored'[r]
        /\ got[p][r] # 0 /\ got[p][r] # stored[r] =>
              stored[r] < stored'[r] /\ got[p][r] = stored'[r]
    BY <1>4, StoredFetched, Zenon
  <2>3. ASSUME NEW q \in Owners, q # p PROVE up'[q] # "notifications"
    <3>1. up'[q] = up[q]
      BY <1>4, <2>3, Zenon DEF UpdateVulnerabilities, Forget, TypeOK
    <3> QED
      BY <2>1, <2>3, <3>1, Zenon DEF Exclusive
  <2>4. up'[p] = "notifications" => changes'[p] = FoundChanges(p)
    <3>1. CASE Forget(p, "done")
      <4>1. up'[p] = "done"
        BY <3>1, Zenon DEF Forget, TypeOK
      <4> QED
        BY <4>1
    <3>2. CASE ~ Forget(p, "done")
      BY <1>4, <3>2, Zenon DEF UpdateVulnerabilities, TypeOK
    <3> QED
      BY <3>1, <3>2
  <2>5. \A c \in FoundChanges(p) : c.source = r =>
            c.new = got[p][r] /\ got[p][r] # 0 /\ got[p][r] # stored[r]
    BY FoundChange, Zenon
  <2>6. ASSUME NEW d \in told, d.source = r
        PROVE  d.new <= stored'[r] /\ (stored[r] < stored'[r] => d.new < stored'[r])
    <3>1. d.new <= stored[r]
      BY <2>6, Zenon DEF ToldIsOlder
    <3> QED
      BY <1>0, <2>2, <3>1, Trans, Zenon
  <2>7. stored'[r] <= stored'[r]
    BY <2>2, Reflexive, Zenon
  <2> QED
    BY <2>1, <2>2, <2>3, <2>4, <2>5, <2>6, <2>7, Zenon DEF ToldIsOlder
<1>5. ASSUME NEW p \in Owners, CreateNotifications(p) PROVE ToldIsOlder(r)'
  <2>1. /\ up[p] = "notifications" /\ UNCHANGED stored
        /\ told' = told \cup changes[p]
    BY <1>5, Zenon DEF CreateNotifications
  <2>2. ASSUME NEW q \in Owners PROVE up'[q] # "notifications"
    <3>1. up'[p] \in {"flags", "done"} /\ (q # p => up'[q] = up[q])
      BY <1>5, Zenon DEF CreateNotifications, Forget, TypeOK
    <3> QED
      BY <2>1, <3>1, Zenon DEF Exclusive
  <2> QED
    BY <2>1, <2>2, Zenon DEF ToldIsOlder
<1> QED
  BY <1>1, <1>2, <1>3, <1>4, <1>5, StepsOfUpdates, Zenon

\* An update that starts next to another one is recorded.
LEMMA NextExclusive ==
    ASSUME TypeOK, NoneOverlapped, [Next]_vars
    PROVE  NoneOverlapped' /\ (~overlapped' => ~overlapped)
<1> USE DEF NoneOverlapped, Exclusive
<1>1. ASSUME UNCHANGED overlapped, \A q \in Owners : up'[q] # "none" => up[q] # "none"
      PROVE  NoneOverlapped' /\ (~overlapped' => ~overlapped)
  BY <1>1, Zenon
<1>2. CASE UNCHANGED vars
  BY <1>1, <1>2, Zenon DEF vars, update, history
<1>3. ASSUME NEW p \in Owners, LockUpdate(p)
      PROVE  NoneOverlapped' /\ (~overlapped' => ~overlapped)
  <2>1. /\ ~overlapped' => ~overlapped /\ \A q \in Owners : up[q] = "none"
        /\ \A q \in Owners : q # p => up'[q] = up[q]
    BY <1>3, Zenon DEF LockUpdate, TypeOK
  <2> QED
    BY <2>1, Zenon
<1>4. ASSUME NEW p \in Owners,
             \/ CheckDue(p) \/ CheckNotDue(p) \/ LockTaken(p) \/ LockFailed(p)
             \/ FindLock(p) \/ WakeUp(p) \/ SleepInterrupted(p)
             \/ SeeStop(p) \/ UnlockUpdate(p)
             \/ Refresh(p) \/ RefreshFailed(p) \/ Stop(p)
      PROVE  NoneOverlapped' /\ (~overlapped' => ~overlapped)
  <2>1. UNCHANGED <<overlapped, up>>
    BY <1>4, Zenon DEF CheckDue, CheckNotDue, LockTaken, LockFailed, FindLock, WakeUp,
                       SleepInterrupted, SeeStop, UnlockUpdate, Refresh, RefreshFailed, Stop,
                       update, history
  <2> QED
    BY <1>1, <2>1, Zenon
<1>5. ASSUME NEW p \in Owners, UpdateDone(p) \/ Exit(p)
      PROVE  NoneOverlapped' /\ (~overlapped' => ~overlapped)
  <2>1. UNCHANGED overlapped /\ up' = [up EXCEPT ![p] = "none"]
    BY <1>5, Zenon DEF UpdateDone, Exit, Forget
  <2> QED
    BY <1>1, <2>1, Zenon DEF TypeOK
<1>6. ASSUME NEW p \in Owners, RunUpdate(p)
      PROVE  NoneOverlapped' /\ (~overlapped' => ~overlapped)
  BY <1>1, <1>6, UpdateIsApart, Zenon DEF UpdateApart
<1>7. ASSUME NEW s \in Sources, Publish(s)
      PROVE  NoneOverlapped' /\ (~overlapped' => ~overlapped)
  BY <1>1, <1>7, Zenon DEF Publish, update, history
<1>8. CASE Tick
  BY <1>1, <1>8, Zenon DEF Tick, update, history
<1> HIDE DEF NoneOverlapped, Exclusive
<1> QED
  BY <1>2, <1>3, <1>4, <1>5, <1>6, <1>7, <1>8, Zenon DEF Next, RunUpdater, RefreshLock

\* What holds of every source until two updates overlap.
Ordered == \A s \in Sources : FetchedIsNewer(s) /\ ToldIsOlder(s)
\* The invariant that flags and notifications rest on.
DataInv == TypeOK /\ NoneOverlapped /\ (~overlapped => Ordered)

\* It holds, with or without overlaps.
LEMMA DataInvariant == Spec => []DataInv
<1>1. Init => DataInv
  <2> SUFFICES ASSUME Init PROVE DataInv
    OBVIOUS
  <2>1. TypeOK
    BY InitLock DEF LockInv
  <2>2. \A s \in Sources : FetchedIsNewer(s)
    BY DEF Init, FetchedIsNewer, FetchedBy, Between, Nothing
  <2>3. \A s \in Sources : ToldIsOlder(s)
    BY DEF Init, ToldIsOlder
  <2>4. NoneOverlapped
    BY DEF Init, NoneOverlapped, Exclusive
  <2> QED
    BY <2>1, <2>2, <2>3, <2>4, Zenon DEF DataInv, Ordered
<1>2. DataInv /\ [Next]_vars => DataInv'
  <2> SUFFICES ASSUME DataInv, [Next]_vars PROVE DataInv'
    OBVIOUS
  <2>1. TypeOK'
    BY NextType, Zenon DEF DataInv
  <2>2. NoneOverlapped' /\ (~overlapped' => ~overlapped)
    BY NextExclusive, Zenon DEF DataInv
  <2>3. ASSUME ~overlapped, NEW s \in Sources PROVE FetchedIsNewer(s)' /\ ToldIsOlder(s)'
    <3>1. TypeOK /\ Exclusive /\ FetchedIsNewer(s) /\ ToldIsOlder(s)
      BY <2>3, Zenon DEF DataInv, NoneOverlapped, Ordered
    <3> QED
      BY <3>1, NextFetched, NextTold, Zenon
  <2> QED
    BY <2>1, <2>2, <2>3, Zenon DEF DataInv, Ordered
<1> QED
  BY <1>1, <1>2, PTL DEF Spec

\* Until two updates overlap, a source's flag does not run ahead of its
\* vulnerabilities, for any number of sources and revisions, whichever
\* transaction was the last to commit, and whatever fails, crashes or stops.
THEOREM FlagsFollow == Spec => []FlagImpliesStored
<1>1. DataInv => FlagImpliesStored
  BY DEF DataInv, Ordered, FetchedIsNewer, FlagImpliesStored
<1> QED
  BY <1>1, DataInvariant, PTL

\* Until two updates overlap, no change is notified twice: an update finds no
\* change where one before it stored it, although it may have failed before its
\* end.
THEOREM ToldOnce == Spec => []NotifiedOnce
<1>1. DataInv => NotifiedOnce
  <2> SUFFICES ASSUME TypeOK, \A s \in Sources : ToldIsOlder(s),
                      NEW p \in Owners, up[p] = "notifications",
                      NEW c \in changes[p], NEW d \in told, c.source = d.source
               PROVE  c.new # d.new
    BY Zenon DEF NotifiedOnce, DataInv, Ordered
  <2>1. c.source \in Sources /\ c.new \in Nat /\ d.new \in Nat
    BY Constants DEF TypeOK, Changes, Revisions
  <2>2. d.new < c.new
    BY <2>1 DEF ToldIsOlder
  <2> QED
    BY <2>1, <2>2
<1> QED
  BY <1>1, DataInvariant, PTL
=============================================================================
