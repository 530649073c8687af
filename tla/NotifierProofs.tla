--------------------------- MODULE NotifierProofs ---------------------------
(***************************************************************************)
(* Proofs about Notifier, for any set of instances, notifications and      *)
(* senders, and any durations that leave room for the refreshes that may   *)
(* fail in a row.                                                          *)
(*                                                                         *)
(* HandlesOwnLock is not inductive: the row of a handler must also be      *)
(* known not to expire.  Budget says how much of the lock's duration may   *)
(* be gone: the time since the last refresh, and one late refresh for each *)
(* that failed.                                                            *)
(***************************************************************************)
EXTENDS Notifier, TLAPS

\* The longest time between two refreshes.
Period == RefreshDuration + RefreshDelay

\* An instance that has locked its task, or is about to, has a task.
HasTask ==
    \A p \in Owners : pc[p] \in {"lock", "done"} \cup Handling => task[p] \in Names

\* The select starts with no time gone and no errors.
SelectStarts ==
    \A p \in Owners : ~InSelect(p) => refresh[p] = 0 /\ errors[p] = 0

\* What is gone of a handler's lock was spent since its last refresh, or on
\* refreshes that failed.
Budget ==
    \A p \in Owners : pc[p] \in Handling =>
        LockDuration <= locks[task[p]].until + refresh[p] + errors[p] * Period

\* What handleTask has done so far.
Sent ==
    \A p \in Owners :
        /\ pc[p] \in {"send", "backoff", "mark"} =>
              {task[p]} \X (Senders \ todo[p]) \subseteq delivered
        /\ pc[p] = "mark" => todo[p] = {}

LockInv == TypeOK /\ HasTask /\ SelectStarts /\ HandlesOwnLock /\ Budget
SentInv == TypeOK /\ HasTask /\ Sent /\ NotifiedIsDelivered

Rows == [owner : Owners \cup {NoOwner}, until : -1 .. LockDuration]

-----------------------------------------------------------------------------
\* The assumptions that are linear.
LEMMA Constants ==
    /\ NoOwner \notin Owners
    /\ Senders # {}
    /\ LockDuration \in Nat \ {0}
    /\ RefreshDuration \in Nat \ {0} /\ RefreshDelay \in Nat
    /\ RenotifyInterval \in Nat \ {0}
    /\ MaxRefreshErrors \in Nat /\ MaxAttempts \in Nat
    /\ Mortal \cup Stoppable \subseteq Owners
BY NotifierAssumption, NoOwnerAssumption

\* So refreshes take time.
LEMMA PeriodPositive == Period \in Nat \ {0} /\ LockDuration \in Nat
BY Constants DEF Period

\* The rows of the table stay rows by pruning, ...
LEMMA PruneType ==
    ASSUME locks \in [Names -> Rows]
    PROVE  pruneLocks(locks, 0) \in [Names -> Rows]
BY Constants DEF pruneLocks, NoRow, Rows

\* ... by an insertion, ...
LEMMA LockType ==
    ASSUME locks \in [Names -> Rows], NEW n, NEW p \in Owners
    PROVE  Lock(locks, n, p, 0, LockDuration) \in [Names -> Rows]
<1>1. [owner |-> p, until |-> LockDuration] \in Rows
  BY Constants DEF Rows
<1> QED
  BY <1>1, PruneType, Zenon DEF Lock

\* ... by a renewal, ...
LEMMA RenewType ==
    ASSUME locks \in [Names -> Rows], NEW n \in Names
    PROVE  Renew(locks, n, LockDuration) \in [Names -> Rows]
BY Constants DEF Renew, Rows

\* ... and by a removal.
LEMMA UnlockType ==
    ASSUME locks \in [Names -> Rows], NEW n \in Names, NEW p
    PROVE  Unlock(locks, n, p) \in [Names -> Rows]
BY Constants DEF Unlock, NoRow, Rows

\* Arithmetic: one more failed refresh costs one more period.
LEMMA OneMoreError ==
    ASSUME NEW e \in Nat
    PROVE  e * Period \in Nat /\ (e + 1) * Period = e * Period + Period
<1>1. \A r, k \in Nat : k * r \in Nat /\ (k + 1) * r = k * r + r
  OBVIOUS
<1> QED
  BY <1>1, PeriodPositive

\* The errors that may happen in a row leave one period of the duration.
LEMMA ErrorsFit ==
    ASSUME NEW e \in 0 .. MaxRefreshErrors
    PROVE  e * Period \in Nat /\ e * Period + Period <= LockDuration
<1>1. \A r, k, m \in Nat : k <= m => k * r \in Nat /\ k * r + r <= (m + 1) * r
  <2> SUFFICES ASSUME NEW r \in Nat, NEW k \in Nat, NEW m \in Nat, k <= m
               PROVE  k * r \in Nat /\ k * r + r <= (m + 1) * r
    OBVIOUS
  <2>1. PICK d \in Nat : m = k + d
    <3> WITNESS m - k \in Nat
    <3> QED OBVIOUS
  <2>2. d * r \in Nat /\ k * r \in Nat
    OBVIOUS
  <2>3. (m + 1) * r = k * r + r + d * r
    BY <2>1
  <2> QED
    BY <2>2, <2>3
<1>2. (MaxRefreshErrors + 1) * Period <= LockDuration
  BY NotifierAssumption DEF Period
<1> QED
  BY <1>1, <1>2, PeriodPositive, Constants

\* A row that a handler relies on has not expired, and survives a tick.
LEMMA RowAlive ==
    ASSUME TypeOK, Budget, HasTask, NEW p \in Owners, pc[p] \in Handling
    PROVE  /\ task[p] \in Names
           /\ locks[task[p]].until >= 0
           /\ refresh[p] < Period => locks[task[p]].until >= 1
<1>1. task[p] \in Names /\ locks[task[p]].until \in Int
  BY DEF TypeOK, HasTask
<1>2. refresh[p] \in Nat /\ refresh[p] <= Period /\ errors[p] \in 0 .. MaxRefreshErrors
  BY Constants DEF TypeOK, Period
<1>3. errors[p] * Period \in Nat /\ errors[p] * Period + Period <= LockDuration
  BY <1>2, ErrorsFit
<1>4. LockDuration <= locks[task[p]].until + refresh[p] + errors[p] * Period
  BY DEF Budget
<1> DEFINE u == locks[task[p]].until
           e == errors[p] * Period
           r == refresh[p]
<1>5. u \in Int /\ r \in Nat /\ e \in Nat /\ r <= Period /\ e + Period <= LockDuration
      /\ LockDuration <= u + r + e
  BY <1>1, <1>2, <1>3, <1>4
<1> HIDE DEF u, e, r
<1>6. u >= 0 /\ (r < Period => u >= 1)
  BY <1>5, PeriodPositive
<1> QED
  BY <1>1, <1>6 DEF u, r

-----------------------------------------------------------------------------
\* No instance handles anything at first, ...
LEMMA InitLock == Init => LockInv
BY Constants DEF Init, LockInv, TypeOK, HasTask, SelectStarts, HandlesOwnLock, Budget, EmptyTable,
       NoRow, Note, Labels, Finding, Handling, InSelect

\* ... and nothing has been sent or marked.
LEMMA InitSent == Init => SentInv
BY InitLock DEF Init, SentInv, LockInv, Sent, NotifiedIsDelivered

\* The rows, the counters and the places in the code stay within their types.
LEMMA NextType ==
    TypeOK /\ HasTask /\ [Next]_vars => TypeOK'
<1> SUFFICES ASSUME TypeOK, HasTask, [Next]_vars
             PROVE  TypeOK'
  OBVIOUS
<1> USE Constants DEF TypeOK, Note, Labels, Finding, Handling, handler, select, InSelect
<1>1. CASE UNCHANGED vars
  BY <1>1 DEF vars
<1>2. ASSUME NEW p \in Owners, NEW n \in Names, Find(p, n) PROVE TypeOK'
  BY <1>2 DEF Find, Go
<1>3. ASSUME NEW p \in Owners, FindNothing(p) PROVE TypeOK'
  BY <1>3 DEF FindNothing, Go
<1>4. ASSUME NEW p \in Owners, WakeUp(p) PROVE TypeOK'
  BY <1>4 DEF WakeUp, Go
<1>5. ASSUME NEW p \in Owners, SleepInterrupted(p) PROVE TypeOK'
  BY <1>5 DEF SleepInterrupted, Go
<1>6. ASSUME NEW p \in Owners, LockTask(p) PROVE TypeOK'
  <2>1. locks' \in [Names -> Rows]
    BY <1>6, LockType DEF LockTask, Rows
  <2> QED
    BY <1>6, <2>1 DEF LockTask, Go, Rows
<1>7. ASSUME NEW p \in Owners, LockTaskFailed(p) PROVE TypeOK'
  <2>1. locks' \in [Names -> Rows]
    BY <1>7, LockType DEF LockTaskFailed, Rows
  <2> QED
    BY <1>7, <2>1 DEF LockTaskFailed, Go, Rows
<1>8. ASSUME NEW p \in Owners, NEW s \in Senders, SendOK(p, s) PROVE TypeOK'
  <2>1. task[p] \in Names
    BY <1>8 DEF SendOK, Go, HasTask
  <2> QED
    BY <1>8, <2>1 DEF SendOK, Go
<1>9. ASSUME NEW p \in Owners, NEW s \in Senders, SendFailed(p, s) PROVE TypeOK'
  BY <1>9 DEF SendFailed, Go
<1>10. ASSUME NEW p \in Owners, BackoffOver(p) PROVE TypeOK'
  BY <1>10 DEF BackoffOver, Go
<1>11. ASSUME NEW p \in Owners, BackoffInterrupted(p) PROVE TypeOK'
  BY <1>11 DEF BackoffInterrupted, Abandon
<1>12. ASSUME NEW p \in Owners, GiveUp(p) PROVE TypeOK'
  BY <1>12 DEF GiveUp, Abandon
<1>13. ASSUME NEW p \in Owners, Mark(p) PROVE TypeOK'
  <2> DEFINE told == [notes EXCEPT ![task[p]].notified = TRUE]
  <2>1. told \in [Names -> Note]
    <3>1. notes \in [Names -> Note]
      OBVIOUS
    <3> HIDE DEF TypeOK
    <3> QED
      BY <3>1
  <2>2. notes' = [told EXCEPT ![task[p]].age = 0]
    BY <1>13 DEF Mark
  <2> HIDE DEF told
  <2>3. told[task[p]] \in Note /\ 0 \in 0 .. RenotifyInterval + 1
    BY <2>1, <1>13, HasTask DEF HasTask, Mark, Go
  <2>4. [told[task[p]] EXCEPT !.age = 0] \in Note
    BY <2>3, Zenon
  <2>5. notes' = [told EXCEPT ![task[p]] = [told[task[p]] EXCEPT !.age = 0]]
    BY <2>2
  <2>6. notes' \in [Names -> Note]
    BY <2>1, <2>4, <2>5, Zenon
  <2> QED
    BY <1>13, <2>6 DEF Mark, Go
<1>14. ASSUME NEW p \in Owners, MarkFailed(p) PROVE TypeOK'
  BY <1>14 DEF MarkFailed, Go
<1>15. ASSUME NEW p \in Owners, UnlockTask(p) PROVE TypeOK'
  <2>1. locks' \in [Names -> Rows]
    BY <1>15, UnlockType DEF UnlockTask, Go, HasTask, Rows
  <2> QED
    BY <1>15, <2>1 DEF UnlockTask, Go, Rows
<1>16. ASSUME NEW p \in Owners, UnlockTaskFailed(p) PROVE TypeOK'
  BY <1>16 DEF UnlockTaskFailed, Go
<1>17. ASSUME NEW p \in Owners, Refresh(p) PROVE TypeOK'
  <2>1. locks' \in [Names -> Rows]
    BY <1>17, RenewType DEF Refresh, HasTask, Rows
  <2> QED
    BY <1>17, <2>1 DEF Refresh, Rows
<1>18. ASSUME NEW p \in Owners, RefreshFailed(p) PROVE TypeOK'
  BY <1>18 DEF RefreshFailed
<1>19. ASSUME NEW p \in Owners, SeeStop(p) PROVE TypeOK'
  BY <1>19 DEF SeeStop
<1>20. ASSUME NEW p \in Owners, Done(p) PROVE TypeOK'
  BY <1>20 DEF Done, Go
<1>21. ASSUME NEW p \in Owners, Stop(p) PROVE TypeOK'
  BY <1>21 DEF Stop
<1>22. ASSUME NEW p \in Owners, Crash(p) PROVE TypeOK'
  BY <1>22 DEF Crash
<1>23. ASSUME NEW n \in Names, NewNotification(n) PROVE TypeOK'
  BY <1>23 DEF NewNotification
<1>24. ASSUME NEW n \in Names, DeleteNotification(n) PROVE TypeOK'
  BY <1>24 DEF DeleteNotification
<1>25. CASE UpdaterLock
  <2>1. locks' \in [Names -> Rows]
    BY <1>25, PruneType DEF UpdaterLock, Rows
  <2> QED
    BY <1>25, <2>1 DEF UpdaterLock, Rows
<1>26. CASE Tick
  <2>1. locks' \in [Names -> Rows]
    BY <1>26 DEF Tick, Rows
  <2>2. notes' \in [Names -> Note]
    BY <1>26 DEF Tick
  <2>3. refresh' \in [Owners -> 0 .. RefreshDuration + RefreshDelay]
    BY <1>26 DEF Tick
  <2> QED
    BY <1>26, <2>1, <2>2, <2>3 DEF Tick, Rows
<1> QED
  BY <1>1, <1>2, <1>3, <1>4, <1>5, <1>6, <1>7, <1>8, <1>9, <1>10, <1>11,
     <1>12, <1>13, <1>14, <1>15, <1>16, <1>17, <1>18, <1>19, <1>20, <1>21,
     <1>22, <1>23, <1>24, <1>25, <1>26, Zenon
     DEF Next, FindTask, HandleTask, RefreshLoop, Environment

\* A notifier past findTask has a task.
LEMMA NextHasTask ==
    TypeOK /\ HasTask /\ [Next]_vars => HasTask'
<1> SUFFICES ASSUME TypeOK, HasTask, [Next]_vars
             PROVE  HasTask'
  OBVIOUS
<1> USE Constants DEF TypeOK, HasTask, Labels, Finding, Handling, handler, select, InSelect
<1>1. CASE UNCHANGED vars
  BY <1>1 DEF vars
<1>2. ASSUME NEW p \in Owners, NEW n \in Names, Find(p, n) PROVE HasTask'
  BY <1>2 DEF Find, Go
<1>3. ASSUME NEW p \in Owners, FindNothing(p) PROVE HasTask'
  BY <1>3 DEF FindNothing, Go
<1>4. ASSUME NEW p \in Owners, WakeUp(p) PROVE HasTask'
  BY <1>4 DEF WakeUp, Go
<1>5. ASSUME NEW p \in Owners, SleepInterrupted(p) PROVE HasTask'
  BY <1>5 DEF SleepInterrupted, Go
<1>6. ASSUME NEW p \in Owners, LockTask(p) PROVE HasTask'
  BY <1>6 DEF LockTask, Go, Lock, pruneLocks, NoRow
<1>7. ASSUME NEW p \in Owners, LockTaskFailed(p) PROVE HasTask'
  BY <1>7 DEF LockTaskFailed, Go, Lock, pruneLocks, NoRow
<1>8. ASSUME NEW p \in Owners, NEW s \in Senders, SendOK(p, s) PROVE HasTask'
  BY <1>8 DEF SendOK, Go
<1>9. ASSUME NEW p \in Owners, NEW s \in Senders, SendFailed(p, s) PROVE HasTask'
  BY <1>9 DEF SendFailed, Go
<1>10. ASSUME NEW p \in Owners, BackoffOver(p) PROVE HasTask'
  BY <1>10 DEF BackoffOver, Go
<1>11. ASSUME NEW p \in Owners, BackoffInterrupted(p) PROVE HasTask'
  BY <1>11 DEF BackoffInterrupted, Abandon
<1>12. ASSUME NEW p \in Owners, GiveUp(p) PROVE HasTask'
  BY <1>12 DEF GiveUp, Abandon
<1>13. ASSUME NEW p \in Owners, Mark(p) PROVE HasTask'
  BY <1>13 DEF Mark, Go
<1>14. ASSUME NEW p \in Owners, MarkFailed(p) PROVE HasTask'
  BY <1>14 DEF MarkFailed, Go
<1>15. ASSUME NEW p \in Owners, UnlockTask(p) PROVE HasTask'
  BY <1>15 DEF UnlockTask, Go, Unlock, NoRow
<1>16. ASSUME NEW p \in Owners, UnlockTaskFailed(p) PROVE HasTask'
  BY <1>16 DEF UnlockTaskFailed, Go
<1>17. ASSUME NEW p \in Owners, Refresh(p) PROVE HasTask'
  BY <1>17 DEF Refresh, Renew
<1>18. ASSUME NEW p \in Owners, RefreshFailed(p) PROVE HasTask'
  BY <1>18 DEF RefreshFailed
<1>19. ASSUME NEW p \in Owners, SeeStop(p) PROVE HasTask'
  BY <1>19 DEF SeeStop
<1>20. ASSUME NEW p \in Owners, Done(p) PROVE HasTask'
  BY <1>20 DEF Done, Go
<1>21. ASSUME NEW p \in Owners, Stop(p) PROVE HasTask'
  BY <1>21 DEF Stop
<1>22. ASSUME NEW p \in Owners, Crash(p) PROVE HasTask'
  BY <1>22 DEF Crash
<1>23. ASSUME NEW n \in Names, NewNotification(n) PROVE HasTask'
  BY <1>23 DEF NewNotification
<1>24. ASSUME NEW n \in Names, DeleteNotification(n) PROVE HasTask'
  BY <1>24 DEF DeleteNotification
<1>25. CASE UpdaterLock
  BY <1>25 DEF UpdaterLock, pruneLocks, NoRow
<1>26. CASE Tick
  BY <1>26 DEF Tick
<1> QED
  BY <1>1, <1>2, <1>3, <1>4, <1>5, <1>6, <1>7, <1>8, <1>9, <1>10, <1>11,
     <1>12, <1>13, <1>14, <1>15, <1>16, <1>17, <1>18, <1>19, <1>20, <1>21,
     <1>22, <1>23, <1>24, <1>25, <1>26, Zenon
     DEF Next, FindTask, HandleTask, RefreshLoop, Environment

\* The time and the errors of one stay in the select do not reach the next.
LEMMA NextSelect ==
    TypeOK /\ SelectStarts /\ [Next]_vars => SelectStarts'
<1> SUFFICES ASSUME TypeOK, SelectStarts, [Next]_vars
             PROVE  SelectStarts'
  OBVIOUS
<1> USE Constants DEF TypeOK, SelectStarts, Labels, Finding, Handling, handler, select, InSelect
<1>1. CASE UNCHANGED vars
  BY <1>1 DEF vars
<1>2. ASSUME NEW p \in Owners, NEW n \in Names, Find(p, n) PROVE SelectStarts'
  BY <1>2 DEF Find, Go
<1>3. ASSUME NEW p \in Owners, FindNothing(p) PROVE SelectStarts'
  BY <1>3 DEF FindNothing, Go
<1>4. ASSUME NEW p \in Owners, WakeUp(p) PROVE SelectStarts'
  BY <1>4 DEF WakeUp, Go
<1>5. ASSUME NEW p \in Owners, SleepInterrupted(p) PROVE SelectStarts'
  BY <1>5 DEF SleepInterrupted, Go
<1>6. ASSUME NEW p \in Owners, LockTask(p) PROVE SelectStarts'
  BY <1>6 DEF LockTask, Go, Lock, pruneLocks, NoRow
<1>7. ASSUME NEW p \in Owners, LockTaskFailed(p) PROVE SelectStarts'
  BY <1>7 DEF LockTaskFailed, Go, Lock, pruneLocks, NoRow
<1>8. ASSUME NEW p \in Owners, NEW s \in Senders, SendOK(p, s) PROVE SelectStarts'
  BY <1>8 DEF SendOK, Go
<1>9. ASSUME NEW p \in Owners, NEW s \in Senders, SendFailed(p, s) PROVE SelectStarts'
  BY <1>9 DEF SendFailed, Go
<1>10. ASSUME NEW p \in Owners, BackoffOver(p) PROVE SelectStarts'
  BY <1>10 DEF BackoffOver, Go
<1>11. ASSUME NEW p \in Owners, BackoffInterrupted(p) PROVE SelectStarts'
  BY <1>11 DEF BackoffInterrupted, Abandon
<1>12. ASSUME NEW p \in Owners, GiveUp(p) PROVE SelectStarts'
  BY <1>12 DEF GiveUp, Abandon
<1>13. ASSUME NEW p \in Owners, Mark(p) PROVE SelectStarts'
  BY <1>13 DEF Mark, Go
<1>14. ASSUME NEW p \in Owners, MarkFailed(p) PROVE SelectStarts'
  BY <1>14 DEF MarkFailed, Go
<1>15. ASSUME NEW p \in Owners, UnlockTask(p) PROVE SelectStarts'
  BY <1>15 DEF UnlockTask, Go, Unlock, NoRow
<1>16. ASSUME NEW p \in Owners, UnlockTaskFailed(p) PROVE SelectStarts'
  BY <1>16 DEF UnlockTaskFailed, Go
<1>17. ASSUME NEW p \in Owners, Refresh(p) PROVE SelectStarts'
  BY <1>17 DEF Refresh, Renew
<1>18. ASSUME NEW p \in Owners, RefreshFailed(p) PROVE SelectStarts'
  BY <1>18 DEF RefreshFailed
<1>19. ASSUME NEW p \in Owners, SeeStop(p) PROVE SelectStarts'
  BY <1>19 DEF SeeStop
<1>20. ASSUME NEW p \in Owners, Done(p) PROVE SelectStarts'
  BY <1>20 DEF Done, Go
<1>21. ASSUME NEW p \in Owners, Stop(p) PROVE SelectStarts'
  BY <1>21 DEF Stop
<1>22. ASSUME NEW p \in Owners, Crash(p) PROVE SelectStarts'
  BY <1>22 DEF Crash
<1>23. ASSUME NEW n \in Names, NewNotification(n) PROVE SelectStarts'
  BY <1>23 DEF NewNotification
<1>24. ASSUME NEW n \in Names, DeleteNotification(n) PROVE SelectStarts'
  BY <1>24 DEF DeleteNotification
<1>25. CASE UpdaterLock
  BY <1>25 DEF UpdaterLock, pruneLocks, NoRow
<1>26. CASE Tick
  BY <1>26 DEF Tick
<1> QED
  BY <1>1, <1>2, <1>3, <1>4, <1>5, <1>6, <1>7, <1>8, <1>9, <1>10, <1>11,
     <1>12, <1>13, <1>14, <1>15, <1>16, <1>17, <1>18, <1>19, <1>20, <1>21,
     <1>22, <1>23, <1>24, <1>25, <1>26, Zenon
     DEF Next, FindTask, HandleTask, RefreshLoop, Environment

\* A sender leaves todo only once it has accepted the notification.
LEMMA NextSent ==
    TypeOK /\ Sent /\ [Next]_vars => Sent'
<1> SUFFICES ASSUME TypeOK, Sent, [Next]_vars
             PROVE  Sent'
  OBVIOUS
<1> USE Constants DEF TypeOK, Sent, Labels, Finding, Handling, handler, select, InSelect
<1>1. CASE UNCHANGED vars
  BY <1>1 DEF vars
<1>2. ASSUME NEW p \in Owners, NEW n \in Names, Find(p, n) PROVE Sent'
  BY <1>2 DEF Find, Go
<1>3. ASSUME NEW p \in Owners, FindNothing(p) PROVE Sent'
  BY <1>3 DEF FindNothing, Go
<1>4. ASSUME NEW p \in Owners, WakeUp(p) PROVE Sent'
  BY <1>4 DEF WakeUp, Go
<1>5. ASSUME NEW p \in Owners, SleepInterrupted(p) PROVE Sent'
  BY <1>5 DEF SleepInterrupted, Go
<1>6. ASSUME NEW p \in Owners, LockTask(p) PROVE Sent'
  BY <1>6 DEF LockTask, Go, Lock, pruneLocks, NoRow
<1>7. ASSUME NEW p \in Owners, LockTaskFailed(p) PROVE Sent'
  BY <1>7 DEF LockTaskFailed, Go, Lock, pruneLocks, NoRow
<1>8. ASSUME NEW p \in Owners, NEW s \in Senders, SendOK(p, s) PROVE Sent'
  BY <1>8 DEF SendOK, Go
<1>9. ASSUME NEW p \in Owners, NEW s \in Senders, SendFailed(p, s) PROVE Sent'
  BY <1>9 DEF SendFailed, Go
<1>10. ASSUME NEW p \in Owners, BackoffOver(p) PROVE Sent'
  BY <1>10 DEF BackoffOver, Go
<1>11. ASSUME NEW p \in Owners, BackoffInterrupted(p) PROVE Sent'
  BY <1>11 DEF BackoffInterrupted, Abandon
<1>12. ASSUME NEW p \in Owners, GiveUp(p) PROVE Sent'
  BY <1>12 DEF GiveUp, Abandon
<1>13. ASSUME NEW p \in Owners, Mark(p) PROVE Sent'
  BY <1>13 DEF Mark, Go
<1>14. ASSUME NEW p \in Owners, MarkFailed(p) PROVE Sent'
  BY <1>14 DEF MarkFailed, Go
<1>15. ASSUME NEW p \in Owners, UnlockTask(p) PROVE Sent'
  BY <1>15 DEF UnlockTask, Go, Unlock, NoRow
<1>16. ASSUME NEW p \in Owners, UnlockTaskFailed(p) PROVE Sent'
  BY <1>16 DEF UnlockTaskFailed, Go
<1>17. ASSUME NEW p \in Owners, Refresh(p) PROVE Sent'
  BY <1>17 DEF Refresh, Renew
<1>18. ASSUME NEW p \in Owners, RefreshFailed(p) PROVE Sent'
  BY <1>18 DEF RefreshFailed
<1>19. ASSUME NEW p \in Owners, SeeStop(p) PROVE Sent'
  BY <1>19 DEF SeeStop
<1>20. ASSUME NEW p \in Owners, Done(p) PROVE Sent'
  BY <1>20 DEF Done, Go
<1>21. ASSUME NEW p \in Owners, Stop(p) PROVE Sent'
  BY <1>21 DEF Stop
<1>22. ASSUME NEW p \in Owners, Crash(p) PROVE Sent'
  BY <1>22 DEF Crash
<1>23. ASSUME NEW n \in Names, NewNotification(n) PROVE Sent'
  BY <1>23 DEF NewNotification
<1>24. ASSUME NEW n \in Names, DeleteNotification(n) PROVE Sent'
  BY <1>24 DEF DeleteNotification
<1>25. CASE UpdaterLock
  BY <1>25 DEF UpdaterLock, pruneLocks, NoRow
<1>26. CASE Tick
  BY <1>26 DEF Tick
<1> QED
  BY <1>1, <1>2, <1>3, <1>4, <1>5, <1>6, <1>7, <1>8, <1>9, <1>10, <1>11,
     <1>12, <1>13, <1>14, <1>15, <1>16, <1>17, <1>18, <1>19, <1>20, <1>21,
     <1>22, <1>23, <1>24, <1>25, <1>26, Zenon
     DEF Next, FindTask, HandleTask, RefreshLoop, Environment

\* Only Mark sets notified_at, when no sender is left.
LEMMA NextNotified ==
    TypeOK /\ HasTask /\ Sent /\ NotifiedIsDelivered /\ [Next]_vars => NotifiedIsDelivered'
<1> SUFFICES ASSUME TypeOK, HasTask, Sent, NotifiedIsDelivered, [Next]_vars
             PROVE  NotifiedIsDelivered'
  OBVIOUS
<1> USE Constants DEF TypeOK, NotifiedIsDelivered, Handling, handler, select
<1>1. CASE UNCHANGED vars
  BY <1>1 DEF vars
<1>2. ASSUME NEW p \in Owners, NEW n \in Names, Find(p, n) PROVE NotifiedIsDelivered'
  BY <1>2 DEF Find, Go
<1>3. ASSUME NEW p \in Owners, FindNothing(p) PROVE NotifiedIsDelivered'
  BY <1>3 DEF FindNothing, Go
<1>4. ASSUME NEW p \in Owners, WakeUp(p) PROVE NotifiedIsDelivered'
  BY <1>4 DEF WakeUp, Go
<1>5. ASSUME NEW p \in Owners, SleepInterrupted(p) PROVE NotifiedIsDelivered'
  BY <1>5 DEF SleepInterrupted, Go
<1>6. ASSUME NEW p \in Owners, LockTask(p) PROVE NotifiedIsDelivered'
  BY <1>6, Zenon DEF LockTask, Go, Lock, pruneLocks, NoRow
<1>7. ASSUME NEW p \in Owners, LockTaskFailed(p) PROVE NotifiedIsDelivered'
  BY <1>7, Zenon DEF LockTaskFailed, Go, Lock, pruneLocks, NoRow
<1>8. ASSUME NEW p \in Owners, NEW s \in Senders, SendOK(p, s) PROVE NotifiedIsDelivered'
  BY <1>8 DEF SendOK, Go
<1>9. ASSUME NEW p \in Owners, NEW s \in Senders, SendFailed(p, s) PROVE NotifiedIsDelivered'
  BY <1>9 DEF SendFailed, Go
<1>10. ASSUME NEW p \in Owners, BackoffOver(p) PROVE NotifiedIsDelivered'
  BY <1>10 DEF BackoffOver, Go
<1>11. ASSUME NEW p \in Owners, BackoffInterrupted(p) PROVE NotifiedIsDelivered'
  BY <1>11 DEF BackoffInterrupted, Abandon
<1>12. ASSUME NEW p \in Owners, GiveUp(p) PROVE NotifiedIsDelivered'
  BY <1>12 DEF GiveUp, Abandon
<1>13. ASSUME NEW p \in Owners, Mark(p) PROVE NotifiedIsDelivered'
  <2>1. task[p] \in Names /\ {task[p]} \X Senders \subseteq delivered
    BY <1>13 DEF Mark, Go, HasTask, Sent
  <2>2. \A n \in Names : n # task[p] => notes'[n] = notes[n]
    BY <1>13 DEF Mark
  <2> QED
    BY <1>13, <2>1, <2>2 DEF Mark
<1>14. ASSUME NEW p \in Owners, MarkFailed(p) PROVE NotifiedIsDelivered'
  BY <1>14 DEF MarkFailed, Go
<1>15. ASSUME NEW p \in Owners, UnlockTask(p) PROVE NotifiedIsDelivered'
  BY <1>15, Zenon DEF UnlockTask, Go, Unlock, NoRow
<1>16. ASSUME NEW p \in Owners, UnlockTaskFailed(p) PROVE NotifiedIsDelivered'
  BY <1>16 DEF UnlockTaskFailed, Go
<1>17. ASSUME NEW p \in Owners, Refresh(p) PROVE NotifiedIsDelivered'
  BY <1>17 DEF Refresh, Renew
<1>18. ASSUME NEW p \in Owners, RefreshFailed(p) PROVE NotifiedIsDelivered'
  BY <1>18 DEF RefreshFailed
<1>19. ASSUME NEW p \in Owners, SeeStop(p) PROVE NotifiedIsDelivered'
  BY <1>19 DEF SeeStop
<1>20. ASSUME NEW p \in Owners, Done(p) PROVE NotifiedIsDelivered'
  BY <1>20 DEF Done, Go
<1>21. ASSUME NEW p \in Owners, Stop(p) PROVE NotifiedIsDelivered'
  BY <1>21 DEF Stop
<1>22. ASSUME NEW p \in Owners, Crash(p) PROVE NotifiedIsDelivered'
  BY <1>22 DEF Crash
<1>23. ASSUME NEW n \in Names, NewNotification(n) PROVE NotifiedIsDelivered'
  <2>1. \A m \in Names : notes'[m].notified = notes[m].notified
    BY <1>23 DEF NewNotification
  <2> QED
    BY <1>23, <2>1 DEF NewNotification
<1>24. ASSUME NEW n \in Names, DeleteNotification(n) PROVE NotifiedIsDelivered'
  <2>1. \A m \in Names : notes'[m].notified = notes[m].notified
    BY <1>24 DEF DeleteNotification
  <2> QED
    BY <1>24, <2>1 DEF DeleteNotification
<1>25. CASE UpdaterLock
  BY <1>25, Zenon DEF UpdaterLock, pruneLocks, NoRow
<1>26. CASE Tick
  <2>1. \A n \in Names : notes'[n].notified = notes[n].notified
    BY <1>26 DEF Tick
  <2> QED
    BY <1>26, <2>1 DEF Tick
<1> QED
  BY <1>1, <1>2, <1>3, <1>4, <1>5, <1>6, <1>7, <1>8, <1>9, <1>10, <1>11,
     <1>12, <1>13, <1>14, <1>15, <1>16, <1>17, <1>18, <1>19, <1>20, <1>21,
     <1>22, <1>23, <1>24, <1>25, <1>26, Zenon
     DEF Next, FindTask, HandleTask, RefreshLoop, Environment

-----------------------------------------------------------------------------
\* What HandlesOwnLock and Budget say of one instance.
Keeps(q) ==
    pc[q] \in Handling =>
        /\ locks[task[q]].owner = q
        /\ LockDuration <= locks[task[q]].until + refresh[q] + errors[q] * Period

\* An instance keeps its lock over a step that neither moves it nor touches its
\* row.
LEMMA Frame ==
    ASSUME NEW q \in Owners, Keeps(q),
           pc'[q] \in Handling =>
               /\ pc[q] \in Handling
               /\ UNCHANGED <<task[q], refresh[q], errors[q]>>
               /\ locks'[task[q]] = locks[task[q]]
    PROVE  Keeps(q)'
BY DEF Keeps

\* Nobody is granted the lock of an instance that handles its task, and
\* nobody's pruning takes it away.
LEMMA LockLeavesHandlers ==
    ASSUME LockInv, NEW q \in Owners, pc[q] \in Handling, NEW n \in Names, NEW p
    PROVE  /\ pruneLocks(locks, 0)[task[q]] = locks[task[q]]
           /\ CanLock(locks, n, 0) =>
                Lock(locks, n, p, 0, LockDuration)[task[q]] = locks[task[q]]
<1>1. task[q] \in Names /\ locks[task[q]].until >= 0
  BY RowAlive DEF LockInv
<1>2. locks[task[q]].until \in Int /\ locks[task[q]].owner = q
  BY <1>1, Constants DEF LockInv, TypeOK, HandlesOwnLock
<1>3. pruneLocks(locks, 0)[task[q]] = locks[task[q]]
  BY <1>1, <1>2 DEF pruneLocks
<1>4. CanLock(locks, n, 0) => n # task[q]
  BY <1>2, <1>3, Constants DEF CanLock
<1>5. pruneLocks(locks, 0) = [m \in Names |-> pruneLocks(locks, 0)[m]]
  BY DEF pruneLocks
<1> QED
  BY <1>1, <1>3, <1>4, <1>5 DEF Lock

\* Neither renewing nor removing its own row touches the row of another.
LEMMA OthersLeaveHandlers ==
    ASSUME LockInv, NEW q \in Owners, pc[q] \in Handling, NEW n \in Names,
           NEW p \in Owners, p # q
    PROVE  /\ Unlock(locks, n, p)[task[q]] = locks[task[q]]
           /\ CanRenew(locks, n, p) =>
                Renew(locks, n, LockDuration)[task[q]] = locks[task[q]]
<1>1. task[q] \in Names /\ locks[task[q]].owner = q
  BY DEF LockInv, HasTask, HandlesOwnLock
<1>2. DOMAIN locks = Names
  BY DEF LockInv, TypeOK
<1> QED
  BY <1>1, <1>2 DEF Unlock, CanRenew, Renew, LockInv, TypeOK

\* The invariant, said of each instance.
LEMMA InvKeeps == LockInv => \A q \in Owners : Keeps(q)
BY Zenon DEF LockInv, HandlesOwnLock, Budget, Keeps

\* A step of an instance p that is not about the lock leaves all locks alone.
LEMMA QuietStep ==
    ASSUME LockInv, NEW p \in Owners, UNCHANGED <<locks, refresh, errors>>,
           pc' = [pc EXCEPT ![p] = pc'[p]],
           task' = [task EXCEPT ![p] = task'[p]],
           pc'[p] \in Handling => pc[p] \in Handling /\ task'[p] = task[p]
    PROVE  \A q \in Owners : Keeps(q)'
<1> TAKE q \in Owners
<1>1. Keeps(q)
  BY InvKeeps
<1>2. pc'[q] \in Handling => pc[q] \in Handling /\ task'[q] = task[q]
  BY DEF LockInv, TypeOK
<1> QED
  BY <1>1, <1>2, Frame

\* What each action does to the locks of the handlers.
LEMMA NextKeeps == LockInv /\ [Next]_vars => \A q \in Owners : Keeps(q)'
<1> SUFFICES ASSUME LockInv, [Next]_vars PROVE \A q \in Owners : Keeps(q)'
  OBVIOUS
<1>0. TypeOK /\ HasTask /\ SelectStarts
  BY DEF LockInv
<1>1. CASE UNCHANGED vars
  <2> TAKE q \in Owners
  <2> QED
    BY <1>1, InvKeeps, Frame DEF vars, select
<1>2. ASSUME NEW p \in Owners, NEW n \in Names, Find(p, n) PROVE \A q \in Owners : Keeps(q)'
  BY <1>0, <1>2, QuietStep, Zenon DEF Find, Go, Handling, select, TypeOK
<1>3. ASSUME NEW p \in Owners,
             FindNothing(p) \/ WakeUp(p) \/ SleepInterrupted(p)
      PROVE  \A q \in Owners : Keeps(q)'
  BY <1>0, <1>3, QuietStep
     DEF FindNothing, WakeUp, SleepInterrupted, Go, Handling, select, TypeOK
<1>4. ASSUME NEW p \in Owners, LockTask(p) PROVE \A q \in Owners : Keeps(q)'
  <2> TAKE q \in Owners
  <2>1. task[p] \in Names /\ task' = task /\ refresh' = refresh /\ errors' = errors
    BY <1>0, <1>4, Zenon DEF HasTask, LockTask, Go, select
  <2>2. CASE q = p
    <3>1. refresh[p] = 0 /\ errors[p] = 0
      BY <1>0, <1>4, Zenon DEF SelectStarts, InSelect, Handling, LockTask, Go
    <3>2. locks'[task[p]].owner = p /\ locks'[task[p]].until = LockDuration
      BY <1>4, <2>1, Constants, Zenon DEF LockTask, Lock, pruneLocks
    <3> QED
      BY <2>1, <2>2, <3>1, <3>2, PeriodPositive DEF Keeps
  <2>3. CASE q # p
    <3>1. pc'[q] = pc[q]
      BY <1>0, <1>4, <2>3 DEF LockTask, Go, TypeOK
    <3>2. pc[q] \in Handling => locks'[task[q]] = locks[task[q]]
      BY <1>4, <2>1, LockLeavesHandlers, Zenon DEF LockTask
    <3> QED
      BY <2>1, <3>1, <3>2, InvKeeps, Frame, Zenon
  <2> QED
    BY <2>2, <2>3
<1>5. ASSUME NEW p \in Owners, LockTaskFailed(p) PROVE \A q \in Owners : Keeps(q)'
  <2> TAKE q \in Owners
  <2>1. task[p] \in Names /\ refresh' = refresh /\ errors' = errors
    BY <1>0, <1>5 DEF HasTask, LockTaskFailed, Go, select
  <2>2. pc'[q] \in Handling => pc[q] \in Handling /\ q # p /\ task'[q] = task[q]
    BY <1>0, <1>5 DEF LockTaskFailed, Go, TypeOK, Handling
  <2>3. pc[q] \in Handling => locks'[task[q]] = locks[task[q]]
    BY <1>5, <2>1, LockLeavesHandlers DEF LockTaskFailed
  <2> QED
    BY <2>1, <2>2, <2>3, InvKeeps, Frame, Zenon
<1>6. ASSUME NEW p \in Owners, NEW s \in Senders, SendOK(p, s) \/ SendFailed(p, s)
      PROVE  \A q \in Owners : Keeps(q)'
  BY <1>0, <1>6, QuietStep DEF SendOK, SendFailed, Go, Handling, select, TypeOK
<1>7. ASSUME NEW p \in Owners,
             BackoffOver(p) \/ BackoffInterrupted(p) \/ GiveUp(p)
      PROVE  \A q \in Owners : Keeps(q)'
  BY <1>0, <1>7, QuietStep
     DEF BackoffOver, BackoffInterrupted, GiveUp, Abandon, Go, Handling, select, TypeOK
<1>8. ASSUME NEW p \in Owners, Mark(p) \/ MarkFailed(p) \/ UnlockTaskFailed(p)
      PROVE  \A q \in Owners : Keeps(q)'
  BY <1>0, <1>8, QuietStep
     DEF Mark, MarkFailed, UnlockTaskFailed, Go, Handling, select, TypeOK
<1>9. ASSUME NEW p \in Owners, UnlockTask(p) PROVE \A q \in Owners : Keeps(q)'
  <2> TAKE q \in Owners
  <2>1. task[p] \in Names /\ UNCHANGED <<task, refresh, errors>>
    BY <1>0, <1>9, Zenon DEF HasTask, UnlockTask, Go, Handling, select
  <2>2. pc'[q] \in Handling => pc[q] \in Handling /\ q # p
    BY <1>0, <1>9 DEF UnlockTask, Go, TypeOK, Handling
  <2>3. pc[q] \in Handling /\ q # p => locks'[task[q]] = locks[task[q]]
    BY <1>9, <2>1, OthersLeaveHandlers, Zenon DEF UnlockTask
  <2> QED
    BY <2>1, <2>2, <2>3, InvKeeps, Frame, Zenon
<1>10. ASSUME NEW p \in Owners, Refresh(p) PROVE \A q \in Owners : Keeps(q)'
  <2> TAKE q \in Owners
  <2>1. task[p] \in Names /\ UNCHANGED <<pc, task>>
    BY <1>0, <1>10, Zenon DEF HasTask, Refresh, InSelect
  <2>2. CASE q = p
    <3>1. refresh'[p] = 0 /\ errors'[p] = 0
      BY <1>0, <1>10 DEF Refresh, TypeOK
    <3>2. pc[p] \in Handling =>
             locks'[task[p]].owner = p /\ locks'[task[p]].until = LockDuration
      <4> SUFFICES ASSUME pc[p] \in Handling
                   PROVE  locks'[task[p]].owner = p /\ locks'[task[p]].until = LockDuration
        OBVIOUS
      <4>1. locks[task[p]].owner = p
        BY DEF LockInv, HandlesOwnLock
      <4> QED
        BY <1>0, <1>10, <2>1, <4>1 DEF Refresh, CanRenew, Renew, TypeOK
    <3> QED
      BY <2>1, <2>2, <3>1, <3>2, PeriodPositive DEF Keeps
  <2>3. CASE q # p
    <3>1. refresh'[q] = refresh[q] /\ errors'[q] = errors[q]
      BY <1>0, <1>10, <2>3 DEF Refresh, TypeOK
    <3>2. pc[q] \in Handling => locks'[task[q]] = locks[task[q]]
      BY <1>10, <2>1, <2>3, OthersLeaveHandlers, Zenon DEF Refresh
    <3> QED
      BY <2>1, <3>1, <3>2, InvKeeps, Frame, Zenon
  <2> QED
    BY <2>2, <2>3
<1>11. ASSUME NEW p \in Owners, RefreshFailed(p) PROVE \A q \in Owners : Keeps(q)'
  <2> TAKE q \in Owners
  <2>1. UNCHANGED <<locks, pc, task>>
    BY <1>11 DEF RefreshFailed
  <2>2. CASE q = p
    <3>1. refresh'[p] = 0 /\ errors'[p] = errors[p] + 1 /\ refresh[p] <= Period
      BY <1>0, <1>11, Constants DEF RefreshFailed, TypeOK, Period
    <3>2. errors[p] \in Nat /\ refresh[p] \in Nat
      BY <1>0, Constants DEF TypeOK
    <3>3. (errors[p] + 1) * Period = errors[p] * Period + Period
      BY <3>2, OneMoreError, PeriodPositive, Zenon
    <3>4. pc[p] \in Handling => locks[task[p]].until \in Int
      BY <1>0, Constants DEF HasTask, TypeOK
    <3>5. errors[p] * Period \in Nat
      BY <3>2, PeriodPositive
    <3>6. Keeps(p)
      BY InvKeeps
    <3> DEFINE gone == errors[p] * Period
    <3>7. pc[p] \in Handling =>
             LockDuration <= locks[task[p]].until + 0 + (gone + Period)
      <4> HIDE DEF gone
      <4>1. gone \in Nat
        BY <3>5 DEF gone
      <4>2. pc[p] \in Handling => LockDuration <= locks[task[p]].until + refresh[p] + gone
        BY <3>6 DEF Keeps, gone
      <4> QED
        BY <3>1, <3>2, <3>4, <4>1, <4>2, PeriodPositive
    <3> QED
      BY <2>1, <2>2, <3>1, <3>3, <3>6, <3>7, Zenon DEF Keeps
  <2>3. CASE q # p
    BY <1>0, <1>11, <2>1, <2>3, InvKeeps, Frame, Zenon DEF RefreshFailed, TypeOK
  <2> QED
    BY <2>2, <2>3
<1>12. ASSUME NEW p \in Owners, SeeStop(p) \/ Stop(p) PROVE \A q \in Owners : Keeps(q)'
  <2> TAKE q \in Owners
  <2> QED
    BY <1>12, InvKeeps, Frame, Zenon DEF SeeStop, Stop, select
<1>13. ASSUME NEW p \in Owners, Done(p) \/ Crash(p) PROVE \A q \in Owners : Keeps(q)'
  <2> TAKE q \in Owners
  <2>1. pc'[q] \in Handling => q # p
    BY <1>0, <1>13 DEF Done, Crash, Go, TypeOK, Handling
  <2>2. q # p => UNCHANGED <<locks, pc[q], task[q], refresh[q], errors[q]>>
    BY <1>0, <1>13, Zenon DEF Done, Crash, Go, TypeOK
  <2> QED
    BY <2>1, <2>2, InvKeeps, Frame
<1>14. ASSUME NEW n \in Names, NewNotification(n) \/ DeleteNotification(n)
       PROVE  \A q \in Owners : Keeps(q)'
  <2> TAKE q \in Owners
  <2> QED
    BY <1>14, InvKeeps, Frame DEF NewNotification, DeleteNotification, select
<1>15. CASE UpdaterLock
  <2> TAKE q \in Owners
  <2>1. pc[q] \in Handling => task[q] \in Names
    BY <1>0, Zenon DEF HasTask
  <2>2. pc[q] \in Handling => locks'[task[q]] = locks[task[q]]
    BY <1>15, <2>1, LockLeavesHandlers, Zenon DEF UpdaterLock
  <2> QED
    BY <1>15, <2>2, InvKeeps, Frame, Zenon DEF UpdaterLock, select
<1>16. CASE Tick
  <2> TAKE q \in Owners
  <2>1. UNCHANGED <<pc, task, errors>>
    BY <1>16 DEF Tick
  <2> SUFFICES ASSUME pc[q] \in Handling
               PROVE  /\ locks'[task[q]].owner = q
                      /\ LockDuration <=
                            locks'[task[q]].until + refresh'[q] + errors[q] * Period
    BY <2>1 DEF Keeps
  <2>2. task[q] \in Names /\ locks[task[q]].owner = q /\ q # NoOwner
    BY <1>0, Constants DEF LockInv, HasTask, HandlesOwnLock
  <2>3. locks[task[q]].until \in Int /\ locks[task[q]].until >= 0
    <3>1. locks[task[q]].until >= 0
      BY RowAlive DEF LockInv
    <3> QED
      BY <1>0, <2>2, <3>1, Constants DEF TypeOK
  <2>4. /\ locks'[task[q]].owner = q
        /\ locks'[task[q]].until = locks[task[q]].until - 1
    BY <1>0, <1>16, <2>2, <2>3 DEF Tick, TypeOK
  <2>5. refresh'[q] = refresh[q] + 1 /\ refresh[q] \in Nat
    BY <1>0, <1>16, Constants DEF Tick, InSelect, TypeOK
  <2>6. errors[q] \in Nat
    BY <1>0, Constants DEF TypeOK
  <2> DEFINE gone == errors[q] * Period
  <2>7. gone \in Nat
    BY <2>6, PeriodPositive
  <2>8. LockDuration <= locks[task[q]].until + refresh[q] + gone
    BY InvKeeps DEF Keeps
  <2> HIDE DEF gone
  <2>9. LockDuration <= locks'[task[q]].until + refresh'[q] + gone
    BY <2>3, <2>4, <2>5, <2>7, <2>8, PeriodPositive
  <2> QED
    BY <2>4, <2>9 DEF gone
<1> QED
  BY <1>1, <1>2, <1>3, <1>4, <1>5, <1>6, <1>7, <1>8, <1>9, <1>10, <1>11, <1>12,
     <1>13, <1>14, <1>15, <1>16, Zenon
     DEF Next, FindTask, HandleTask, RefreshLoop, Environment

-----------------------------------------------------------------------------
\* The invariant that the locks of handlers rest on.
LEMMA LockInvariant == Spec => []LockInv
<1>1. Init => LockInv
  BY InitLock
<1>2. LockInv /\ [Next]_vars => LockInv'
  <2> SUFFICES ASSUME LockInv, [Next]_vars PROVE LockInv'
    OBVIOUS
  <2>1. HandlesOwnLock' /\ Budget'
    BY NextKeeps, Zenon DEF Keeps, HandlesOwnLock, Budget
  <2>2. TypeOK' /\ HasTask' /\ SelectStarts'
    BY NextType, NextHasTask, NextSelect DEF LockInv
  <2> QED
    BY <2>1, <2>2 DEF LockInv
<1> QED
  BY <1>1, <1>2, PTL DEF Spec

\* The invariant that marking after sending rests on.
LEMMA SentInvariant == Spec => []SentInv
<1>1. Init => SentInv
  BY InitSent
<1>2. SentInv /\ [Next]_vars => SentInv'
  BY NextType, NextHasTask, NextSent, NextNotified DEF SentInv
<1> QED
  BY <1>1, <1>2, PTL DEF Spec

\* Every variable of the notifiers keeps its type, so the loops over senders,
\* attempts and refreshes stay within their bounds.
THEOREM Typing == Spec => []TypeOK
<1>1. LockInv => TypeOK
  BY DEF LockInv
<1> QED
  BY <1>1, LockInvariant, PTL

\* An instance that handles a notification has its lock, however many instances
\* there are and whichever refreshes fail, as long as no more fail in a row than
\* the duration allows for.
THEOREM HandlersOwnLocks == Spec => []HandlesOwnLock
<1>1. LockInv => HandlesOwnLock
  BY DEF LockInv
<1> QED
  BY <1>1, LockInvariant, PTL

\* No two instances are in handleTask with the same notification.
OneHandler ==
    \A p, q \in Owners :
        pc[p] \in Handling /\ pc[q] \in Handling /\ task[p] = task[q] => p = q

\* A notification is handled by one instance at a time: the lock of findTask
\* does what the notifier takes it for.
THEOREM HandledByOne == Spec => []OneHandler
<1>1. HandlesOwnLock => OneHandler
  BY DEF HandlesOwnLock, OneHandler
<1> QED
  BY <1>1, HandlersOwnLocks, PTL

\* markNotificationAsRead is reached only after every sender has accepted the
\* notification, for any set of senders and number of attempts.
THEOREM MarkedAfterDelivery == Spec => []NotifiedIsDelivered
<1>1. SentInv => NotifiedIsDelivered
  BY DEF SentInv
<1> QED
  BY <1>1, SentInvariant, PTL
=============================================================================
