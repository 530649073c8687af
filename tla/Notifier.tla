------------------------------ MODULE Notifier ------------------------------
(***************************************************************************)
(* The notifier service (notifier.go) of the Clair instances that share a  *)
(* database: each looks for a notification that is due, locks it, sends it *)
(* through every sender with retries, marks it as notified and unlocks it, *)
(* while its main loop renews the lock.  Receivers delete notifications    *)
(* through the API (DeleteNotification in database/pgsql/notification.go). *)
(*                                                                         *)
(* Each call that opens a transaction is one step, so that finding a       *)
(* notification, locking it, marking it and unlocking it interleave with   *)
(* the other instances.  Time is relative: a row's until is the time it    *)
(* has left (negative once expired), ages grow up to the values that       *)
(* matter.  Sleeps and sends may last any time, subject to Tick's guard.   *)
(***************************************************************************)
EXTENDS LockTable

CONSTANTS Senders,           \* the notification.Senders that were configured
          LockDuration,      \* notifierLockDuration
          RefreshDuration,   \* notifierLockRefreshDuration
          RefreshDelay,      \* how late a refresh may be
          MaxRefreshErrors,  \* refreshes in a row that may fail
          RenotifyInterval,  \* Config.RenotifyInterval
          MaxAttempts,       \* Config.Attempts
          Mortal,            \* instances that may crash
          Stoppable,         \* instances that may be asked to stop
          UpdaterEnabled     \* whether some instance's updater takes its lock

ASSUME NotifierAssumption ==
    /\ Senders # {}
    /\ {LockDuration, RefreshDuration, RenotifyInterval} \subseteq Nat \ {0}
    /\ {RefreshDelay, MaxRefreshErrors, MaxAttempts} \subseteq Nat
    /\ (MaxRefreshErrors + 1) * (RefreshDuration + RefreshDelay) <= LockDuration
    /\ Mortal \cup Stoppable \subseteq Owners
    /\ UpdaterEnabled \in BOOLEAN

VARIABLES locks,      \* the Lock table
          notes,      \* the Vulnerability_Notification table
          delivered,  \* <<n, s>>: sender s was told of n and accepted it
          stopping,   \* instances whose Stopper was closed
          pc,         \* where each notifier is
          task,       \* the notification it found
          todo,       \* senders that handleTask has not finished with
          sender,     \* the sender it is retrying
          attempts,   \* failed attempts with that sender
          refresh,    \* time since RunNotifier last entered its select
          errors,     \* refreshes in a row that failed
          running     \* the running variable of RunNotifier

handler == <<todo, sender, attempts>>
select == <<refresh, errors>>
vars == <<locks, notes, delivered, stopping, pc, task, handler, select, running>>

None == "none"

\* Where a notifier is in findTask, in handleTask's goroutine, or at its end.
Finding == {"find", "sleep", "lock"}
Handling == {"send", "backoff", "mark", "unlock"}
Labels == Finding \cup Handling \cup {"done", "stopped", "crashed"}

Note == [status : {"absent", "live", "deleted"},
         notified : BOOLEAN,              \* notified_at IS NOT NULL
         age : 0 .. RenotifyInterval + 1] \* time since notified_at, capped

\* Every variable holds a value of its type: rows of the two tables, a
\* known place in the code, counters within the bounds the loops give them.
TypeOK ==
    /\ locks \in [Names -> [owner : Owners \cup {NoOwner},
                            until : -1 .. LockDuration]]
    /\ notes \in [Names -> Note]
    /\ delivered \subseteq Names \X Senders
    /\ stopping \subseteq Stoppable
    /\ pc \in [Owners -> Labels]
    /\ task \in [Owners -> Names \cup {None}]
    /\ todo \in [Owners -> SUBSET Senders]
    /\ sender \in [Owners -> Senders \cup {None}]
    /\ attempts \in [Owners -> 0 .. MaxAttempts]
    /\ refresh \in [Owners -> 0 .. RefreshDuration + RefreshDelay]
    /\ errors \in [Owners -> 0 .. MaxRefreshErrors]
    /\ running \in [Owners -> BOOLEAN]

Init ==
    /\ locks = EmptyTable
    /\ notes = [n \in Names |-> [status |-> "absent", notified |-> FALSE, age |-> 0]]
    /\ delivered = {}
    /\ stopping = {}
    /\ pc = [p \in Owners |-> "find"]
    /\ task = [p \in Owners |-> None]
    /\ todo = [p \in Owners |-> {}]
    /\ sender = [p \in Owners |-> None]
    /\ attempts = [p \in Owners |-> 0]
    /\ refresh = [p \in Owners |-> 0]
    /\ errors = [p \in Owners |-> 0]
    /\ running = [p \in Owners |-> TRUE]

-----------------------------------------------------------------------------
\* Faulty variants of the definitions below, as a mistake in the code would
\* make them.
DueOnce(n) == notes[n].status = "live" /\ ~notes[n].notified
DueDeleted(n) ==
    /\ notes[n].status # "absent"
    /\ notes[n].notified => notes[n].age > RenotifyInterval
SleepContinues(p) ==
    /\ p \in stopping
    /\ pc[p] = "sleep" /\ pc' = [pc EXCEPT ![p] = "find"]
    /\ UNCHANGED <<locks, notes, delivered, stopping, task, handler, select, running>>
AbandonSucceeds(p) ==
    /\ pc[p] \in {"send", "backoff"}
    /\ pc' = [pc EXCEPT ![p] = "mark"]
    /\ todo' = [todo EXCEPT ![p] = {}]
    /\ sender' = [sender EXCEPT ![p] = None]
    /\ attempts' = [attempts EXCEPT ![p] = 0]
    /\ UNCHANGED <<locks, notes, delivered, stopping, task, select>>
RefreshLocksAnew(p) ==
    /\ pc[p] \in Handling \cup {"done"} /\ running[p] /\ refresh[p] >= RefreshDuration
    /\ locks' = IF CanLock(locks, task[p], 0)
                  THEN Lock(locks, task[p], p, 0, LockDuration)
                  ELSE locks
    /\ refresh' = [refresh EXCEPT ![p] = 0]
    /\ errors' = [errors EXCEPT ![p] = 0]
    /\ UNCHANGED <<notes, delivered, stopping, pc, task, handler, running>>

\* (notified_at IS NULL OR notified_at < now - interval) AND deleted_at IS NULL
Due(n) ==
    /\ notes[n].status = "live"
    /\ notes[n].notified => notes[n].age > RenotifyInterval

\* ... AND name NOT IN (SELECT name FROM Lock): a lock that has expired counts.
Available(n) == Due(n) /\ locks[n].owner = NoOwner

\* A step of p from one label to another.
Go(p, from, to) == pc[p] = from /\ pc' = [pc EXCEPT ![p] = to]

\* findTask: FindNewNotification returns one available notification.
Find(p, n) ==
    /\ Available(n)
    /\ Go(p, "find", "lock")
    /\ task' = [task EXCEPT ![p] = n]
    /\ UNCHANGED <<locks, notes, delivered, stopping, handler, select, running>>

\* findTask: there is none, or the query fails; the notifier goes to sleep.
FindNothing(p) ==
    /\ Go(p, "find", "sleep")
    /\ UNCHANGED <<locks, notes, delivered, stopping, task, handler, select, running>>

\* findTask: the check interval is over.
WakeUp(p) ==
    /\ Go(p, "sleep", "find")
    /\ UNCHANGED <<locks, notes, delivered, stopping, task, handler, select, running>>

\* findTask: Sleep is interrupted and RunNotifier returns.
SleepInterrupted(p) ==
    /\ p \in stopping
    /\ Go(p, "sleep", "stopped")
    /\ UNCHANGED <<locks, notes, delivered, stopping, task, handler, select, running>>

\* findTask: the lock is granted; RunNotifier starts handleTask and enters
\* its select.
LockTask(p) ==
    /\ Go(p, "lock", "send")
    /\ CanLock(locks, task[p], 0)
    /\ locks' = Lock(locks, task[p], p, 0, LockDuration)
    /\ todo' = [todo EXCEPT ![p] = Senders]
    /\ UNCHANGED <<notes, delivered, stopping, task, sender, attempts, select, running>>

\* findTask: lock returns false, because the name is taken or on an error,
\* and the loop looks for another task at once.  The table is unchanged, or,
\* when only the answer to the commit is lost, has the new row.
LockTaskFailed(p) ==
    /\ Go(p, "lock", "find")
    /\ \/ UNCHANGED locks
       \/ /\ CanLock(locks, task[p], 0)
          /\ locks' = Lock(locks, task[p], p, 0, LockDuration)
    /\ task' = [task EXCEPT ![p] = None]
    /\ UNCHANGED <<notes, delivered, stopping, handler, select, running>>

-----------------------------------------------------------------------------
\* handleTask: sender s accepts the notification; next sender, or success.
SendOK(p, s) ==
    /\ attempts[p] < MaxAttempts
    /\ s \in todo[p] /\ sender[p] \in {None, s}
    /\ Go(p, "send", IF todo[p] = {s} THEN "mark" ELSE "send")
    /\ delivered' = delivered \cup {<<task[p], s>>}
    /\ todo' = [todo EXCEPT ![p] = @ \ {s}]
    /\ sender' = [sender EXCEPT ![p] = None]
    /\ attempts' = [attempts EXCEPT ![p] = 0]
    /\ UNCHANGED <<locks, notes, stopping, task, select, running>>

\* handleTask: sender s fails; it is tried again after the backoff.
SendFailed(p, s) ==
    /\ attempts[p] < MaxAttempts
    /\ s \in todo[p] /\ sender[p] \in {None, s}
    /\ Go(p, "send", "backoff")
    /\ sender' = [sender EXCEPT ![p] = s]
    /\ attempts' = [attempts EXCEPT ![p] = @ + 1]
    /\ UNCHANGED <<locks, notes, delivered, stopping, task, todo, select, running>>

\* handleTask: the backoff is over.
BackoffOver(p) ==
    /\ attempts[p] < MaxAttempts
    /\ Go(p, "backoff", "send")
    /\ UNCHANGED <<locks, notes, delivered, stopping, task, handler, select, running>>

\* handleTask returns without success and the goroutine goes on to unlock.
Abandon(p) ==
    /\ pc[p] \in {"send", "backoff"}
    /\ pc' = [pc EXCEPT ![p] = "unlock"]
    /\ todo' = [todo EXCEPT ![p] = {}]
    /\ sender' = [sender EXCEPT ![p] = None]
    /\ attempts' = [attempts EXCEPT ![p] = 0]
    /\ UNCHANGED <<locks, notes, delivered, stopping, task, select>>

\* ... because the attempts are exceeded (false, false), ...
GiveUp(p) ==
    /\ attempts[p] >= MaxAttempts
    /\ Abandon(p)
    /\ UNCHANGED running

\* ... or because the backoff is interrupted (false, true).
BackoffInterrupted(p) ==
    /\ pc[p] = "backoff" /\ attempts[p] < MaxAttempts /\ p \in stopping
    /\ Abandon(p)
    /\ running' = [running EXCEPT ![p] = FALSE]

\* markNotificationAsRead commits, whatever has become of the notification.
Mark(p) ==
    /\ Go(p, "mark", "unlock")
    /\ notes' = [notes EXCEPT ![task[p]].notified = TRUE, ![task[p]].age = 0]
    /\ UNCHANGED <<locks, delivered, stopping, task, handler, select, running>>

\* markNotificationAsRead returns an error, which is only logged.
MarkFailed(p) ==
    /\ Go(p, "mark", "unlock")
    /\ UNCHANGED <<locks, notes, delivered, stopping, task, handler, select, running>>

\* unlock, whose errors are dropped: then the row stays.
UnlockTask(p) ==
    /\ Go(p, "unlock", "done")
    /\ locks' = Unlock(locks, task[p], p)
    /\ UNCHANGED <<notes, delivered, stopping, task, handler, select, running>>

UnlockTaskFailed(p) ==
    /\ Go(p, "unlock", "done")
    /\ UNCHANGED <<locks, notes, delivered, stopping, task, handler, select, running>>

-----------------------------------------------------------------------------
\* RunNotifier is in the select of its refresh loop.
InSelect(p) == pc[p] \in Handling \cup {"done"}

\* case <-done: the next round of the loop, or the end of it.
Done(p) ==
    /\ Go(p, "done", IF running[p] THEN "find" ELSE "stopped")
    /\ task' = [task EXCEPT ![p] = None]
    /\ refresh' = [refresh EXCEPT ![p] = 0]
    /\ errors' = [errors EXCEPT ![p] = 0]
    /\ UNCHANGED <<locks, notes, delivered, stopping, handler, running>>

\* case <-time.After: the lock is renewed; the answer is ignored.
Refresh(p) ==
    /\ InSelect(p) /\ running[p] /\ refresh[p] >= RefreshDuration
    /\ locks' = IF CanRenew(locks, task[p], p)
                  THEN Renew(locks, task[p], LockDuration)
                  ELSE locks
    /\ refresh' = [refresh EXCEPT ![p] = 0]
    /\ errors' = [errors EXCEPT ![p] = 0]
    /\ UNCHANGED <<notes, delivered, stopping, pc, task, handler, running>>

\* ... or the renewal fails on an error, which is ignored as well.
RefreshFailed(p) ==
    /\ InSelect(p) /\ running[p] /\ refresh[p] >= RefreshDuration
    /\ errors[p] < MaxRefreshErrors
    /\ refresh' = [refresh EXCEPT ![p] = 0]
    /\ errors' = [errors EXCEPT ![p] = @ + 1]
    /\ UNCHANGED <<locks, notes, delivered, stopping, pc, task, handler, running>>

\* case <-stopper.Chan(): the break leaves the select, not the loop, which
\* spins here from now on: no timer of a later round ever fires.
SeeStop(p) ==
    /\ InSelect(p) /\ running[p] /\ p \in stopping
    /\ running' = [running EXCEPT ![p] = FALSE]
    /\ UNCHANGED <<locks, notes, delivered, stopping, pc, task, handler, select>>

-----------------------------------------------------------------------------
\* The updater inserts a notification.
NewNotification(n) ==
    /\ notes[n].status = "absent"
    /\ notes' = [notes EXCEPT ![n].status = "live"]
    /\ UNCHANGED <<locks, delivered, stopping, pc, task, handler, select, running>>

\* The receiver marks it as read through the API, which deletes it.
DeleteNotification(n) ==
    /\ notes[n].status = "live"
    /\ notes' = [notes EXCEPT ![n].status = "deleted"]
    /\ UNCHANGED <<locks, delivered, stopping, pc, task, handler, select, running>>

\* An updater is granted the lock "updater" and prunes the table on the way.
UpdaterLock ==
    /\ UpdaterEnabled
    /\ locks' = pruneLocks(locks, 0)
    /\ UNCHANGED <<notes, delivered, stopping, pc, task, handler, select, running>>

\* Boot's signal handler closes the Stopper.
Stop(p) ==
    /\ p \in Stoppable \ stopping
    /\ pc[p] \notin {"stopped", "crashed"}
    /\ stopping' = stopping \cup {p}
    /\ UNCHANGED <<locks, notes, delivered, pc, task, handler, select, running>>

\* The instance dies: killed, or by the nil transaction that
\* markNotificationAsRead uses when Begin fails.
Crash(p) ==
    /\ p \in Mortal
    /\ pc[p] \notin {"stopped", "crashed"}
    /\ pc' = [pc EXCEPT ![p] = "crashed"]
    /\ task' = [task EXCEPT ![p] = None]
    /\ todo' = [todo EXCEPT ![p] = {}]
    /\ sender' = [sender EXCEPT ![p] = None]
    /\ attempts' = [attempts EXCEPT ![p] = 0]
    /\ refresh' = [refresh EXCEPT ![p] = 0]
    /\ errors' = [errors EXCEPT ![p] = 0]
    /\ UNCHANGED <<locks, notes, delivered, stopping, running>>

\* Time passes.  It does not pass while a refresh is overdue, nor while an
\* instance that is stopping finishes its task: sends time out after seconds
\* and backoffs are interrupted, a tick is of the order of minutes.
Tick ==
    /\ \A p \in Owners : InSelect(p) =>
           p \notin stopping /\ refresh[p] < RefreshDuration + RefreshDelay
    /\ locks' = [n \in Names |->
                   IF locks[n].owner = NoOwner \/ locks[n].until < 0
                     THEN locks[n]
                     ELSE [locks[n] EXCEPT !.until = @ - 1]]
    /\ notes' = [n \in Names |->
                   IF notes[n].status = "live" /\ notes[n].notified /\ notes[n].age <= RenotifyInterval
                     THEN [notes[n] EXCEPT !.age = @ + 1]
                     ELSE notes[n]]
    /\ refresh' = [p \in Owners |-> IF InSelect(p) THEN refresh[p] + 1 ELSE 0]
    /\ UNCHANGED <<delivered, stopping, pc, task, handler, errors, running>>

-----------------------------------------------------------------------------
FindTask(p) ==
    \/ \E n \in Names : Find(p, n)
    \/ FindNothing(p)
    \/ WakeUp(p)
    \/ SleepInterrupted(p)
    \/ LockTask(p)
    \/ LockTaskFailed(p)

HandleTask(p) ==
    \/ \E s \in Senders : SendOK(p, s) \/ SendFailed(p, s)
    \/ BackoffOver(p)
    \/ BackoffInterrupted(p)
    \/ GiveUp(p)
    \/ Mark(p)
    \/ MarkFailed(p)
    \/ UnlockTask(p)
    \/ UnlockTaskFailed(p)

RefreshLoop(p) ==
    \/ Refresh(p)
    \/ RefreshFailed(p)
    \/ SeeStop(p)
    \/ Done(p)

Environment ==
    \/ \E n \in Names : NewNotification(n) \/ DeleteNotification(n)
    \/ UpdaterLock
    \/ \E p \in Owners : Stop(p) \/ Crash(p)
    \/ Tick

Next ==
    \/ \E p \in Owners : FindTask(p) \/ HandleTask(p) \/ RefreshLoop(p)
    \/ Environment

Spec == Init /\ [][Next]_vars

\* The goroutines run, time passes, an enabled updater keeps taking its lock.
\* Database errors and failures to send do not repeat for ever (nor does each
\* round fail at its last sender), the query's ORDER BY Random() passes over
\* no notification for ever, and a select that meets a closed Stopper again and
\* again takes that case once.
Fairness ==
    /\ WF_vars(Tick)
    /\ WF_vars(UpdaterLock)
    /\ \A p \in Owners :
         /\ WF_vars(FindTask(p))
         /\ WF_vars(HandleTask(p))
         /\ WF_vars(Refresh(p)) /\ WF_vars(Done(p))
    /\ \A n \in Names : SF_vars(\E p \in Owners : Find(p, n))
    /\ \A p \in Owners : SF_vars(LockTask(p))
    /\ SF_vars(\E p \in Owners, s \in Senders : SendOK(p, s))
    /\ SF_vars(\E p \in Owners, s \in Senders : SendOK(p, s) /\ todo[p] = {s})
    /\ \A p \in Stoppable : SF_vars(SleepInterrupted(p) \/ SeeStop(p))

FairSpec == Spec /\ Fairness

-----------------------------------------------------------------------------
\* An instance that is sending, marking or about to unlock a notification
\* still has its lock, through failed refreshes and a stop that ends them:
\* so no two instances handle the same notification.
HandlesOwnLock ==
    \A p \in Owners : pc[p] \in Handling => locks[task[p]].owner = p

\* A notification gets its notified_at only once every sender has accepted
\* it, whatever retries, give-ups and interruptions came before.
NotifiedIsDelivered ==
    \A n \in Names : notes[n].notified => {n} \X Senders \subseteq delivered

\* A notification that is not deleted is sent again, through every sender,
\* for ever, although instances crash and unlocks are lost.
ResentUntilDeleted ==
    \A n \in Names :
        notes[n].status = "live" ~>
            \/ notes[n].status = "deleted"
            \/ \E p \in Owners : pc[p] = "mark" /\ task[p] = n

\* Once a notification is deleted, the tasks under way come to an end and no
\* instance ever finds it again.
DeletedIsForgotten ==
    \A n \in Names :
        notes[n].status = "deleted" ~> [](\A p \in Owners : task[p] # n)

\* RunNotifier returns after the Stopper is closed, from wherever it is: its
\* sleep, its backoff, findTask's retries or the middle of a task.
StopEndsNotifier ==
    \A p \in Owners : p \in stopping ~> pc[p] \in {"stopped", "crashed"}
=============================================================================
