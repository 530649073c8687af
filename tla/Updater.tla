------------------------------ MODULE Updater ------------------------------
(***************************************************************************)
(* The updater service (updater.go) of the Clair instances that share a    *)
(* database: RunUpdater's loop, which takes the lock "updater" once the    *)
(* last update is old enough, and the goroutine update, which fetches every *)
(* vulnerability source, stores what changed, creates notifications, then   *)
(* records the sources' flags and the time of the update, each in a        *)
(* transaction of its own.                                                 *)
(*                                                                         *)
(* A source is abstracted to the revision of its content: upstream is at   *)
(* some revision, the database stores the content of one, and the source's *)
(* flag in the KeyValue table names one.  Time is relative, as in Notifier. *)
(*                                                                         *)
(* The lock lasts for one refresh and a little more, so that one refresh   *)
(* that fails loses it, and an instance that is asked to stop gives it up  *)
(* while its update goes on.  The history variables tell the behaviours in *)
(* which two updates overlap from the others.                              *)
(***************************************************************************)
EXTENDS LockTable

CONSTANTS Updater,           \* updaterLockName
          Sources,           \* the enabled vulnsrc.Updaters
          Publishers,        \* the sources that publish again
          MaxRevision,       \* revisions that they go through
          LockDuration,      \* updaterLockDuration
          RefreshDuration,   \* updaterLockRefreshDuration
          RefreshDelay,      \* how late a refresh may be
          Interval,          \* UpdaterConfig.Interval
          MaxEvents,         \* bound on what happens to the instances, see Event
          Mortal,            \* instances that may crash
          Stoppable          \* instances that may be asked to stop

ASSUME UpdaterAssumption ==
    /\ Names = {Updater}
    /\ {MaxRevision, LockDuration, RefreshDuration, Interval} \subseteq Nat \ {0}
    /\ {RefreshDelay, MaxEvents} \subseteq Nat
    /\ RefreshDuration + RefreshDelay <= LockDuration
    /\ Publishers \subseteq Sources
    /\ Mortal \cup Stoppable \subseteq Owners

VARIABLES locks,      \* the Lock table
          last,       \* time since "updater/last", capped, or Never
          flags,      \* the flag of each source in the KeyValue table, 0 if none
          stored,     \* the revision whose vulnerabilities are stored, 0 if none
          told,       \* changes that have a notification
          upstream,   \* the revision each source would return
          stopping,   \* instances whose Stopper was closed
          events,     \* how often something has happened to the instances
          pc,         \* where RunUpdater is
          first,      \* its firstUpdate
          refresh,    \* time since it last entered its select
          up,         \* where the update goroutine is
          pending,    \* sources that have not answered yet
          got,        \* the revision each source returned, 0 if nothing
          success,    \* fetch's status
          changes,    \* the changes updateVulnerabilities found
          missed,     \* history: its update's latest refresh did not renew the row
          overlapped  \* history: two updates have run at the same time

database == <<last, flags, stored, told>>
environment == <<upstream, stopping, events>>
main == <<pc, first, refresh>>
update == <<up, pending, got, success, changes>>
history == <<missed, overlapped>>
vars == <<locks, database, environment, main, update, history>>

Never == -1
Revisions == 0 .. MaxRevision
Changes == [source : Sources, old : Revisions, new : Revisions \ {0}]
Nothing == [s \in Sources |-> 0]

\* Every variable holds a value of its type: rows of the tables, known places
\* in the two goroutines, times within the bounds that matter.
TypeOK ==
    /\ locks \in [Names -> [owner : Owners \cup {NoOwner},
                            until : -1 .. LockDuration]]
    /\ last \in {Never} \cup 0 .. Interval + 1
    /\ {flags, stored, upstream} \subseteq [Sources -> Revisions]
    /\ told \subseteq Changes
    /\ stopping \subseteq Stoppable
    /\ events \in 0 .. MaxEvents
    /\ pc \in [Owners -> {"check", "lock", "taken", "failed", "wait", "select",
                          "unlock", "abort", "stopped", "exited"}]
    /\ first \in [Owners -> BOOLEAN]
    /\ refresh \in [Owners -> 0 .. RefreshDuration + RefreshDelay]
    /\ up \in [Owners -> {"none", "fetch", "namespaces", "vulnerabilities",
                          "notifications", "flags", "last", "done"}]
    /\ pending \in [Owners -> SUBSET Sources]
    /\ got \in [Owners -> [Sources -> Revisions]]
    /\ success \in [Owners -> BOOLEAN]
    /\ changes \in [Owners -> SUBSET Changes]
    /\ missed \in [Owners -> BOOLEAN]
    /\ overlapped \in BOOLEAN

Init ==
    /\ locks = EmptyTable
    /\ last = Never
    /\ flags = Nothing /\ stored = Nothing
    /\ told = {}
    /\ upstream = [s \in Sources |-> 1]
    /\ stopping = {}
    /\ events = 0
    /\ pc = [p \in Owners |-> "check"]
    /\ first = [p \in Owners |-> FALSE]
    /\ refresh = [p \in Owners |-> 0]
    /\ up = [p \in Owners |-> "none"]
    /\ pending = [p \in Owners |-> {}]
    /\ got = [p \in Owners |-> Nothing]
    /\ success = [p \in Owners |-> TRUE]
    /\ changes = [p \in Owners |-> {}]
    /\ missed = [p \in Owners |-> FALSE]
    /\ overlapped = FALSE

-----------------------------------------------------------------------------
\* What an instance does not do by itself: an error of the database or of a
\* source, a crash, a request to stop, a publication.  A bound on their number
\* keeps the states finite, and says that errors do not repeat for ever.
Event == events < MaxEvents /\ events' = events + 1
Quiet == UNCHANGED events

\* Faulty variants of the definitions below, as a mistake in the code would
\* make them.
SleepContinues(p) ==
    /\ p \in stopping
    /\ pc[p] = "wait"
    /\ pc' = [pc EXCEPT ![p] = "check"]
    /\ UNCHANGED <<locks, database, environment, first, refresh, update, history>>
FoundAll(p) ==
    {[source |-> s, old |-> stored[s], new |-> got[p][s]] :
        s \in {r \in Sources : got[p][r] # 0}}
FlagsUpdatedAlways(p) ==
    /\ up[p] = "flags" /\ got[p] = Nothing
    /\ up' = [up EXCEPT ![p] = "last"]
    /\ success' = [success EXCEPT ![p] = TRUE]
    /\ changes' = [changes EXCEPT ![p] = {}]
    /\ UNCHANGED <<locks, database, environment, main, pending, got, history>>
UpdateFailedGoesOn(p) ==
    /\ Event
    /\ up[p] \in {"namespaces", "vulnerabilities", "notifications"}
    /\ up' = [up EXCEPT ![p] = "flags"]
    /\ changes' = [changes EXCEPT ![p] = {}]
    /\ UNCHANGED <<locks, database, upstream, stopping, main, pending, got, success, history>>

Go(p, from, to) == pc[p] = from /\ pc' = [pc EXCEPT ![p] = to]

\* GetLastUpdateTime: an update is due, for the first time or again.
CheckDue(p) ==
    /\ last = Never \/ last > Interval
    /\ Go(p, "check", "lock")
    /\ first' = [first EXCEPT ![p] = (last = Never)]
    /\ UNCHANGED <<locks, database, environment, refresh, update, history>>

\* It is not, or the query fails: RunUpdater sleeps.
CheckNotDue(p) ==
    /\ (last \in 0 .. Interval /\ Quiet) \/ Event
    /\ Go(p, "check", "wait")
    /\ UNCHANGED <<locks, database, upstream, stopping, first, refresh, update, history>>

\* The lock is granted and the update goroutine starts.
LockUpdate(p) ==
    /\ CanLock(locks, Updater, 0)
    /\ Go(p, "lock", "select")
    /\ locks' = Lock(locks, Updater, p, 0, LockDuration)
    /\ up' = [up EXCEPT ![p] = "fetch"]
    /\ pending' = [pending EXCEPT ![p] = Sources]
    /\ overlapped' = (overlapped \/ \E q \in Owners : up[q] # "none")
    /\ UNCHANGED <<database, environment, first, refresh, got, success, changes, missed>>

\* The name is taken: lock returns the time at which its row would expire.
LockTaken(p) ==
    /\ ~CanLock(locks, Updater, 0)
    /\ Go(p, "lock", "taken")
    /\ UNCHANGED <<locks, database, environment, first, refresh, update, history>>

\* lock meets an error, perhaps of a commit that did insert the row, and
\* returns the zero time.
LockFailed(p) ==
    /\ Event
    /\ Go(p, "lock", "failed")
    /\ \/ UNCHANGED locks
       \/ /\ CanLock(locks, Updater, 0)
          /\ locks' = Lock(locks, Updater, p, 0, LockDuration)
    /\ UNCHANGED <<database, upstream, stopping, first, refresh, update, history>>

\* findLock, then sleepUpdater, until the row that was found expires or, if
\* none was or the query fails, until the time that lock returned.  A time in
\* the past is no sleep at all, and no look at the Stopper.  (A findLock that
\* cannot begin its transaction uses it nevertheless, and ends in Exit.)
FindLock(p) ==
    /\ pc[p] \in {"taken", "failed"}
    /\ LET row == locks[Updater]
           wait == IF row.owner # NoOwner THEN row.until >= 0 ELSE pc[p] = "taken"
       IN \/ Quiet /\ pc' = [pc EXCEPT ![p] = IF wait THEN "wait" ELSE "check"]
          \/ Event /\ pc' = [pc EXCEPT ![p] = IF @ = "taken" THEN "wait" ELSE "check"]
    /\ first' = [first EXCEPT ![p] = FALSE]
    /\ UNCHANGED <<locks, database, upstream, stopping, refresh, update, history>>

\* sleepUpdater is over: after an update, or until the next one is due or
\* the lock of another instance expires.
WakeUp(p) ==
    /\ pc[p] = "wait"
    /\ pc' = [pc EXCEPT ![p] = "check"]
    /\ UNCHANGED <<locks, database, environment, first, refresh, update, history>>

\* sleepUpdater is interrupted and RunUpdater returns.
SleepInterrupted(p) ==
    /\ p \in stopping
    /\ pc[p] = "wait"
    /\ pc' = [pc EXCEPT ![p] = "stopped"]
    /\ UNCHANGED <<locks, database, environment, first, refresh, update, history>>

\* RunUpdater leaves its select for the unlock.
LeaveSelect(p, to) ==
    /\ Go(p, "select", to)
    /\ refresh' = [refresh EXCEPT ![p] = 0]
    /\ missed' = [missed EXCEPT ![p] = FALSE]

\* case <-doneC
UpdateDone(p) ==
    /\ up[p] = "done"
    /\ LeaveSelect(p, "unlock")
    /\ up' = [up EXCEPT ![p] = "none"]
    /\ first' = [first EXCEPT ![p] = FALSE]
    /\ UNCHANGED <<locks, database, environment, pending, got, success, changes, overlapped>>

\* case <-st.Chan(): the loop ends while the update goroutine goes on.
SeeStop(p) ==
    /\ p \in stopping
    /\ LeaveSelect(p, "abort")
    /\ UNCHANGED <<locks, database, environment, first, update, overlapped>>

\* case <-time.After: the lock is renewed; the answer is ignored.
Refresh(p) ==
    /\ pc[p] = "select" /\ refresh[p] >= RefreshDuration
    /\ locks' = IF CanRenew(locks, Updater, p)
                  THEN Renew(locks, Updater, LockDuration)
                  ELSE locks
    /\ refresh' = [refresh EXCEPT ![p] = 0]
    /\ missed' = [missed EXCEPT ![p] = ~CanRenew(locks, Updater, p)]
    /\ UNCHANGED <<database, environment, pc, first, update, overlapped>>

\* ... or the renewal fails on an error, perhaps of a commit that did renew
\* the row; this is ignored as well.
RefreshFailed(p) ==
    /\ Event
    /\ pc[p] = "select" /\ refresh[p] >= RefreshDuration
    /\ \/ UNCHANGED locks
       \/ /\ CanRenew(locks, Updater, p)
          /\ locks' = Renew(locks, Updater, LockDuration)
    /\ refresh' = [refresh EXCEPT ![p] = 0]
    /\ missed' = [missed EXCEPT ![p] = TRUE]
    /\ UNCHANGED <<database, upstream, stopping, pc, first, update, overlapped>>

\* unlock, whose errors are dropped: then the row stays.
UnlockUpdate(p) ==
    /\ pc[p] \in {"unlock", "abort"}
    /\ \/ Quiet /\ locks' = Unlock(locks, Updater, p)
       \/ Event /\ UNCHANGED locks
    /\ pc' = [pc EXCEPT ![p] = IF @ = "abort" THEN "stopped" ELSE "wait"]
    /\ UNCHANGED <<database, upstream, stopping, first, refresh, update, history>>

-----------------------------------------------------------------------------
\* update returns before its end, or its process is gone.
Forget(p, label) ==
    /\ up' = [up EXCEPT ![p] = label]
    /\ pending' = [pending EXCEPT ![p] = {}]
    /\ got' = [got EXCEPT ![p] = Nothing]
    /\ success' = [success EXCEPT ![p] = TRUE]
    /\ changes' = [changes EXCEPT ![p] = {}]

\* A source answers.  It compares its flag with what it downloads and returns
\* no vulnerabilities when they agree.
FetchOK(p, s) ==
    /\ up[p] = "fetch" /\ s \in pending[p]
    /\ got' = [got EXCEPT ![p][s] = IF flags[s] = upstream[s] THEN 0 ELSE upstream[s]]
    /\ pending' = [pending EXCEPT ![p] = @ \ {s}]
    /\ up' = [up EXCEPT ![p] = IF pending[p] = {s} THEN "namespaces" ELSE @]
    /\ UNCHANGED <<locks, database, environment, main, success, changes, history>>

\* A source fails: the update goes on with the others but is no success.
FetchFailed(p, s) ==
    /\ Event
    /\ up[p] = "fetch" /\ s \in pending[p]
    /\ success' = [success EXCEPT ![p] = FALSE]
    /\ pending' = [pending EXCEPT ![p] = @ \ {s}]
    /\ up' = [up EXCEPT ![p] = IF pending[p] = {s} THEN "namespaces" ELSE @]
    /\ UNCHANGED <<locks, database, upstream, stopping, main, got, changes, history>>

\* PersistNamespacesAndCommit: namespaces are not part of this module's state.
PersistNamespaces(p) ==
    /\ up[p] = "namespaces"
    /\ up' = [up EXCEPT ![p] = "vulnerabilities"]
    /\ UNCHANGED <<locks, database, environment, main, pending, got, success, changes, history>>

\* What findVulnerabilityChanges computes: the sources that returned
\* vulnerabilities other than the stored ones.
FoundChanges(p) ==
    {[source |-> s, old |-> stored[s], new |-> got[p][s]] :
        s \in {r \in Sources : got[p][r] \notin {0, stored[r]}}}

\* updateVulnerabilities commits; update goes on, or returns if it does not
\* learn of the commit.
UpdateVulnerabilities(p) ==
    /\ up[p] = "vulnerabilities"
    /\ stored' = [s \in Sources |-> IF got[p][s] = 0 THEN stored[s] ELSE got[p][s]]
    /\ \/ /\ changes' = [changes EXCEPT ![p] = FoundChanges(p)]
          /\ up' = [up EXCEPT ![p] = IF first[p] THEN "flags" ELSE "notifications"]
          /\ UNCHANGED <<events, pending, got, success>>
       \/ Event /\ Forget(p, "done")
    /\ UNCHANGED <<locks, last, flags, told, upstream, stopping, main, history>>

\* createVulnerabilityNotifications commits, in the same two ways.
CreateNotifications(p) ==
    /\ up[p] = "notifications"
    /\ told' = told \cup changes[p]
    /\ \/ /\ up' = [up EXCEPT ![p] = "flags"]
          /\ changes' = [changes EXCEPT ![p] = {}]
          /\ UNCHANGED <<events, pending, got, success>>
       \/ Event /\ Forget(p, "done")
    /\ UNCHANGED <<locks, last, flags, stored, upstream, stopping, main, history>>

\* updateUpdaterFlags: one transaction for each source's flag.
UpdateFlag(p, s) ==
    /\ up[p] = "flags" /\ got[p][s] # 0
    /\ flags' = [flags EXCEPT ![s] = got[p][s]]
    /\ got' = [got EXCEPT ![p][s] = 0]
    /\ UNCHANGED <<locks, last, stored, told, environment, main, up, pending, success, changes, history>>

\* All flags are written; the update is recorded only after a success.
FlagsUpdated(p) ==
    /\ up[p] = "flags" /\ got[p] = Nothing
    /\ up' = [up EXCEPT ![p] = IF success[p] THEN "last" ELSE "done"]
    /\ success' = [success EXCEPT ![p] = TRUE]
    /\ changes' = [changes EXCEPT ![p] = {}]
    /\ UNCHANGED <<locks, database, environment, main, pending, got, history>>

\* setLastUpdateTime commits.
SetLastUpdateTime(p) ==
    /\ up[p] = "last"
    /\ last' = 0
    /\ up' = [up EXCEPT ![p] = "done"]
    /\ UNCHANGED <<locks, flags, stored, told, environment, main, pending, got, success, changes, history>>

\* One of the transactions of update fails, and update returns.
UpdateFailed(p) ==
    /\ Event
    /\ up[p] \in {"namespaces", "vulnerabilities", "notifications", "flags", "last"}
    /\ Forget(p, "done")
    /\ UNCHANGED <<locks, database, upstream, stopping, main, history>>

-----------------------------------------------------------------------------
\* A source publishes new vulnerabilities.
Publish(s) ==
    /\ Event
    /\ s \in Publishers /\ upstream[s] < MaxRevision
    /\ upstream' = [upstream EXCEPT ![s] = @ + 1]
    /\ UNCHANGED <<locks, database, stopping, main, update, history>>

\* Boot's signal handler closes the Stopper.
Stop(p) ==
    /\ Event
    /\ p \in Stoppable \ stopping
    /\ pc[p] # "exited"
    /\ stopping' = stopping \cup {p}
    /\ UNCHANGED <<locks, database, upstream, main, update, history>>

\* The process ends: after RunUpdater has returned, or by a crash.
Exit(p) ==
    /\ \/ pc[p] = "stopped" /\ Quiet
       \/ p \in Mortal /\ pc[p] \notin {"stopped", "exited"} /\ Event
    /\ pc' = [pc EXCEPT ![p] = "exited"]
    /\ first' = [first EXCEPT ![p] = FALSE]
    /\ refresh' = [refresh EXCEPT ![p] = 0]
    /\ missed' = [missed EXCEPT ![p] = FALSE]
    /\ Forget(p, "none")
    /\ UNCHANGED <<locks, database, upstream, stopping, overlapped>>

\* Time passes, but not while a refresh is overdue or RunUpdater's select has
\* a closed Stopper to see.
Tick ==
    /\ \A p \in Owners : pc[p] = "select" =>
           p \notin stopping /\ refresh[p] < RefreshDuration + RefreshDelay
    /\ locks' = [n \in Names |->
                   IF locks[n].owner = NoOwner \/ locks[n].until < 0
                     THEN locks[n]
                     ELSE [locks[n] EXCEPT !.until = @ - 1]]
    /\ last' = IF last \in 0 .. Interval THEN last + 1 ELSE last
    /\ refresh' = [p \in Owners |-> IF pc[p] = "select" THEN refresh[p] + 1 ELSE 0]
    /\ UNCHANGED <<flags, stored, told, environment, pc, first, update, history>>

-----------------------------------------------------------------------------
RunUpdater(p) ==
    \/ CheckDue(p)
    \/ CheckNotDue(p)
    \/ LockUpdate(p)
    \/ LockTaken(p)
    \/ LockFailed(p)
    \/ FindLock(p)
    \/ WakeUp(p)
    \/ SleepInterrupted(p)
    \/ UpdateDone(p)
    \/ SeeStop(p)
    \/ UnlockUpdate(p)

RefreshLock(p) == Refresh(p) \/ RefreshFailed(p)

RunUpdate(p) ==
    \/ \E s \in Sources : FetchOK(p, s) \/ FetchFailed(p, s)
    \/ PersistNamespaces(p)
    \/ UpdateVulnerabilities(p)
    \/ CreateNotifications(p)
    \/ \E s \in Sources : UpdateFlag(p, s)
    \/ FlagsUpdated(p)
    \/ SetLastUpdateTime(p)
    \/ UpdateFailed(p)

Next ==
    \/ \E p \in Owners : RunUpdater(p) \/ RefreshLock(p) \/ RunUpdate(p)
    \/ \E s \in Sources : Publish(s)
    \/ \E p \in Owners : Stop(p) \/ Exit(p)
    \/ Tick

Spec == Init /\ [][Next]_vars

\* The goroutines run and time passes.  An instance that meets a closed Stopper
\* in its selects again and again takes that case once, and one that looks up
\* the row of a lock that is taken again and again reads it once before the
\* row expires.
Fairness ==
    /\ WF_vars(Tick)
    /\ \A p \in Owners :
         /\ WF_vars(RunUpdater(p))
         /\ WF_vars(RefreshLock(p))
         /\ WF_vars(RunUpdate(p))
    /\ \A p \in Stoppable :
         /\ SF_vars(SleepInterrupted(p) \/ SeeStop(p))
         /\ SF_vars(FindLock(p) /\ pc'[p] = "wait")

FairSpec == Spec /\ Fairness

-----------------------------------------------------------------------------
\* Two updates run at the same time only if one of them has lost its lock in
\* one of two ways: its RunUpdater was asked to stop and has left the select, or
\* its latest refresh failed or found no row to renew.
OneUpdate ==
    \A p, q \in Owners : p # q /\ up[p] # "none" /\ up[q] # "none" =>
        \E r \in {p, q} : pc[r] # "select" \/ missed[r]

\* As long as no two updates have overlapped, a source's flag is not ahead of
\* its vulnerabilities: whichever transaction of an update was the last to
\* commit, a source that is skipped because its flag is current has that
\* content stored.
FlagImpliesStored == ~overlapped => \A s \in Sources : flags[s] <= stored[s]

\* "updater/last" exists only once every source's vulnerabilities are stored,
\* even if updates overlap: until then changes are taken for the first update's
\* and not notified.
FirstUpdateIsComplete == last # Never => \A s \in Sources : stored[s] # 0

\* As long as no two updates have overlapped, a change is notified at most
\* once: an update repeated because it failed half-way finds no change where
\* the failed one stored it.
NotifiedOnce ==
    ~overlapped =>
        \A p \in Owners : up[p] = "notifications" =>
            \A c \in changes[p], d \in told : c.source = d.source => c.new # d.new

\* Again and again the database has what every source publishes, unless two
\* updates overlap: instances that crash or stop leave locks and half-done
\* updates behind, and any source and any transaction may fail, though not for
\* ever.
EventuallyStored == []<>(overlapped \/ stored = upstream)

\* RunUpdater returns after the Stopper is closed, if the database does not fail
\* for ever: a lock that meets an error and leaves no row is tried again at
\* once, without a look at the Stopper.
StopEndsUpdater ==
    \A p \in Stoppable : p \in stopping ~> pc[p] \in {"stopped", "exited"}
=============================================================================
