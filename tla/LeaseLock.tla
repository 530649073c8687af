----------------------------- MODULE LeaseLock -----------------------------
(***************************************************************************)
(* The lease locks by which the Clair instances that share a database      *)
(* coordinate: the lock and unlock helpers of notifier.go around the Lock, *)
(* Unlock and pruneLocks of database/pgsql/lock.go.                        *)
(*                                                                         *)
(* A call of lock is a transaction of its own.  Begin fixes the database's *)
(* CURRENT_TIMESTAMP (tx[o].start); time.Now() is read later, on the       *)
(* client, so the new until is computed from an instant between Begin and  *)
(* the commit; concurrent transactions that touch the same row wait for    *)
(* each other, so the statements and the commit are one step.  The commit  *)
(* may fail, and may fail after it took effect.  unlock is called from     *)
(* another goroutine than the one that renews, so it may fall between the  *)
(* Begin and the commit of a renewal by the same owner.                    *)
(***************************************************************************)
EXTENDS LockTable

CONSTANTS Duration,  \* updaterLockDuration, notifierLockDuration
          Skew,      \* client clock minus database clock, per owner
          MaxLag,    \* how far a client clock may be behind the database's
          MaxTime    \* bound on the clock

ASSUME DurationAssumption == Duration \in Nat \ {0}
ASSUME SkewAssumption ==
    /\ MaxLag \in Nat
    /\ Skew \in [Owners -> Int]
    /\ \A o \in Owners : Skew[o] >= -MaxLag
ASSUME MaxTimeAssumption == MaxTime \in Nat

VARIABLES now,      \* the database's clock
          table,    \* the committed content of the Lock table
          tx,       \* the call of lock that each owner has in progress
          granted,  \* <<o, n>>: lock told o that it has n, and o has not let go
          lease,    \* the expiration that lock returned last, per owner and name
          alive     \* owners whose process runs

vars == <<now, table, tx, granted, lease, alive>>

NoTx == [status |-> "none", name |-> "", start |-> 0]

Transactions ==
    {NoTx} \cup [status : {"lock", "renew"}, name : Names, start : Nat]

\* Every variable holds a value of its type: the clock, the rows of Lock, the
\* calls of lock() in progress and what each owner was told.
TypeOK ==
    /\ now \in Nat
    /\ table \in Tables
    /\ tx \in [Owners -> Transactions]
    /\ granted \subseteq Owners \X Names
    /\ lease \in [Owners -> [Names -> Int]]
    /\ alive \subseteq Owners

Init ==
    /\ now = 0
    /\ table = EmptyTable
    /\ tx = [o \in Owners |-> NoTx]
    /\ granted = {}
    /\ lease = [o \in Owners |-> [n \in Names |-> 0]]
    /\ alive = Owners

-----------------------------------------------------------------------------
\* lock: datastore.Begin.  The callers renew only a name they locked.
BeginLock(o, n) ==
    /\ o \in alive
    /\ tx[o] = NoTx
    /\ <<o, n>> \notin granted
    /\ tx' = [tx EXCEPT ![o] = [status |-> "lock", name |-> n, start |-> now]]
    /\ UNCHANGED <<now, table, granted, lease, alive>>

BeginRenew(o, n) ==
    /\ o \in alive
    /\ tx[o] = NoTx
    /\ <<o, n>> \in granted
    /\ tx' = [tx EXCEPT ![o] = [status |-> "renew", name |-> n, start |-> now]]
    /\ UNCHANGED <<now, table, granted, lease, alive>>

\* The values until := time.Now().Add(duration) may take during o's call.
Until(o) == {t + Skew[o] + Duration : t \in tx[o].start .. now}

\* The statements of o's call succeed: the table they produce.
Statements(o, until) ==
    LET n == tx[o].name IN
    \/ /\ tx[o].status = "lock"
       /\ CanLock(table, n, tx[o].start)
       /\ table' = Lock(table, n, o, tx[o].start, until)
    \/ /\ tx[o].status = "renew"
       /\ CanRenew(table, n, o)
       /\ table' = Renew(table, n, until)

EndCall(o) == tx' = [tx EXCEPT ![o] = NoTx]

\* locked, and tx.Commit succeeds: lock returns true and until.
LockCommitted(o) ==
    /\ o \in alive
    /\ granted' = IF tx[o].status = "lock"
                    THEN granted \cup {<<o, tx[o].name>>} ELSE granted
    /\ \E until \in Until(o) :
          /\ Statements(o, until)
          /\ lease' = [lease EXCEPT ![o][tx[o].name] =
                          IF <<o, tx[o].name>> \in granted' THEN until ELSE 0]
    /\ EndCall(o)
    /\ UNCHANGED <<now, alive>>

\* tx.Commit took effect but reported an error: lock returns false.
LockCommitLost(o) ==
    /\ o \in alive
    /\ \E until \in Until(o) : Statements(o, until)
    /\ EndCall(o)
    /\ UNCHANGED <<now, granted, lease, alive>>

\* Not locked, or any error: Rollback undoes the prune, lock returns false.
LockRefused(o) ==
    /\ o \in alive
    /\ tx[o] # NoTx
    /\ EndCall(o)
    /\ UNCHANGED <<now, table, granted, lease, alive>>

\* The owner no longer counts on its lease.
LetGo(o, n) ==
    /\ granted' = granted \ {<<o, n>>}
    /\ lease' = [lease EXCEPT ![o][n] = 0]

\* unlock: the row goes, or an error is swallowed and it stays.  Either way
\* the owner goes on as if it no longer had the lock.
UnlockCommitted(o, n) ==
    /\ o \in alive
    /\ <<o, n>> \in granted
    /\ table' = Unlock(table, n, o)
    /\ LetGo(o, n)
    /\ UNCHANGED <<now, tx, alive>>

UnlockFailed(o, n) ==
    /\ o \in alive
    /\ <<o, n>> \in granted
    /\ LetGo(o, n)
    /\ UNCHANGED <<now, table, tx, alive>>

\* The process dies; its rows stay, its open transaction is rolled back.  A
\* restarted process has a new whoAmI, that is, it is another owner.
Crash(o) ==
    /\ o \in alive
    /\ alive' = alive \ {o}
    /\ granted' = {g \in granted : g[1] # o}
    /\ lease' = [lease EXCEPT ![o] = [n \in Names |-> 0]]
    /\ EndCall(o)
    /\ UNCHANGED <<now, table>>

Tick ==
    /\ now < MaxTime
    /\ now' = now + 1
    /\ UNCHANGED <<table, tx, granted, lease, alive>>

Next ==
    \/ Tick
    \/ \E o \in Owners :
          \/ LockCommitted(o)
          \/ LockCommitLost(o)
          \/ LockRefused(o)
          \/ Crash(o)
          \/ \E n \in Names :
                \/ BeginLock(o, n)
                \/ BeginRenew(o, n)
                \/ UnlockCommitted(o, n)
                \/ UnlockFailed(o, n)

Spec == Init /\ [][Next]_vars

-----------------------------------------------------------------------------
\* A lease that lock() granted, that its owner has not given up and whose
\* expiration has not passed on the database's clock is in the Lock table, for
\* at least as long: no prune, late commit or renewal takes it away early.
LeaseHeld ==
    \A o \in Owners, n \in Names :
        (<<o, n>> \in granted /\ now <= lease[o][n])
            => (table[n].owner = o /\ table[n].until >= lease[o][n])

\* The expiration a call in progress will write is never before the one its
\* owner's row already has, whichever instant time.Now() is read at: a renewal
\* only extends a lease, as lock() calls of one owner follow each other.
RenewalExtends ==
    \A o \in Owners, n \in Names :
        table[n].owner = o =>
            /\ table[n].until <= now + Skew[o] + Duration
            /\ tx[o] # NoTx =>
                  table[n].until <= tx[o].start + Skew[o] + Duration

\* On its own clock, o's lease on n has more than the clock's lag to run.
Trusts(o, n) ==
    <<o, n>> \in granted /\ now + Skew[o] + MaxLag <= lease[o][n]

\* Two owners never trust a lease on the same name at the same time, although
\* each compares the expiration that lock() returned with its own clock.
LeaseExclusive ==
    \A o1, o2 \in Owners, n \in Names :
        (Trusts(o1, n) /\ Trusts(o2, n)) => o1 = o2

\* A row that has not expired leaves the table only by its owner's unlock, and
\* a row changes hands only by the INSERT of its new owner: a renewal that
\* commits after the unlock, or after the row was pruned, brings nothing back.
NoTakeover ==
    [][\A n \in Names :
          table'[n].owner # table[n].owner =>
             /\ (table[n].owner # NoOwner /\ now <= table[n].until)
                   => (/\ table'[n] = NoRow
                       /\ <<table[n].owner, n>> \in granted \ granted')
             /\ table'[n].owner # NoOwner
                   => (/\ tx[table'[n].owner].status = "lock"
                       /\ tx[table'[n].owner].name = n)]_vars

\* The owner of an unexpired row holds the name.
Holder ==
    [n \in Names |-> IF now <= table[n].until THEN table[n].owner ELSE NoOwner]

Leases == INSTANCE AbstractLease WITH holder <- Holder

\* The Lock table keeps the promise of database.Session's Lock: at any time a
\* name has one holder or none, and passes from one holder to the next only by
\* way of nobody holding it.
ImplementsLeases == Leases!Spec

=============================================================================
