----------------------------- MODULE LockTable -----------------------------
(***************************************************************************)
(* The Lock table of Clair's PostgreSQL database and the statements that   *)
(* database/pgsql/lock.go runs on it, as operators on a table value.  A    *)
(* row is (name, owner, until); name is UNIQUE in the schema, so the table *)
(* is a function from names to rows, with NoRow where there is none.       *)
(*                                                                         *)
(* Times are integers.  Only their order matters, so a module may pass     *)
(* absolute times or times relative to the present.                        *)
(***************************************************************************)
EXTENDS Integers

CONSTANTS Names,     \* lock names: "updater", and the names of notifications
          Owners,    \* whoAmI identifiers, one per running updater or notifier
          NoOwner    \* the owner of a row that does not exist

ASSUME NoOwnerAssumption == NoOwner \notin Owners

NoRow == [owner |-> NoOwner, until |-> 0]

\* A row of the table and the table itself.
Row == [owner : Owners \cup {NoOwner}, until : Int]
Tables == [Names -> Row]

EmptyTable == [n \in Names |-> NoRow]

\* Faulty variants of the statements below: each is what a plausible mistake
\* in lock.go would make of one of them.
PruneAtDeadline(table, ts) ==
    [n \in Names |-> IF table[n].until <= ts THEN NoRow ELSE table[n]]
PruneNothing(table, ts) == table
LockOnConflictUpdate(table, n, ts) == TRUE
RenewAnyOwner(table, n, o) == table[n].owner # NoOwner
UnlockByName(table, n, o) == [table EXCEPT ![n] = NoRow]

\* removeLockExpired: every row, of whatever name, whose until lies before
\* the transaction's CURRENT_TIMESTAMP.
pruneLocks(table, ts) ==
    [n \in Names |-> IF table[n].until < ts THEN NoRow ELSE table[n]]

\* soiLock after pruneLocks: the INSERT succeeds unless name is taken.
CanLock(table, n, ts) == pruneLocks(table, ts)[n].owner = NoOwner

Lock(table, n, o, ts, until) ==
    [pruneLocks(table, ts) EXCEPT ![n] = [owner |-> o, until |-> until]]

\* updateLock: matches the row of this name and owner, expired or not.
CanRenew(table, n, o) == table[n].owner = o

Renew(table, n, until) == [table EXCEPT ![n].until = until]

\* removeLock: deletes the row of this name and owner, if there is one.
Unlock(table, n, o) ==
    [table EXCEPT ![n] = IF @.owner = o THEN NoRow ELSE @]

=============================================================================
