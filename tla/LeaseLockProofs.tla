-------------------------- MODULE LeaseLockProofs --------------------------
(***************************************************************************)
(* Proofs about LeaseLock, for any set of names and owners, any lease      *)
(* duration, any bounded clock skew and any length of run.                 *)
(*                                                                         *)
(* LeaseHeld is not inductive by itself: a renewal could replace a row's   *)
(* expiration by an earlier one.  RenewalExtends excludes that, and needs  *)
(* in turn that no call began in the future (StartsPast).                  *)
(***************************************************************************)
EXTENDS LeaseLock, TLAPS

\* CURRENT_TIMESTAMP of an open transaction is not after the present.
StartsPast == \A o \in Owners : tx[o] # NoTx => tx[o].start <= now

IInv == TypeOK /\ StartsPast /\ RenewalExtends /\ LeaseHeld

USE NoOwnerAssumption, DurationAssumption, SkewAssumption, MaxTimeAssumption

-----------------------------------------------------------------------------
\* The statements keep the table a table.
LEMMA PruneType ==
    ASSUME NEW t \in Tables, NEW ts \in Int
    PROVE  pruneLocks(t, ts) \in Tables
BY DEF Tables, Row, NoRow, pruneLocks

LEMMA LockType ==
    ASSUME NEW t \in Tables, NEW n \in Names, NEW o \in Owners,
           NEW ts \in Int, NEW until \in Int
    PROVE  Lock(t, n, o, ts, until) \in Tables
BY PruneType DEF Tables, Row, Lock

LEMMA RenewType ==
    ASSUME NEW t \in Tables, NEW n \in Names, NEW until \in Int
    PROVE  Renew(t, n, until) \in Tables
BY DEF Tables, Row, Renew

LEMMA UnlockType ==
    ASSUME NEW t \in Tables, NEW n \in Names, NEW o \in Owners
    PROVE  Unlock(t, n, o) \in Tables
BY DEF Tables, Row, NoRow, Unlock

\* pruneLocks leaves every row that has not expired, and invents none.
LEMMA PruneKeeps ==
    ASSUME NEW t \in Tables, NEW ts \in Int, NEW n \in Names
    PROVE  /\ t[n].until >= ts => pruneLocks(t, ts)[n] = t[n]
           /\ pruneLocks(t, ts)[n].owner # NoOwner => pruneLocks(t, ts)[n] = t[n]
BY DEF Tables, Row, NoRow, pruneLocks

LEMMA NoTxStatus == NoTx.status = "none"
BY DEF NoTx

\* What a successful call of lock does to the rows: it acts for one name n.
LEMMA StatementsEffect ==
    ASSUME IInv, NEW o \in Owners, NEW until \in Until(o), Statements(o, until)
    PROVE  /\ until \in Int
           /\ tx[o] # NoTx /\ tx[o].name \in Names
           /\ tx[o].start + Skew[o] + Duration <= until
           /\ until <= now + Skew[o] + Duration
           /\ table' \in Tables
           /\ table'[tx[o].name] = [owner |-> o, until |-> until]
           /\ table[tx[o].name].owner \notin {o, NoOwner}
                 => table[tx[o].name].until < now
           /\ \A m \in Names \ {tx[o].name} :
                 \/ table'[m] = table[m]
                 \/ table'[m] = NoRow /\ table[m].until < now
<1> DEFINE n == tx[o].name
<1>1. tx[o] # NoTx /\ n \in Names /\ tx[o].start \in Nat /\ tx[o].start <= now
  <2>1. tx[o].status # "none"
    BY DEF Statements
  <2>2. tx[o] \in Transactions /\ now \in Nat
    BY DEF IInv, TypeOK
  <2>3. tx[o] # NoTx
    BY <2>1, NoTxStatus
  <2>4. n \in Names /\ tx[o].start \in Nat
    BY <2>2, <2>3 DEF Transactions
  <2>5. QED
    BY <2>3, <2>4 DEF IInv, StartsPast
<1>2. /\ until \in Int
      /\ tx[o].start + Skew[o] + Duration <= until
      /\ until <= now + Skew[o] + Duration
  BY <1>1 DEF Until, IInv, TypeOK
<1>3. CASE tx[o].status = "lock"
  <2>1. /\ table' = Lock(table, n, o, tx[o].start, until)
        /\ pruneLocks(table, tx[o].start)[n].owner = NoOwner
    BY <1>3 DEF Statements, CanLock
  <2>2. table \in Tables /\ now \in Nat
    BY DEF IInv, TypeOK
  <2>3. table' \in Tables
    BY <1>1, <1>2, <2>1, <2>2, LockType
  <2>4. table'[n] = [owner |-> o, until |-> until]
    BY <1>1, <2>1, <2>2, PruneType DEF Lock, Tables
  <2>5. table[n].owner # NoOwner => table[n].until < tx[o].start
    BY <1>1, <2>1, <2>2 DEF pruneLocks, Tables, Row
  <2>6. \A m \in Names \ {n} :
           \/ table'[m] = table[m]
           \/ table'[m] = NoRow /\ table[m].until < now
    BY <1>1, <2>1, <2>2 DEF Lock, pruneLocks, Tables, Row
  <2>7. QED
    BY <1>1, <1>2, <2>2, <2>3, <2>4, <2>5, <2>6 DEF Tables, Row
<1>4. CASE tx[o].status = "renew"
  <2>1. table' = Renew(table, n, until) /\ table[n].owner = o
    BY <1>4 DEF Statements, CanRenew
  <2>2. table \in Tables
    BY DEF IInv, TypeOK
  <2>3. table' \in Tables
    BY <1>1, <1>2, <2>1, <2>2, RenewType
  <2>4. /\ table'[n] = [owner |-> o, until |-> until]
        /\ \A m \in Names \ {n} : table'[m] = table[m]
    BY <1>1, <2>1, <2>2 DEF Renew, Tables, Row
  <2>5. QED
    BY <1>1, <1>2, <2>1, <2>3, <2>4
<1>5. QED BY <1>3, <1>4 DEF Statements
-----------------------------------------------------------------------------
LEMMA InitIInv == Init => IInv
<1> SUFFICES ASSUME Init PROVE IInv
  OBVIOUS
<1>1. TypeOK
  BY DEF Init, TypeOK, EmptyTable, Tables, Row, NoRow, Transactions
<1>2. StartsPast /\ LeaseHeld
  BY DEF Init, StartsPast, LeaseHeld
<1>3. RenewalExtends
  BY DEF Init, RenewalExtends, EmptyTable, NoRow
<1>4. QED BY <1>1, <1>2, <1>3 DEF IInv

\* A call that changes the table, whether or not its caller learns of it,
\* keeps what the two invariants say of the rows.
LEMMA StatementsKeep ==
    ASSUME IInv, NEW o \in Owners, NEW until \in Until(o),
           Statements(o, until), EndCall(o), now' = now
    PROVE  /\ RenewalExtends'
           /\ tx' \in [Owners -> Transactions]
           /\ StartsPast'
           /\ \A p \in Owners, m \in Names :
                 (<<p, m>> \in granted /\ now <= lease[p][m]) =>
                    (table'[m].owner = p /\ table'[m].until >= lease[p][m])
<1> DEFINE n == tx[o].name
<1>0. /\ until \in Int
      /\ tx[o] # NoTx /\ n \in Names
      /\ tx[o].start + Skew[o] + Duration <= until
      /\ until <= now + Skew[o] + Duration
      /\ table'[n] = [owner |-> o, until |-> until]
      /\ table[n].owner \notin {o, NoOwner} => table[n].until < now
      /\ \A m \in Names \ {n} :
            \/ table'[m] = table[m]
            \/ table'[m] = NoRow /\ table[m].until < now
  BY StatementsEffect
<1>1. /\ now \in Nat /\ table \in Tables /\ tx \in [Owners -> Transactions]
      /\ lease \in [Owners -> [Names -> Int]]
  BY DEF IInv, TypeOK
<1>2. tx' \in [Owners -> Transactions] /\ tx'[o] = NoTx
  BY <1>1 DEF EndCall, Transactions
<1>3. \A p \in Owners \ {o} : tx'[p] = tx[p]
  BY <1>1 DEF EndCall
<1>4. StartsPast'
  BY <1>2, <1>3 DEF IInv, StartsPast
<1>5. RenewalExtends'
  <2> SUFFICES ASSUME NEW p \in Owners, NEW m \in Names, table'[m].owner = p
               PROVE  /\ table'[m].until <= now + Skew[p] + Duration
                      /\ tx'[p] # NoTx =>
                            table'[m].until <= tx'[p].start + Skew[p] + Duration
    BY DEF RenewalExtends
  <2>1. CASE m = n
    <3>1. p = o /\ table'[m].until = until
      BY <2>1, <1>0
    <3>2. QED BY <1>2, <3>1, <1>0
  <2>2. CASE m # n
    <3>1. table'[m] = table[m]
      BY <2>2, <1>0 DEF NoRow
    <3>2. p # o => tx'[p] = tx[p]
      BY <1>3
    <3>3. /\ table[m].until <= now + Skew[p] + Duration
          /\ tx[p] # NoTx => table[m].until <= tx[p].start + Skew[p] + Duration
      BY <3>1 DEF IInv, RenewalExtends
    <3>4. QED BY <1>2, <3>1, <3>2, <3>3
  <2>3. QED BY <2>1, <2>2
<1>6. ASSUME NEW p \in Owners, NEW m \in Names,
             <<p, m>> \in granted, now <= lease[p][m]
      PROVE  table'[m].owner = p /\ table'[m].until >= lease[p][m]
  <2>1. table[m].owner = p /\ table[m].until >= lease[p][m]
    BY <1>6 DEF IInv, LeaseHeld
  <2>2. table[m].until \in Int /\ lease[p][m] \in Int /\ table[m].until >= now
    BY <1>1, <1>6, <2>1 DEF Tables, Row
  <2>3. CASE m = n
    <3>1. p = o
      BY <2>1, <2>2, <2>3, <1>0, <1>1
    <3>2. table[m].until <= tx[o].start + Skew[o] + Duration
      BY <2>1, <3>1, <1>0 DEF IInv, RenewalExtends
    <3>3. tx[o].start \in Nat
      BY <1>1, <1>0 DEF Transactions
    <3>4. table'[m].owner = o /\ table'[m].until = until
      BY <2>3, <1>0
    <3>5. QED
      BY <2>1, <2>2, <3>1, <3>2, <3>3, <3>4, <1>0
  <2>4. CASE m # n
    <3>1. table'[m] = table[m]
      BY <1>1, <2>2, <2>4, <1>0
    <3>2. QED BY <2>1, <3>1
  <2>5. QED BY <2>3, <2>4
<1>7. QED BY <1>2, <1>4, <1>5, <1>6

LEMMA NextIInv == IInv /\ [Next]_vars => IInv'
<1> SUFFICES ASSUME IInv, [Next]_vars PROVE IInv'
  OBVIOUS
<1> USE DEF IInv
<1>0. TypeOK
  OBVIOUS
<1>1. CASE Tick
  <2>1. TypeOK' /\ StartsPast'
    BY <1>0, <1>1 DEF Tick, TypeOK, StartsPast, Transactions
  <2>2. RenewalExtends'
    BY <1>0, <1>1 DEF Tick, TypeOK, RenewalExtends, Tables, Row
  <2>3. LeaseHeld'
    BY <1>0, <1>1 DEF Tick, TypeOK, LeaseHeld
  <2>4. QED BY <2>1, <2>2, <2>3
<1>2. ASSUME NEW o \in Owners, LockCommitted(o) PROVE IInv'
  <2>1. PICK until \in Until(o) :
           /\ Statements(o, until)
           /\ lease' = [lease EXCEPT ![o][tx[o].name] =
                           IF <<o, tx[o].name>> \in granted' THEN until ELSE 0]
    BY <1>2, Zenon DEF LockCommitted
  <2>2. EndCall(o) /\ now' = now /\ alive' = alive
    BY <1>2 DEF LockCommitted
  <2>3. /\ until \in Int /\ tx[o].name \in Names /\ table' \in Tables
        /\ table'[tx[o].name] = [owner |-> o, until |-> until]
    BY <2>1, StatementsEffect
  <2>4. /\ RenewalExtends' /\ StartsPast' /\ tx' \in [Owners -> Transactions]
        /\ \A p \in Owners, m \in Names :
              (<<p, m>> \in granted /\ now <= lease[p][m]) =>
                 (table'[m].owner = p /\ table'[m].until >= lease[p][m])
    BY <2>1, <2>2, StatementsKeep
  <2>5. granted' \subseteq granted \cup {<<o, tx[o].name>>}
    BY <1>2 DEF LockCommitted
  <2>6. TypeOK'
    <3>1. lease' \in [Owners -> [Names -> Int]]
      BY <1>0, <2>1, <2>3 DEF TypeOK
    <3>2. granted' \subseteq Owners \X Names
      BY <1>0, <2>3, <2>5 DEF TypeOK
    <3>3. QED BY <1>0, <2>2, <2>3, <2>4, <3>1, <3>2 DEF TypeOK
  <2>7. LeaseHeld'
    <3> SUFFICES ASSUME NEW p \in Owners, NEW m \in Names,
                        <<p, m>> \in granted', now <= lease'[p][m]
                 PROVE  table'[m].owner = p /\ table'[m].until >= lease'[p][m]
      BY <2>2 DEF LeaseHeld
    <3>1. CASE p = o /\ m = tx[o].name
      <4>1. lease'[p][m] = until
        BY <1>0, <2>1, <3>1 DEF TypeOK
      <4>2. QED BY <2>3, <3>1, <4>1
    <3>2. CASE ~(p = o /\ m = tx[o].name)
      <4>1. lease'[p][m] = lease[p][m] /\ <<p, m>> \in granted
        BY <1>0, <2>1, <2>5, <3>2 DEF TypeOK
      <4>2. QED BY <2>4, <4>1
    <3>3. QED BY <3>1, <3>2
  <2>8. QED BY <2>4, <2>6, <2>7
<1>3. ASSUME NEW o \in Owners, LockCommitLost(o) PROVE IInv'
  <2>1. PICK until \in Until(o) : Statements(o, until)
    BY <1>3 DEF LockCommitLost
  <2>2. /\ EndCall(o) /\ now' = now /\ alive' = alive
        /\ granted' = granted /\ lease' = lease
    BY <1>3 DEF LockCommitLost
  <2>3. table' \in Tables
    BY <2>1, StatementsEffect, Zenon
  <2>4. /\ RenewalExtends' /\ StartsPast' /\ tx' \in [Owners -> Transactions]
        /\ \A p \in Owners, m \in Names :
              (<<p, m>> \in granted /\ now <= lease[p][m]) =>
                 (table'[m].owner = p /\ table'[m].until >= lease[p][m])
    BY <2>1, <2>2, StatementsKeep
  <2>5. TypeOK'
    BY <1>0, <2>2, <2>3, <2>4 DEF TypeOK
  <2>6. LeaseHeld'
    BY <2>2, <2>4 DEF LeaseHeld
  <2>7. QED BY <2>4, <2>5, <2>6
<1>4. ASSUME NEW o \in Owners, LockRefused(o) PROVE IInv'
  <2>1. TypeOK'
    BY <1>0, <1>4 DEF LockRefused, EndCall, TypeOK, Transactions
  <2>2. StartsPast' /\ RenewalExtends' /\ LeaseHeld'
    BY <1>0, <1>4 DEF LockRefused, EndCall, TypeOK, StartsPast,
                      RenewalExtends, LeaseHeld
  <2>3. QED BY <2>1, <2>2
<1>5. ASSUME NEW o \in Owners, Crash(o) PROVE IInv'
  <2>1. TypeOK'
    BY <1>0, <1>5 DEF Crash, EndCall, TypeOK, Transactions
  <2>2. StartsPast' /\ RenewalExtends'
    BY <1>0, <1>5 DEF Crash, EndCall, TypeOK, StartsPast, RenewalExtends
  <2>3. LeaseHeld'
    BY <1>0, <1>5 DEF Crash, TypeOK, LeaseHeld
  <2>4. QED BY <2>1, <2>2, <2>3
<1>6. ASSUME NEW o \in Owners, NEW n \in Names,
             BeginLock(o, n) \/ BeginRenew(o, n)
      PROVE  IInv'
  <2>1. /\ UNCHANGED <<now, table, granted, lease, alive>>
        /\ \E s \in {"lock", "renew"} :
              tx' = [tx EXCEPT ![o] = [status |-> s, name |-> n, start |-> now]]
    BY <1>6 DEF BeginLock, BeginRenew
  <2>2. TypeOK'
    BY <1>0, <2>1 DEF TypeOK, Transactions
  <2>3. /\ tx'[o].start = now
        /\ \A p \in Owners \ {o} : tx'[p] = tx[p]
    BY <1>0, <2>1 DEF TypeOK
  <2>4. StartsPast' /\ RenewalExtends' /\ LeaseHeld'
    BY <1>0, <2>1, <2>3 DEF TypeOK, StartsPast, RenewalExtends, LeaseHeld
  <2>5. QED BY <2>2, <2>4
<1>7. ASSUME NEW o \in Owners, NEW n \in Names, UnlockCommitted(o, n)
      PROVE  IInv'
  <2>1. table \in Tables
    BY <1>0 DEF TypeOK
  <2>2. /\ table' \in Tables
        /\ \A m \in Names \ {n} : table'[m] = table[m]
        /\ table'[n] = table[n] \/ (table[n].owner = o /\ table'[n] = NoRow)
    BY <1>7, <2>1, UnlockType DEF UnlockCommitted, Unlock, Tables
  <2>3. TypeOK'
    BY <1>0, <1>7, <2>2 DEF UnlockCommitted, LetGo, TypeOK
  <2>4. StartsPast' /\ RenewalExtends'
    BY <1>0, <1>7, <2>2 DEF UnlockCommitted, StartsPast, RenewalExtends, NoRow
  <2>5. LeaseHeld'
    BY <1>0, <1>7, <2>2 DEF UnlockCommitted, LetGo, TypeOK, LeaseHeld
  <2>6. QED BY <2>3, <2>4, <2>5
<1>8. ASSUME NEW o \in Owners, NEW n \in Names, UnlockFailed(o, n)
      PROVE  IInv'
  <2>1. TypeOK'
    BY <1>0, <1>8 DEF UnlockFailed, LetGo, TypeOK
  <2>2. StartsPast' /\ RenewalExtends' /\ LeaseHeld'
    BY <1>0, <1>8 DEF UnlockFailed, LetGo, TypeOK, StartsPast,
                      RenewalExtends, LeaseHeld
  <2>3. QED BY <2>1, <2>2
<1>9. CASE UNCHANGED vars
  BY <1>9 DEF vars, TypeOK, StartsPast, RenewalExtends, LeaseHeld
<1>10. QED
  BY <1>1, <1>2, <1>3, <1>4, <1>5, <1>6, <1>7, <1>8, <1>9 DEF Next

-----------------------------------------------------------------------------
\* The state of the lock table, of the calls and of the leases always has the
\* shape TypeOK gives it.
THEOREM Typing == Spec => []TypeOK
<1>1. IInv => TypeOK
  BY DEF IInv
<1>2. QED BY <1>1, InitIInv, NextIInv, PTL DEF Spec

\* A granted lease stays in the Lock table until its expiration, whatever the
\* other owners' calls of lock and unlock do.
THEOREM LeaseSafety == Spec => []LeaseHeld
<1>1. IInv => LeaseHeld
  BY DEF IInv
<1>2. QED BY <1>1, InitIInv, NextIInv, PTL DEF Spec

\* A renewal never shortens a lease.
THEOREM RenewalSafety == Spec => []RenewalExtends
<1>1. IInv => RenewalExtends
  BY DEF IInv
<1>2. QED BY <1>1, InitIInv, NextIInv, PTL DEF Spec

\* No two owners whose clocks lag the database's by at most MaxLag trust a
\* lease on one name at the same time.
THEOREM MutualExclusion == Spec => []LeaseExclusive
<1>1. IInv => LeaseExclusive
  <2> SUFFICES ASSUME IInv, NEW p \in Owners, NEW q \in Owners, NEW n \in Names,
                      Trusts(p, n), Trusts(q, n)
               PROVE  p = q
    BY DEF LeaseExclusive
  <2>1. now \in Nat /\ lease \in [Owners -> [Names -> Int]]
    BY DEF IInv, TypeOK
  <2>2. now <= lease[p][n] /\ now <= lease[q][n]
    BY <2>1 DEF Trusts
  <2>3. table[n].owner = p /\ table[n].owner = q
    BY <2>2 DEF IInv, LeaseHeld, Trusts
  <2>4. QED BY <2>3
<1>2. QED BY <1>1, InitIInv, NextIInv, PTL DEF Spec

\* What a successful call of lock and what unlock do to the owner of a row.
LEMMA OwnerChange ==
    ASSUME IInv, [Next]_vars, NEW n \in Names, table'[n].owner # table[n].owner
    PROVE  \/ \E o \in Owners :
                 /\ tx[o].status = "lock" /\ tx[o].name = n
                 /\ table'[n].owner = o
                 /\ table[n].owner # NoOwner => table[n].until < now
           \/ table'[n] = NoRow /\ table[n].until < now
           \/ /\ table'[n] = NoRow
              /\ <<table[n].owner, n>> \in granted \ granted'
<1>0. table \in Tables /\ now \in Nat
  BY DEF IInv, TypeOK
<1>1. ASSUME NEW o \in Owners, NEW until \in Until(o), Statements(o, until)
      PROVE  \/ /\ tx[o].status = "lock" /\ tx[o].name = n
                /\ table'[n].owner = o
                /\ table[n].owner # NoOwner => table[n].until < now
             \/ table'[n] = NoRow /\ table[n].until < now
  <2>1. /\ table'[tx[o].name] = [owner |-> o, until |-> until]
        /\ table[tx[o].name].owner \notin {o, NoOwner}
              => table[tx[o].name].until < now
        /\ \A m \in Names \ {tx[o].name} :
              \/ table'[m] = table[m]
              \/ table'[m] = NoRow /\ table[m].until < now
    BY <1>1, StatementsEffect
  <2>2. CASE n = tx[o].name
    <3>1. table[n].owner # o
      BY <2>1, <2>2
    <3>2. tx[o].status = "lock"
      BY <1>1, <2>2, <3>1 DEF Statements, CanRenew
    <3>3. QED BY <2>1, <2>2, <3>1, <3>2
  <2>3. CASE n # tx[o].name
    BY <2>1, <2>3, Zenon
  <2>4. QED BY <2>2, <2>3
<1>2. ASSUME NEW o \in Owners, LockCommitted(o) \/ LockCommitLost(o)
      PROVE  \E until \in Until(o) : Statements(o, until)
  BY <1>2 DEF LockCommitted, LockCommitLost
<1>3. ASSUME NEW o \in Owners, NEW m \in Names, UnlockCommitted(o, m)
      PROVE  /\ table'[n] = NoRow
             /\ <<table[n].owner, n>> \in granted \ granted'
  <2>1. m = n /\ table[n].owner = o /\ table'[n] = NoRow
    BY <1>0, <1>3 DEF UnlockCommitted, Unlock, Tables
  <2>2. QED BY <1>3, <2>1 DEF UnlockCommitted, LetGo
<1>4. ASSUME UNCHANGED table PROVE FALSE
  BY <1>4
<1>5. QED
  BY <1>1, <1>2, <1>3, <1>4, Zenon
     DEF Next, vars, Tick, LockRefused, Crash, BeginLock, BeginRenew, UnlockFailed

\* Rows change hands only as NoTakeover says.
THEOREM TakeoverSafety == Spec => NoTakeover
<1>1. IInv /\ [Next]_vars =>
        [\A n \in Names :
          table'[n].owner # table[n].owner =>
             /\ (table[n].owner # NoOwner /\ now <= table[n].until)
                   => (/\ table'[n] = NoRow
                       /\ <<table[n].owner, n>> \in granted \ granted')
             /\ table'[n].owner # NoOwner
                   => (/\ tx[table'[n].owner].status = "lock"
                       /\ tx[table'[n].owner].name = n)]_vars
  <2> SUFFICES ASSUME IInv, [Next]_vars, NEW n \in Names,
                      table'[n].owner # table[n].owner
               PROVE  /\ (table[n].owner # NoOwner /\ now <= table[n].until)
                            => (/\ table'[n] = NoRow
                                /\ <<table[n].owner, n>> \in granted \ granted')
                      /\ table'[n].owner # NoOwner
                            => (/\ tx[table'[n].owner].status = "lock"
                                /\ tx[table'[n].owner].name = n)
    OBVIOUS
  <2>1. now \in Nat /\ table[n].until \in Int
    BY DEF IInv, TypeOK, Tables, Row
  <2>2. NoRow.owner = NoOwner
    BY DEF NoRow
  <2>3. QED BY <2>1, <2>2, OwnerChange
<1>2. QED BY <1>1, InitIInv, NextIInv, PTL DEF Spec, NoTakeover

-----------------------------------------------------------------------------
LEMMA InitRefines == Init => Leases!Init
BY DEF Init, Leases!Init, Holder, EmptyTable, NoRow

\* A step that changes one name only is a Grant or a Release of the abstract
\* specification.
LEMMA OneHolderChanges ==
    ASSUME NEW n \in Names,
           Holder'[n] \in Owners \cup {NoOwner},
           Holder[n] # NoOwner => Holder'[n] \in {Holder[n], NoOwner},
           \A m \in Names \ {n} : Holder'[m] = Holder[m]
    PROVE  [Leases!Next]_Holder
<1>1. Holder' = [Holder EXCEPT ![n] = Holder'[n]]
  BY Zenon DEF Holder
<1>2. CASE Holder'[n] = Holder[n]
  BY <1>1, <1>2 DEF Holder
<1>3. CASE Holder'[n] # Holder[n] /\ Holder[n] = NoOwner
  <2>1. Leases!Grant(n, Holder'[n])
    BY <1>1, <1>3 DEF Leases!Grant, Holder
  <2>2. QED BY <1>3, <2>1 DEF Leases!Next
<1>4. CASE Holder'[n] # Holder[n] /\ Holder[n] # NoOwner
  <2>1. Holder'[n] = NoOwner
    BY <1>4
  <2>2. Leases!Release(n)
    BY <1>1, <1>4, <2>1, Zenon DEF Leases!Release, Holder
  <2>3. QED BY <2>2 DEF Leases!Next
<1>5. QED BY <1>2, <1>3, <1>4

\* Every step of the Lock table is a step of the abstract lease, or none.
LEMMA NextRefines ==
    IInv /\ [Next]_vars => [Leases!Next]_Holder
<1> SUFFICES ASSUME IInv, [Next]_vars
             PROVE  [Leases!Next]_Holder
  OBVIOUS
<1>0. table \in Tables /\ now \in Nat
  BY DEF IInv, TypeOK
<1>1. CASE Tick
  <2> DEFINE S == {n \in Names : Holder'[n] = NoOwner}
  <2>1. \A n \in Names : Holder'[n] = IF n \in S THEN NoOwner ELSE Holder[n]
    BY <1>0, <1>1 DEF Tick, Holder, Tables, Row
  <2>2. Leases!Expire
    BY <2>1, Zenon DEF Leases!Expire, Holder
  <2>3. QED BY <2>2 DEF Leases!Next
<1>2. ASSUME NEW o \in Owners, NEW until \in Until(o), Statements(o, until),
             now' = now
      PROVE  [Leases!Next]_Holder
  <2>0. PICK n \in Names : n = tx[o].name
    BY <1>2, StatementsEffect, Zenon
  <2>1. /\ until \in Int
        /\ table'[n] = [owner |-> o, until |-> until]
        /\ table[n].owner \notin {o, NoOwner} => table[n].until < now
        /\ \A m \in Names \ {n} :
              \/ table'[m] = table[m]
              \/ table'[m] = NoRow /\ table[m].until < now
    BY <1>2, <2>0, StatementsEffect
  <2>2. \A m \in Names \ {n} : Holder'[m] = Holder[m]
    BY <1>0, <1>2, <2>1 DEF Holder, Tables, Row, NoRow
  <2>3. Holder'[n] \in {o, NoOwner}
    BY <1>0, <1>2, <2>1 DEF Holder
  <2>4. Holder[n] \in {o, NoOwner}
    BY <1>0, <2>1 DEF Holder, Tables, Row
  <2>5. QED BY <2>1, <2>2, <2>3, <2>4, OneHolderChanges
<1>3. ASSUME NEW o \in Owners, NEW n \in Names, UnlockCommitted(o, n)
      PROVE  [Leases!Next]_Holder
  <2>1. /\ now' = now
        /\ \A m \in Names \ {n} : table'[m] = table[m]
        /\ table'[n] = table[n] \/ table'[n] = NoRow
    BY <1>0, <1>3 DEF UnlockCommitted, Unlock, Tables
  <2>2. \A m \in Names \ {n} : Holder'[m] = Holder[m]
    BY <2>1 DEF Holder
  <2>3. Holder'[n] \in {Holder[n], NoOwner}
    BY <2>1 DEF Holder, NoRow
  <2>4. Holder[n] \in Owners \cup {NoOwner}
    BY <1>0 DEF Holder, Tables, Row
  <2>5. QED BY <2>2, <2>3, <2>4, OneHolderChanges
<1>4. ASSUME UNCHANGED <<now, table>>
      PROVE  [Leases!Next]_Holder
  BY <1>4 DEF Holder
<1>5. QED
  BY <1>1, <1>2, <1>3, <1>4, Zenon
     DEF Next, vars, LockCommitted, LockCommitLost, LockRefused, Crash,
         BeginLock, BeginRenew, UnlockFailed

\* The Lock table implements AbstractLease: a name has one holder or none, and
\* is never taken from its holder.
THEOREM Refinement == Spec => ImplementsLeases
<1> QED
  BY NextRefines, InitRefines, InitIInv, NextIInv, PTL
     DEF Spec, ImplementsLeases, Leases!Spec

=============================================================================
