--------------------------- MODULE AbstractLease ---------------------------
(***************************************************************************)
(* What database.Session promises of its locks: a name is held by one      *)
(* owner or by nobody.  A holder keeps the name until it releases it or    *)
(* its time runs out; nobody takes the name from a holder.                 *)
(***************************************************************************)
CONSTANTS Names, Owners, NoOwner

VARIABLE holder

Init == holder = [n \in Names |-> NoOwner]

Grant(n, o) ==
    /\ holder[n] = NoOwner
    /\ holder' = [holder EXCEPT ![n] = o]

Release(n) ==
    /\ holder[n] # NoOwner
    /\ holder' = [holder EXCEPT ![n] = NoOwner]

\* Time passes: any of the leases may run out.
Expire ==
    \E S \in SUBSET Names :
        holder' = [n \in Names |-> IF n \in S THEN NoOwner ELSE holder[n]]

Next ==
    \/ Expire
    \/ \E n \in Names : Release(n) \/ \E o \in Owners : Grant(n, o)

Spec == Init /\ [][Next]_holder

=============================================================================
