---------------------------- MODULE MCLeaseLock ----------------------------
(* Two owners, one whose clock is behind the database's and one whose clock *)
(* is ahead, contend for two names.                                         *)
EXTENDS LeaseLock, TLC

CONSTANTS o1, o2

MCSkew == o1 :> -1 @@ o2 :> 1

Symmetry == Permutations(Names)

=============================================================================
