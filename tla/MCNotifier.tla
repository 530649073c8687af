----------------------------- MODULE MCNotifier -----------------------------
(***************************************************************************)
(* Instances of Notifier for TLC: two Clair instances, of which p1 may     *)
(* crash or be stopped and p2 keeps running.                               *)
(***************************************************************************)
EXTENDS Notifier

CONSTANTS p1, p2
=============================================================================
