----------------------------- MODULE MCUpdater -----------------------------
(***************************************************************************)
(* The instance of Updater for TLC: two Clair instances, of which p1 may  *)
(* crash or be stopped and p2 keeps running.                               *)
(***************************************************************************)
EXTENDS Updater

CONSTANTS p1, p2, updater
=============================================================================
