----------------------------- MODULE MCDatadir -----------------------------
(***************************************************************************)
(* An instance of Datadir for TLC: a result is valid on its day only, and  *)
(* files of both sorts are compressed after a day and deleted after two, so *)
(* that each happens within MaxDay days. They keep the order of the        *)
(* defaults: 28, 29 and 57 days for results, 1 and 7 for bandwidth files.  *)
(***************************************************************************)
EXTENDS Datadir
=============================================================================
