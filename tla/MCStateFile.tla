---------------------------- MODULE MCStateFile ----------------------------
(***************************************************************************)
(* Instances of StateFile for TLC: the RelayList and the RelayPrioritizer  *)
(* of a scanner process and a generate process.                            *)
(***************************************************************************)
EXTENDS StateFile
=============================================================================
