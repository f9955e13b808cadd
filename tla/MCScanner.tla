----------------------------- MODULE MCScanner -----------------------------
(***************************************************************************)
(* Instances of Scanner for TLC. MCScannerRound.cfg has two relays and one *)
(* round, so that two measurements overlap with each other and with the    *)
(* ResultDump thread. MCScannerRounds.cfg has one relay and two rounds, so *)
(* that the ResultDump thread may still be busy with the first when the    *)
(* second one begins.                                                      *)
(***************************************************************************)
EXTENDS Scanner
=============================================================================
