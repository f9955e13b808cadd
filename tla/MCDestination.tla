--------------------------- MODULE MCDestination ---------------------------
(***************************************************************************)
(* Instances of Destination for TLC. MCDestinationThreads.cfg has one      *)
(* destination shared by two threads, for the interleavings of             *)
(* is_functional. MCDestinationRetries.cfg has two destinations and one    *)
(* thread, for the listings, the choice and the retries.                   *)
(***************************************************************************)
EXTENDS Destination
=============================================================================
