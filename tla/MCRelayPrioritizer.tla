------------------------- MODULE MCRelayPrioritizer -------------------------
(***************************************************************************)
(* Instance of RelayPrioritizer for TLC.                                   *)
(***************************************************************************)
EXTENDS RelayPrioritizer

CONSTANTS fast, slow, auth

MCFraction == <<1, 20>>
=============================================================================
