----------------------------- MODULE MCRelayList -----------------------------
(***************************************************************************)
(* Instance of RelayList for TLC: two exits and four relays that are not   *)
(* exits, of different bandwidths; consensuses with all of them, without   *)
(* the faster exit, and with no relay, as before tor has one.              *)
(***************************************************************************)
EXTENDS RelayList

CONSTANTS fast, slow, m1, m2, m3, m4

MCBandwidth == [r \in Fingerprints |-> IF r \in {fast, m1, m2} THEN 2 ELSE 1]
MCConsensuses == {[relays |-> {fast, slow, m1, m2, m3, m4}, params |-> "new"],
                  [relays |-> {slow, m1, m2, m3}, params |-> "old"],
                  [relays |-> {}, params |-> "old"]}
=============================================================================
