--------------------------- MODULE MCMeasureRelay ---------------------------
(***************************************************************************)
(* Instance of MeasureRelay for TLC: an exit of each version of flow       *)
(* control, a bad exit and a relay that is not an exit.                    *)
(***************************************************************************)
EXTENDS MeasureRelay, TLC

CONSTANTS new, old, bad, middle

MCBandwidth == [r \in Relays |-> IF r = middle THEN 4 ELSE 3]
MCFlags == [r \in Relays |-> CASE r = middle -> {}
                               [] r = bad -> {"Exit", "BadExit"}
                               [] OTHER -> {"Exit"}]
MCExitPolicy == [r \in Relays |-> IF r = new THEN "some" ELSE "all"]
MCFlowCtrl == [r \in Relays |-> IF r = new THEN {1, 2} ELSE {1}]
MCConsensuses == {[relays |-> Relays, ccAlg |-> 0, bwscannerCc |-> 0],
                  [relays |-> Relays, ccAlg |-> 2, bwscannerCc |-> 0],
                  [relays |-> Relays \ {new}, ccAlg |-> 2, bwscannerCc |-> 2]}
Symmetry == Permutations(Threads)
=============================================================================
