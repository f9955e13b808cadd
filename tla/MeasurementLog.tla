--------------------------- MODULE MeasurementLog ---------------------------
(***************************************************************************)
(* What the scanner promises to whoever reads the datadir, with no         *)
(* threads, queue or locks: measurement attempts are launched in rounds,   *)
(* each attempt leaves at most one result in the log, and once the         *)
(* scanner is stopping no attempt is launched and only successes are       *)
(* recorded, but for one error that may already be past the check.         *)
(* Scanner.tla is shown to implement this module.                          *)
(***************************************************************************)
EXTENDS Naturals

CONSTANTS
  Relays,      \* fingerprints of the relays in the consensus
  MaxRounds    \* bound: main loop iterations that are explored

VARIABLES
  launched,    \* attempts that were submitted, [relay, round]
  log,         \* results in the datadir, [relay, round, kind]
  stopping,    \* whether the scanner was asked to stop
  late         \* whether an error was recorded after that

absVars == <<launched, log, stopping, late>>

AttemptOf(result) == [relay |-> result.relay, round |-> result.round]

\* Results of earlier runs of the scanner carry round 0.
EarlierResults == [relay : Relays, round : {0}, kind : {"success"}]

Init ==
  /\ launched = {}
  /\ log \in SUBSET EarlierResults
  /\ stopping = FALSE
  /\ late = FALSE

\* A round launches a fresh attempt for every relay of a batch.
Launch(batch, n) ==
  /\ ~stopping
  /\ \A a \in launched : a.round < n
  /\ launched' = launched \cup [relay : batch, round : {n}]
  /\ UNCHANGED <<log, stopping, late>>

\* An attempt that left nothing so far leaves one result.
Record(result) ==
  /\ AttemptOf(result) \in launched
  /\ \A other \in log : AttemptOf(other) # AttemptOf(result)
  /\ (stopping /\ result.kind # "success") => ~late
  /\ log' = log \cup {result}
  /\ late' = (late \/ (stopping /\ result.kind # "success"))
  /\ UNCHANGED <<launched, stopping>>

Stop ==
  /\ ~stopping
  /\ stopping' = TRUE
  /\ UNCHANGED <<launched, log, late>>

Next ==
  \/ \E batch \in SUBSET Relays, n \in 1..MaxRounds : Launch(batch, n)
  \/ \E result \in [relay : Relays, round : 1..MaxRounds,
                    kind : {"success", "error", "destination"}] :
        Record(result)
  \/ Stop

Spec == Init /\ [][Next]_absVars
=============================================================================
