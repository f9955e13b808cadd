-------------------------- MODULE MCBandwidthFile --------------------------
(***************************************************************************)
(* An instance of BandwidthFile for TLC: two relays with up to three       *)
(* results each, every filter and scaling method, and numbers small enough *)
(* for TLC: a kilobyte is 10 bytes.                                        *)
(***************************************************************************)
EXTENDS BandwidthFile

CONSTANTS r1, r2

\* Times are in halves of a second; a relay is measured in the second before the
\* one of its result, and was then in as many consensuses.
Recent(time, xoffs) ==
  [key \in Recents |->
     CASE key = "relay_in_recent_consensus" -> [i \in 1..time |-> i]
       [] key = "relay_recent_measurement_attempt" -> <<time - 2>>
       [] key = "relay_recent_priority_list" -> <<0>>
       [] key = "xoff_recv" -> xoffs
       [] key = "xoff_sent" -> None]
Success(time, address, rtts, downloads, observed, burst, average) ==
  [class |-> "ResultSuccess", time |-> time,
   relay |-> ResultRelay(address,
               [observed |-> observed, burst |-> burst, average |-> average],
               Recent(time, IF rtts = None THEN <<3>> ELSE << >>)),
   rtts |-> rtts, downloads |-> downloads]
Failure(time, class, address) ==
  [class |-> class, time |-> time,
   relay |-> ResultRelay(address, NoBandwidths, Recent(time, <<2, 3>>))]

Kept == {
  Line(Failure(6, "ResultErrorDestination", 1)),
  Line(Success(0, 1, <<5>>, <<100>>, 90, 80, 95)),          \* old
  Line(Success(4, 2, None, <<13, 54>>, 90, 80, None)),      \* no average
  Line(Success(6, 1, <<4, 7>>, <<19>>, None, None, None)),  \* no descriptor
  Line(Success(8, 1, <<4>>, <<90, 3, 27>>, 0, 70, 35)),     \* observed 0
  Line(Success(8, 2, << >>, << >>, 0, None, 60))}           \* no download
\* Three results are of different times.
Lists ==
  {list \in UNION {[1..n -> Kept] : n \in 1..3} :
     \A i, j \in DOMAIN list : i < j =>
       \/ list[i].time < list[j].time
       \/ list[i].time = list[j].time /\ Len(list) < 3}
\* The first result of some was written by the version before.
MCLineLists ==
  Lists \cup {[list EXCEPT ![1].version = Version - 1] :
              list \in {l \in Lists : Len(l) < 3 /\ l[1].time = 0}}
Args(method, secsAway, secsRecent, minNum, reset) ==
  [method |-> method, secsAway |-> secsAway, secsRecent |-> secsRecent,
   minNum |-> minNum, reset |-> reset]
\* The first are the defaults.
MCArguments == {
  Args("torflow", None, None, 1, FALSE), Args("torflow", 2, 8, 2, TRUE),
  Args("sbws", 0, None, 2, FALSE), Args("raw", None, 8, 1, TRUE)}
MCConsensuses == {{}, {r1}, {r1, r2}}
=============================================================================
