------------------------------- MODULE Results -------------------------------
(***************************************************************************)
(* Results of measurements, and how they are written to the datadir, a     *)
(* line of JSON each, and read again. A class of results writes its type,  *)
(* and the type says which class reads the line. (resultdump.py, json.py)  *)
(*                                                                         *)
(* Of the fields that are written and read as they are there is only the   *)
(* address: not the names and the key of the relay, the path, the URL, the *)
(* scanner and the message; nor the consensus bandwidth and whether it is  *)
(* a measured one, which are written and read like the descriptor's.       *)
(***************************************************************************)
EXTENDS Integers, Sequences

CONSTANTS
  None,     \* None of Python
  Version,  \* RESULT_VERSION
  Second    \* ticks of the clock in a second

ASSUME VersionAssumption == Version \in Nat
ASSUME SecondAssumption  == Second \in Nat \ {0}

\* What is remembered of a relay as a sequence of times (DateTimeSeq).
Recents ==
  {"relay_in_recent_consensus", "relay_recent_measurement_attempt",
   "relay_recent_priority_list", "xoff_recv", "xoff_sent"}

NoBandwidths == [average |-> None, burst |-> None, observed |-> None]

\* Result.Relay: a copy of what is known of a relay when it is measured.
ResultRelay(address, bandwidths, recent) ==
  [address |-> address, bandwidths |-> bandwidths, recent |-> recent]

-----------------------------------------------------------------------------
(***************************************************************************)
(* Writing                                                                 *)
(***************************************************************************)
ErrorTypes ==
  {"error-misc", "error-circ", "error-stream", "error-auth", "error-second-relay",
   "error-destination"}
ResultTypes == {"success"} \cup ErrorTypes

\* The property type of each class. That of ResultErrorDestination is the one of
\* ResultErrorSecondRelay.
Type(class) ==
  CASE class = "ResultSuccess"          -> "success"
    [] class = "ResultError"            -> "error-misc"
    [] class = "ResultErrorCircuit"     -> "error-circ"
    [] class = "ResultErrorStream"      -> "error-stream"
    [] class = "ResultErrorAuth"        -> "error-auth"
    [] class = "ResultErrorSecondRelay" -> "error-second-relay"
    [] class = "ResultErrorDestination" -> "error-second-relay"

\* CustomEncoder: a sequence of times, without microseconds.
Encoded(times) ==
  IF times = None THEN None ELSE [i \in DOMAIN times |-> Second * (times[i] \div Second)]

\* Result.to_dict, the JSON of it
ToDict(result) ==
  [type |-> Type(result.class), version |-> Version, time |-> result.time,
   address |-> result.relay.address,
   recent |-> [key \in Recents |-> Encoded(result.relay.recent[key])]]

\* ResultSuccess.to_dict adds the bandwidths and what was measured.
SuccessToDict(result) ==
  [type |-> Type(result.class), version |-> Version, time |-> result.time,
   address |-> result.relay.address,
   recent |-> [key \in Recents |-> Encoded(result.relay.recent[key])],
   bandwidths |-> result.relay.bandwidths,
   rtts |-> result.rtts, downloads |-> result.downloads]

\* str(result), of whichever class
Line(result) ==
  IF result.class = "ResultSuccess" THEN SuccessToDict(result) ELSE ToDict(result)

-----------------------------------------------------------------------------
(***************************************************************************)
(* Reading                                                                 *)
(***************************************************************************)

\* An error of a relay, of which no bandwidth was written.
ErrorFromDict(class, d) ==
  [class |-> class, time |-> d.time,
   relay |-> ResultRelay(d.address, NoBandwidths, d.recent)]

\* The from_dict of each class.
ResultError(d)            == ErrorFromDict("ResultError", d)
ResultErrorCircuit(d)     == ErrorFromDict("ResultErrorCircuit", d)
ResultErrorStream(d)      == ErrorFromDict("ResultErrorStream", d)
ResultErrorSecondRelay(d) == ErrorFromDict("ResultErrorSecondRelay", d)
ResultErrorAuth(d)        == ErrorFromDict("ResultErrorAuth", d)
ResultSuccess(d) ==
  [class |-> "ResultSuccess", time |-> d.time,
   relay |-> ResultRelay(d.address, d.bandwidths, d.recent),
   rtts |-> IF d.rtts = None THEN << >> ELSE d.rtts, downloads |-> d.downloads]

\* ResultErrorDestination.from_dict gives the path, the URL and the scanner to
\* Relay and not to the result: TypeError.
ResultErrorDestinationRaises(type) == type = "error-destination"

\* NotImplementedError, or the TypeError
Raises(type) == type \notin ResultTypes \/ ResultErrorDestinationRaises(type)

\* Result.from_dict, which does not raise
FromDict(d) ==
  IF d.version # Version THEN None
  ELSE CASE d.type = "success"            -> ResultSuccess(d)
         [] d.type = "error-misc"         -> ResultError(d)
         [] d.type = "error-circ"         -> ResultErrorCircuit(d)
         [] d.type = "error-stream"       -> ResultErrorStream(d)
         [] d.type = "error-auth"         -> ResultErrorAuth(d)
         [] d.type = "error-second-relay" -> ResultErrorSecondRelay(d)

=============================================================================
