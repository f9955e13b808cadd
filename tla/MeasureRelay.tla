---------------------------- MODULE MeasureRelay ----------------------------
(***************************************************************************)
(* scanner.measure_relay, as the measurer threads run it at the same time: *)
(* the choice of the path, the circuit, the stream that is attached to it  *)
(* through a listener of tor's events, the transfers, and what is closed   *)
(* and reported at the end.                                                *)
(*                                                                         *)
(* The threads share the tor controller (its listeners and circuits), the  *)
(* stream_building_lock, the stream_event dictionary of settings, the      *)
(* headers of their requests and the consensus in the RelayList. A stream   *)
(* is attached by whichever listener is installed when tor reports it:     *)
(* that is why there is a lock.                                            *)
(***************************************************************************)
EXTENDS Naturals, Sequences, FiniteSets, FiniteSetsExt

CONSTANTS
  Threads,           \* the measurer threads
  Relays,            \* the relays that may be in a consensus...
  Prioritized,       \* ...and those that best_priority returns
  Flags,             \* their flags...
  ExitPolicy,        \* ...and how many public addresses they exit to: "all",
                     \* "some", "none", or why there is no policy
  FlowCtrl,          \* the versions of the FlowCtrl protocol, of a descriptor
  Bandwidth,         \* their consensus bandwidth
  ExitMinBw,         \* exit_min_bw(), see RelayList
  NonExitMinBw,      \* non_exit_min_bw()
  Consensuses,       \* the consensuses there may be: relays and parameters
  TestingTorNetwork, \* the option of the same name of tor
  NumRtts,           \* options num_rtts, num_downloads...
  NumDownloads,
  InitialRead,       \* ...initial_read_request, min_ and max_download_size...
  MinDl,
  MaxDl,
  TooFast,           \* ...and download_toofast, _min, _target and _max
  DlMin,
  DlTarget,
  DlMax,
  Speeds,            \* bytes per unit of time of a download
  MaxProbes,         \* downloads that it may take to find the amount
  MaxMeasurements    \* bound: how often measure_relay is called

ASSUME RelaysAssumption ==
  /\ Prioritized \subseteq Relays
  /\ Flags \in [Relays -> SUBSET {"Exit", "BadExit"}]
  /\ ExitPolicy \in [Relays -> {"all", "some", "none", "no descriptor", "TypeError"}]
  /\ FlowCtrl \in [Relays -> SUBSET Nat] /\ Bandwidth \in [Relays -> Nat]
  /\ ExitMinBw \in Nat /\ NonExitMinBw \in Nat
ASSUME ConsensusesAssumption ==
  Consensuses \subseteq [relays : SUBSET Relays, ccAlg : 0..3, bwscannerCc : 0..2]
ASSUME CountsAssumption ==
  /\ NumRtts \in Nat /\ NumDownloads \in Nat /\ MaxProbes \in Nat
  /\ MaxMeasurements \in Nat
ASSUME SizesAssumption ==
  /\ MinDl \in Nat \ {0} /\ MaxDl \in Nat /\ InitialRead \in MinDl..MaxDl
  /\ Speeds \subseteq Nat \ {0}
ASSUME TimesAssumption ==
  /\ TooFast \in Nat /\ DlMin \in Nat /\ DlTarget \in Nat /\ DlMax \in Nat
  /\ TooFast <= DlMin /\ DlMin <= DlTarget /\ DlTarget < DlMax

\* The least amount, so many times five times as much: as many downloads that are
\* too fast, and one more, are enough to find the amount.
Grown[n \in 0..MaxProbes] == IF n = 0 THEN MinDl ELSE 5 * Grown[n - 1]
ASSUME ProbesAssumption == MaxProbes > 0 /\ Grown[MaxProbes - 1] >= MaxDl

\* A circuit is named for the thread that builds it. Each call builds two at most.
Circuits == Threads \X (1..2 * MaxMeasurements)
NoCircuit == << >>

VARIABLES
  endEvent,     \* settings.end_event
  consensus,    \* RelayList.relays and RelayList.consensus_params_dict
  streamEvent,  \* settings.stream_event
  range,        \* HTTP_GET_HEADERS["Range"]: how many bytes it asks for
  lock,         \* the threads that hold stream_building_lock, one at most
  listeners,    \* the listeners of STREAM events in the controller
  pending,      \* threads whose new stream tor leaves unattached
  stream,       \* per thread, the circuit its connection goes through, if any
  open,         \* circuits that tor keeps
  built,        \* per thread, how many circuits it has built
  pc,           \* per thread, where it is
  call,         \* per thread, the local variables of measure_relay
  \* History
  launched      \* calls of measure_relay

torVars == <<listeners, pending, stream, open, built>>
vars    == <<endEvent, consensus, streamEvent, range, lock, torVars, pc, call, launched>>

\* The local variables when a call begins. Those after outcome are history.
NewCall(r) ==
  [relay |-> r, asEntry |-> FALSE, path |-> << >>, circ |-> NoCircuit,
   count |-> 0,             \* RTTs or downloads already made
   amount |-> InitialRead,  \* expected_amount
   asked |-> 0,             \* the bytes that the request really asks for
   failed |-> FALSE,        \* whether bw_results is None
   outcome |-> "nothing",   \* the type of the result
   mine |-> {},             \* circuits built
   retried |-> FALSE,       \* the relay is taken as an entry after all
   reopened |-> FALSE,      \* a transfer had to connect again
   refreshed |-> FALSE]     \* another consensus since the last circuit

-----------------------------------------------------------------------------
(***************************************************************************)
(* The path: which end the relay is, and which relays can be the other.    *)
(***************************************************************************)

\* is_consensus_cc_alg_2, is_consensus_bwscanner_cc_gte_1 and _2. A parameter that
\* is not there is 0.
IsConsensusCcAlg2          == consensus.ccAlg = 2
IsConsensusBwscannerCcGte1 == consensus.bwscannerCc >= 1
IsConsensusBwscannerCc2    == consensus.bwscannerCc = 2

Exits == {r \in consensus.relays : "Exit" \in Flags[r]}

\* can_exit_to_port, not strict: to some address. With no descriptor there is no
\* policy, and one that has lost its rules raises TypeError.
CanExitToPort(r) == ExitPolicy[r] \in {"all", "some"}

\* exits_not_bad_allowing_port
IsExitNotBadAllowingPort(r) ==
  "BadExit" \notin Flags[r] /\ "Exit" \in Flags[r] /\ CanExitToPort(r)
Allowing == {r \in Exits : IsExitNotBadAllowingPort(r)}

\* has_2_in_flowctrl
Has2InFlowctrl(r) == 2 \in FlowCtrl[r]
FlowCtrl2 == {r \in Relays : Has2InFlowctrl(r)}

\* use_relay_as_entry
UseRelayAsEntry(r) ==
  ~ /\ IsExitNotBadAllowingPort(r)
    /\ IsConsensusCcAlg2 => (Has2InFlowctrl(r) <=> IsConsensusBwscannerCcGte1)

ExitsWith2InFlowctrl ==
  IF Allowing \cap FlowCtrl2 = {} /\ TestingTorNetwork
  THEN Exits \cap FlowCtrl2
  ELSE Allowing \cap FlowCtrl2
ExitsWithout2InFlowctrl == Allowing \ FlowCtrl2

\* Mutant of SelectHelperCandidates: the parameter is read the other way.
SwappedFlowCtrl(r, entry) ==
  IF ~UseRelayAsEntry(r) /\ ~entry THEN (consensus.relays \ Exits) \ {r}
  ELSE IF ~IsConsensusCcAlg2 THEN Allowing
  ELSE IF ~IsConsensusBwscannerCcGte1 THEN ExitsWith2InFlowctrl
  ELSE ExitsWithout2InFlowctrl

\* select_helper_candidates. It asks the parameters again: the answer may not
\* be the one use_relay_as_entry got.
SelectHelperCandidates(r, entry) ==
  LET helpers == IF ~UseRelayAsEntry(r) /\ ~entry THEN consensus.relays \ Exits
                 ELSE IF ~IsConsensusCcAlg2 THEN Allowing
                 ELSE IF IsConsensusBwscannerCcGte1 THEN ExitsWith2InFlowctrl
                 ELSE ExitsWithout2InFlowctrl
  IN  IF entry THEN helpers ELSE helpers \ {r}

\* only_relays_with_bandwidth, of a minimum in quarters
OnlyRelaysWithBandwidth(relays, minQuarters) ==
  {r \in relays : 4 * Bandwidth[r] >= minQuarters}

\* _pick_ideal_second_hop: those with 2, 1.75, 1.5, 1.25 or 1 times the
\* bandwidth of the relay, the first of these factors that any has, or else
\* the fastest one.
IdealSecondHops(r, entry, candidates) ==
  LET minRelayBw == IF entry THEN ExitMinBw ELSE NonExitMinBw
      AtLeast(factor) ==
        OnlyRelaysWithBandwidth(candidates, Max({factor * Bandwidth[r], 4 * minRelayBw}))
      factors == {factor \in 4..8 : AtLeast(factor) # {}}
  IN  IF factors # {} THEN AtLeast(Max(factors))
      ELSE {c \in candidates : \A d \in candidates : Bandwidth[d] <= Bandwidth[c]}

\* create_path_relay
PathWith(r, entry, helper) == IF entry THEN <<r, helper>> ELSE <<helper, r>>

-----------------------------------------------------------------------------
(***************************************************************************)
(* The amount to download. A download of b bytes at speed s takes b / s.   *)
(***************************************************************************)
TakesLess(b, s, time) == b < time * s

\* _should_keep_result, of an amount that was expected and b bytes that came.
ShouldKeepResult(amount, b, s) ==
  /\ TakesLess(b, s, DlMax)
  /\ amount = MaxDl \/ ~TakesLess(b, s, DlMin)

\* Mutant of NextExpectedAmount: a download that took too long is repeated.
NeverLess(amount, b, s) ==
  Min({MaxDl, Max({MinDl, IF TakesLess(b, s, TooFast) THEN 5 * amount
                          ELSE IF TakesLess(b, s, DlMin)
                          THEN (amount * DlTarget * s) \div b
                          ELSE amount})})

\* _next_expected_amount, with int(expected_amount * target / result_time).
NextExpectedAmount(amount, b, s) ==
  LET aim == IF TakesLess(b, s, TooFast) THEN 5 * amount
             ELSE IF TakesLess(b, s, DlMin) \/ ~TakesLess(b, s, DlMax)
             THEN (amount * DlTarget * s) \div b
             ELSE amount
  IN  Min({MaxDl, Max({MinDl, aim})})

-----------------------------------------------------------------------------
Init ==
  /\ endEvent = FALSE /\ consensus \in Consensuses
  /\ streamEvent = << >> /\ range = 0 /\ lock = {}
  /\ listeners = {} /\ pending = {}
  /\ stream = [t \in Threads |-> NoCircuit]
  /\ open = {} /\ built = [t \in Threads |-> 0]
  /\ pc = [t \in Threads |-> "idle"]
  /\ call = [t \in Threads |-> NewCall(CHOOSE r \in Relays : TRUE)]
  /\ launched = 0

-----------------------------------------------------------------------------
Goes(t, from, to) == pc[t] = from /\ pc' = [pc EXCEPT ![t] = to]

Sets(t, field, value) == call' = [call EXCEPT ![t][field] = value]

\* A step of a thread on its own, and one that touches its connection too.
Alone      == UNCHANGED <<endEvent, consensus, streamEvent, range, lock, torVars, launched>>
Connecting == UNCHANGED <<endEvent, consensus, streamEvent, range, lock, listeners, open,
                          built, launched>>

\* The connection of the thread is closed.
Disconnects(t) ==
  /\ pending' = pending \ {t}
  /\ stream' = [stream EXCEPT ![t] = NoCircuit]

\* What is left of a call: its result, and what it leaves in tor.
Outcome(t, type) ==
  call' = [call EXCEPT ![t] = [NewCall(@.relay) EXCEPT
             !.outcome = type, !.retried = call[t].retried,
             !.mine = call[t].mine \cap open',
             !.circ = IF type = "raised" THEN call[t].circ ELSE NoCircuit]]

\* measure_relay returns: the session and its connection go.
Returns(t, type) ==
  /\ Disconnects(t)
  /\ Connecting
  /\ Outcome(t, type)

\* A worker begins. dispatch_worker_thread has just looked at end_event.
Start(t, r) ==
  /\ Goes(t, "idle", "session")
  /\ ~endEvent
  /\ launched < MaxMeasurements
  /\ launched' = launched + 1
  /\ call' = [call EXCEPT ![t] = NewCall(r)]
  /\ UNCHANGED <<endEvent, consensus, streamEvent, range, lock, torVars>>

\* make_session gets no proxies when tor's control socket is closed or fails.
NoSession(t) ==
  /\ Goes(t, "session", "idle")
  /\ Returns(t, IF endEvent THEN "none" ELSE "error")

\* destinations.next() returns None, see Destination.
NoDestination(t) ==
  /\ Goes(t, "session", "idle")
  /\ Returns(t, "error-destination")

ChooseRole(t) ==
  /\ Goes(t, "session", "path")
  /\ Sets(t, "asEntry", UseRelayAsEntry(call[t].relay))
  /\ Alone

Candidates(t) == SelectHelperCandidates(call[t].relay, call[t].asEntry)

\* error_no_helper. The circuit of a first try stays open.
NoHelper(t) ==
  /\ Goes(t, "path", "idle")
  /\ Candidates(t) = {}
  /\ Returns(t, "error-second-relay")

CreatePath(t) ==
  /\ Goes(t, "path", "build")
  /\ \E helper \in IdealSecondHops(call[t].relay, call[t].asEntry, Candidates(t)) :
       Sets(t, "path", PathWith(call[t].relay, call[t].asEntry, helper))
  /\ Alone

\* error_no_circuit. Nor is the circuit of a first try closed here.
ErrorNoCircuit(t) ==
  /\ Goes(t, "build", "idle")
  /\ Returns(t, "error-circ")

\* cb.build_circuit. The parameter that says to upload is not asked again when
\* the relay is tried as an entry. Tor extends no circuit to the same relay.
BuildCircuit(t) ==
  /\ Goes(t, "build", IF IsConsensusBwscannerCc2 /\ ~call[t].retried
                      THEN "upload" ELSE "connect")
  /\ call[t].path[1] # call[t].path[2]
  /\ built' = [built EXCEPT ![t] = @ + 1]
  /\ LET c == <<t, built'[t]>>
     IN  /\ open' = open \cup {c}
         /\ call' = [call EXCEPT ![t].circ = c, ![t].mine = @ \cup {c},
                                 ![t].refreshed = FALSE]
  /\ UNCHANGED <<endEvent, consensus, streamEvent, range, lock, listeners, pending,
                 stream, launched>>

-----------------------------------------------------------------------------
(***************************************************************************)
(* The connection: connect_to_destination_over_circuit, and the first half *)
(* of upload_data.                                                         *)
(***************************************************************************)

\* Mutant of StreamBuildingLock: the lock is not taken.
NoLock(t) == UNCHANGED lock

\* with stream_building_lock
StreamBuildingLock(t) == lock = {} /\ lock' = {t}

\* A request opens a connection, thus a stream, unless its session has one.
OpenStream(t) ==
  pending' = IF stream[t] = NoCircuit THEN pending \cup {t} ELSE pending

ListenerOf(t) == [circ |-> call[t].circ, uploads |-> pc[t] \in {"upload", "uphead"}]

\* The lock is taken, the listener added and HEAD sent.
SendHead(t) ==
  /\ \/ Goes(t, "connect", "head") /\ ~endEvent
     \/ Goes(t, "upload", "uphead")
  /\ StreamBuildingLock(t)
  /\ listeners' = listeners \cup {ListenerOf(t)}
  /\ OpenStream(t)
  /\ UNCHANGED <<endEvent, consensus, streamEvent, range, stream, open, built, call,
                 launched>>

\* settings.stream_event[circ_id] = {}
CreateEvents(c) ==
  streamEvent' = [d \in DOMAIN streamEvent \cup {c} |->
                    IF d = c THEN {} ELSE streamEvent[d]]

\* A listener hears of a NEW stream, of any thread, and attaches it to its own
\* circuit. Tor may refuse: then the stream stays as it is, and its request fails.
Attach(l, t) ==
  /\ l.circ \in open
  /\ t \in pending
  /\ pending' = pending \ {t}
  /\ stream' = [stream EXCEPT ![t] = l.circ]
  /\ CreateEvents(l.circ)
  /\ UNCHANGED <<endEvent, consensus, range, lock, listeners, open, built, pc, call,
                 launched>>

\* finally: the listener is removed, and the lock released.
Unlisten(t) ==
  /\ listeners' = listeners \ {ListenerOf(t)}
  /\ lock' = lock \ {t}

\* When the destination cannot be used through the circuit, the relay is tried
\* as an entry, in another circuit, unless it is one already.
NotUsable(t, from) ==
  \/ /\ ~call[t].asEntry
     /\ Goes(t, from, "path")
     /\ call' = [call EXCEPT ![t].asEntry = TRUE, ![t].retried = TRUE]
  \/ /\ call[t].asEntry
     /\ Goes(t, from, "unusable")
     /\ UNCHANGED call

\* "Do not start if sbws is stopping."
ShuttingDown(t) ==
  /\ endEvent
  /\ NotUsable(t, "connect")
  /\ Alone

\* HEAD raises or times out, with its stream attached or not.
HeadFails(t) ==
  /\ \/ NotUsable(t, "head")
     \/ Goes(t, "uphead", "xoff") /\ Sets(t, "failed", TRUE)
  /\ Unlisten(t)
  /\ Disconnects(t)
  /\ UNCHANGED <<endEvent, consensus, streamEvent, range, open, built, launched>>

\* HEAD is answered, over whatever circuit the connection is attached to. When
\* it is with another status, no Content-Length or a content smaller than
\* max_dl, the session keeps the connection all the same.
HeadAnswered(t) ==
  /\ stream[t] # NoCircuit
  /\ \/ Goes(t, "head", "rtt") /\ UNCHANGED call
     \/ NotUsable(t, "head")
     \/ Goes(t, "uphead", "post") /\ UNCHANGED call
  /\ Unlisten(t)
  /\ UNCHANGED <<endEvent, consensus, streamEvent, range, pending, stream, open, built,
                 launched>>

-----------------------------------------------------------------------------
(***************************************************************************)
(* The transfers, with no lock and no listener.                            *)
(***************************************************************************)
Transferring(t) == pc[t] \in {"rttget", "get", "post"}

\* The server, or tor, closes the connection.
ConnectionLost(t) ==
  /\ Transferring(t)
  /\ stream[t] # NoCircuit
  /\ stream' = [stream EXCEPT ![t] = NoCircuit]
  /\ UNCHANGED <<pending, pc, call>> /\ Connecting

\* requests connects again, with another stream. The option
\* __LeaveStreamsUnattached is set: it waits for the listener of some thread.
Reconnect(t) ==
  /\ Transferring(t) /\ stream[t] = NoCircuit /\ t \notin pending
  /\ OpenStream(t)
  /\ Sets(t, "reopened", TRUE)
  /\ UNCHANGED <<stream, pc>> /\ Connecting

\* tor reports an XOFF of the stream of t. A listener that is installed and of
\* that kind keeps it under its own circuit, or raises KeyError in stem.
Xoff(t) ==
  LET heardFor == {l.circ : l \in {l \in listeners : l.uploads = (pc[t] = "post")}}
  IN  /\ pc[t] \in {"get", "post"} /\ stream[t] # NoCircuit
      /\ streamEvent' = [c \in DOMAIN streamEvent |->
                           streamEvent[c] \cup (IF c \in heardFor THEN {"XOFF"} ELSE {})]
      /\ UNCHANGED <<endEvent, consensus, range, lock, torVars, pc, call, launched>>

\* timed_recv_from_server: HTTP_GET_HEADERS is one dictionary for all threads.
SetRange(amount) ==
  /\ range' = amount
  /\ UNCHANGED <<endEvent, consensus, streamEvent, lock, torVars, launched>>

\* measure_rtt_to_server
RttRequest(t) ==
  /\ Goes(t, "rtt", "rttget")
  /\ call[t].count < NumRtts
  /\ SetRange(MinDl) /\ UNCHANGED call

RttMeasured(t) ==
  /\ Goes(t, "rttget", "rtt")
  /\ stream[t] # NoCircuit
  /\ Sets(t, "count", call[t].count + 1)
  /\ Alone

RttFails(t) ==
  /\ Goes(t, "rttget", "unusable")
  /\ Sets(t, "count", 0)
  /\ Disconnects(t)
  /\ Connecting

RttsReturn(t) ==
  /\ Goes(t, "rtt", "download")
  /\ call[t].count = NumRtts
  /\ Sets(t, "count", 0)
  /\ Alone

\* measure_bandwidth_to_server returns its results, or None.
DownloadsEnd(t, none) ==
  call' = [call EXCEPT ![t].failed = none, ![t].count = 0, ![t].asked = 0,
                       ![t].amount = InitialRead]

\* Mutant of DownloadsDone: end_event is not looked at.
OnlyCounted(t) == call[t].count = NumDownloads

\* while len(results) < num_downloads and not settings.end_event.is_set()
DownloadsDone(t) == call[t].count = NumDownloads \/ endEvent

\* One iteration of the loop: the header is set...
DownloadRequest(t) ==
  /\ Goes(t, "download", "request")
  /\ ~DownloadsDone(t)
  /\ SetRange(call[t].amount) /\ UNCHANGED call

\* ...session.get copies the headers, after it has looked for a .netrc file...
RequestSent(t) ==
  /\ Goes(t, "request", "get")
  /\ Sets(t, "asked", range)
  /\ Alone

\* ...and so many bytes come, with any status.
Downloaded(t, s) ==
  /\ Goes(t, "get", "download")
  /\ stream[t] # NoCircuit
  /\ call' = [call EXCEPT ![t].amount = NextExpectedAmount(@, call[t].asked, s),
                          ![t].count = IF ShouldKeepResult(call[t].amount, call[t].asked, s)
                                       THEN @ + 1 ELSE @,
                          ![t].asked = 0]
  /\ Alone

DownloadFails(t) ==
  /\ Goes(t, "get", "xoff")
  /\ DownloadsEnd(t, TRUE)
  /\ Disconnects(t)
  /\ Connecting

DownloadsReturn(t) ==
  /\ Goes(t, "download", "xoff")
  /\ DownloadsDone(t)
  /\ DownloadsEnd(t, FALSE)
  /\ Alone

\* The second half of upload_data: POST is answered, with any status...
Posted(t) ==
  /\ Goes(t, "post", "xoff")
  /\ stream[t] # NoCircuit
  /\ UNCHANGED call \/ Sets(t, "failed", TRUE)
  /\ Alone

\* ...or raises.
PostFails(t) ==
  /\ Goes(t, "post", "xoff")
  /\ Sets(t, "failed", TRUE)
  /\ Disconnects(t)
  /\ Connecting

-----------------------------------------------------------------------------
(***************************************************************************)
(* The end.                                                                *)
(***************************************************************************)

\* Mutant of CloseCircuit: it is left open.
LeaveOpen(t) == UNCHANGED open

\* cb.close_circuit(circ_id)
CloseCircuit(t) == open' = open \ {call[t].circ}

\* measure_relay closes the circuit and returns. The connections through it end.
ReturnsClosing(t) ==
  /\ CloseCircuit(t)
  /\ pending' = pending \ {t}
  /\ stream' = [u \in Threads |->
                  IF u = t \/ stream[u] \notin open' THEN NoCircuit ELSE stream[u]]
  /\ UNCHANGED <<endEvent, consensus, range, lock, listeners, built, launched>>

\* ResultErrorStream, before or during the RTTs: what the circuit has in
\* stream_event stays there.
Unusable(t) ==
  /\ Goes(t, "unusable", "idle")
  /\ ReturnsClosing(t)
  /\ Outcome(t, "error-stream")
  /\ UNCHANGED streamEvent

\* relay_update_xoff pops the events of the circuit...
RelayUpdateXoff(t) ==
  LET c == call[t].circ
  IN  /\ Goes(t, "xoff", "idle")
      /\ c \in DOMAIN streamEvent
      /\ streamEvent' = [d \in DOMAIN streamEvent \ {c} |-> streamEvent[d]]
      /\ ReturnsClosing(t)
      /\ Outcome(t, IF call[t].failed THEN "error-stream" ELSE "success")

\* ...and raises KeyError, out of measure_relay, when there are none.
RelayUpdateXoffRaises(t) ==
  /\ Goes(t, "xoff", "idle")
  /\ call[t].circ \notin DOMAIN streamEvent
  /\ Returns(t, "raised")

-----------------------------------------------------------------------------
\* RelayList refreshes the relays and the parameters.
Refresh ==
  /\ \E c \in Consensuses \ {consensus} : consensus' = c
  /\ call' = [t \in Threads |-> [call[t] EXCEPT !.refreshed = @ \/ pc[t] \in {"path", "build"}]]
  /\ UNCHANGED <<endEvent, streamEvent, range, lock, torVars, pc, launched>>

\* stop_threads
StopThreads ==
  /\ ~endEvent /\ endEvent' = TRUE
  /\ UNCHANGED <<consensus, streamEvent, range, lock, torVars, pc, call, launched>>

\* Every step of measure_relay. While a request is made one of them is enabled,
\* for http_timeout ends it.
MeasureRelay(t) ==
  \/ NoSession(t) \/ NoDestination(t) \/ ChooseRole(t)
  \/ NoHelper(t) \/ CreatePath(t) \/ ErrorNoCircuit(t) \/ BuildCircuit(t)
  \/ ShuttingDown(t) \/ SendHead(t) \/ HeadFails(t) \/ HeadAnswered(t)
  \/ Reconnect(t)
  \/ RttRequest(t) \/ RttMeasured(t) \/ RttFails(t) \/ RttsReturn(t)
  \/ DownloadRequest(t) \/ RequestSent(t) \/ \E s \in Speeds : Downloaded(t, s)
  \/ DownloadFails(t) \/ DownloadsReturn(t)
  \/ Posted(t) \/ PostFails(t)
  \/ Unusable(t) \/ RelayUpdateXoff(t) \/ RelayUpdateXoffRaises(t)

Tor ==
  \/ \E l \in listeners, t \in Threads : Attach(l, t)
  \/ \E t \in Threads : ConnectionLost(t) \/ Xoff(t)

Next ==
  \/ \E t \in Threads : MeasureRelay(t)
  \/ \E t \in Threads, r \in Prioritized : Start(t, r)
  \/ Tor
  \/ Refresh \/ StopThreads

Spec == Init /\ [][Next]_vars

-----------------------------------------------------------------------------
(***************************************************************************)
(* Properties.                                                             *)
(***************************************************************************)

\* The type of every variable; the lock has one owner, who has the listener.
TypeOK ==
  /\ endEvent \in BOOLEAN /\ consensus \in Consensuses
  /\ DOMAIN streamEvent \subseteq Circuits
  /\ \A c \in DOMAIN streamEvent : streamEvent[c] \subseteq {"XOFF"}
  /\ lock \in {{}} \cup {{t} : t \in Threads}
  /\ lock = {t \in Threads : pc[t] \in {"head", "uphead"}}
  /\ listeners = {ListenerOf(t) : t \in lock}
  /\ pending \subseteq Threads
  /\ stream \in [Threads -> {NoCircuit} \cup Circuits]
  /\ \A t \in Threads : stream[t] \in {NoCircuit} \cup open
  /\ built \in [Threads -> 0..2 * launched]
  /\ open \subseteq {c \in Circuits : c[2] <= built[c[1]]}
  /\ launched \in 0..MaxMeasurements
  /\ range \in {0} \cup MinDl..MaxDl
  /\ \A t \in Threads :
       /\ call[t].amount \in MinDl..MaxDl
       /\ call[t].asked \in IF pc[t] = "get" THEN MinDl..MaxDl ELSE {0}

\* "Otherwise, if there're measurer threads trying to attach other streams, the
\* controller [...] might (will?) use the same listener (and circuit) for the
\* new streams": with the lock, a thread transfers through a circuit of its
\* own, and the last one it built, unless it has had to connect again (with no
\* listener) or to try another circuit (with the connection of the first).
StreamThroughOwnCircuit ==
  \A t \in Threads :
    stream[t] # NoCircuit /\ ~call[t].reopened =>
      /\ stream[t] \in call[t].mine
      /\ ~call[t].retried => stream[t] = call[t].circ

\* However measure_relay returns, with a result or not, the circuit it has built
\* is closed, except the first of two when it was tried as an entry too, and
\* the one whose stream_event raised.
OneCircuitLeftAtMost ==
  \A t \in Threads :
    LET left == call[t].mine \cap open
    IN  pc[t] = "idle" /\ call[t].outcome # "raised" =>
          /\ ~call[t].retried => left = {}
          /\ Cardinality(left) <= 1

\* The path ends at a relay that exits to the Web server and is not a bad exit,
\* also when the consensus changes between the choice of the role, that of the
\* helper and the retry; but for such a change and that retry it is of two
\* relays, and the exit, whichever end is measured, has the version of flow
\* control that the consensus wants measured.
PathExits ==
  \A t \in Threads :
    pc[t] = "build" =>
      /\ IsExitNotBadAllowingPort(call[t].path[2])
      /\ ~call[t].retried /\ ~call[t].refreshed =>
           /\ call[t].path[1] # call[t].path[2]
           /\ IsConsensusCcAlg2 => (call[t].path[2] \in FlowCtrl2 <=> IsConsensusBwscannerCcGte1)

\* What the downloads would be, were the speed steady and the Range its own from
\* then on.
AmountsFrom(amount, s) ==
  LET after[n \in 0..MaxProbes] ==
        IF n = 0 THEN amount ELSE NextExpectedAmount(after[n - 1], after[n - 1], s)
  IN  after

\* Wherever the loop is, at a steady speed that is enough for the least amount a
\* download would be kept soon: the amount grows and shrinks as it should, and
\* does not swing or stick at a bound.
SteadySpeedIsMeasured ==
  \A t \in Threads, s \in Speeds :
    pc[t] = "download" /\ TakesLess(MinDl, s, DlMax) =>
      \E n \in 0..MaxProbes :
        ShouldKeepResult(AmountsFrom(call[t].amount, s)[n], AmountsFrom(call[t].amount, s)[n], s)

\* How far a thread is from the end of its call, when it does no download more.
Steps == <<{"idle"}, {"unusable"}, {"xoff"}, {"post"}, {"download"}, {"get"}, {"request"},
           {"rtt", "rttget"}, {"uphead"}, {"head"}, {"upload"}, {"connect"}, {"build"},
           {"path"}, {"session"}>>
Remaining(t) ==
  LET step == CHOOSE i \in DOMAIN Steps : pc[t] \in Steps[i]
      requests == 2 * (NumRtts - call[t].count)
                  + (IF pc[t] = "rttget" THEN 0 ELSE 1)
                  + IF stream[t] = NoCircuit /\ t \notin pending THEN 1 ELSE 0
  IN  <<IF call[t].asEntry THEN 0 ELSE 1, step, requests>>

Less(a, b) ==
  \E i \in DOMAIN a : a[i] < b[i] /\ \A j \in 1..i - 1 : a[j] = b[j]

\* After stop_threads each step of a measurement brings it nearer to its end:
\* there is no other download, no other call, and one retry at most. As the
\* threads go on, main_loop does not wait for ever for one of them.
EndsOnceStopped ==
  [][\A t \in Threads :
       endEvent /\ MeasureRelay(t) /\ pc'[t] # "idle" => Less(Remaining(t)', Remaining(t))]_vars

\* "Request the **byte_range** from the URL at **dest**" (scanner.py): the bytes
\* that are timed are the amount that the result will say was downloaded.
RangeIsRequested == \A t \in Threads : pc[t] = "get" => call[t].asked = call[t].amount

=============================================================================
