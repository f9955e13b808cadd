------------------------- MODULE MeasureRelayProofs -------------------------
(***************************************************************************)
(* Theorems about MeasureRelay, for any number of threads, relays,         *)
(* consensuses and measurements.                                           *)
(***************************************************************************)
EXTENDS MeasureRelay, NaturalsInduction, WellFoundedInduction, FiniteSetTheorems, TLAPS

Pcs == {"idle", "session", "path", "build", "upload", "connect", "head",
        "uphead", "rtt", "rttget", "download", "request", "get", "post",
        "xoff", "unusable"}
OutcomeTypes ==
  {"nothing", "none", "error", "error-destination", "error-second-relay",
   "error-circ", "error-stream", "success", "raised"}
\* The last is that of a thread that was never called.
AnyRelay == Relays \cup {CHOOSE r \in Relays : TRUE}
CallRecords ==
  [relay : AnyRelay, asEntry : BOOLEAN, path : Seq(AnyRelay),
   circ : {NoCircuit} \cup Circuits, count : Nat, amount : MinDl..MaxDl,
   asked : {0} \cup MinDl..MaxDl, failed : BOOLEAN, outcome : OutcomeTypes,
   mine : SUBSET Circuits, retried : BOOLEAN, reopened : BOOLEAN,
   refreshed : BOOLEAN]

(***************************************************************************)
(* The invariant, in parts.                                                *)
(***************************************************************************)
CallTypes ==
  /\ endEvent \in BOOLEAN /\ consensus \in Consensuses
  /\ pc \in [Threads -> Pcs]
  /\ call \in [Threads -> CallRecords]
  /\ built \in [Threads -> Nat]
  /\ launched \in 0..MaxMeasurements
  /\ pending \subseteq Threads
  /\ stream \in [Threads -> {NoCircuit} \cup Circuits]

\* What is asked of the server.
AskedInv ==
  /\ range \in {0} \cup MinDl..MaxDl
  /\ \A t \in Threads :
       /\ pc[t] = "request" => range \in MinDl..MaxDl
       /\ call[t].asked \in IF pc[t] = "get" THEN MinDl..MaxDl ELSE {0}

\* Who has the lock has the one listener.
LockInv ==
  /\ lock = {t \in Threads : pc[t] \in {"head", "uphead"}}
  /\ lock \in {{}} \cup {{t} : t \in Threads}
  /\ listeners = {ListenerOf(t) : t \in lock}

\* The places before the first circuit and those with one.
Before  == {"session", "path", "build"}
Using   == {"upload", "connect", "head", "uphead", "rtt", "rttget", "download",
            "request", "get", "post", "xoff", "unusable"}

\* How many circuits the call may still build.
Left(t) ==
  IF pc[t] = "idle" THEN 0
  ELSE (IF call[t].retried THEN 0 ELSE 1) + (IF pc[t] \in Before THEN 1 ELSE 0)

\* The circuits that t has built; those of its call are among them.
BuiltInv(t) ==
  /\ built[t] + Left(t) <= 2 * launched
  /\ \A c \in call[t].mine : c \in {t} \X (1..built[t])
  /\ pc[t] \in Using => call[t].circ = <<t, built[t]>> /\ call[t].circ \in call[t].mine
  /\ call[t].retried /\ pc[t] # "idle" => call[t].asEntry
  /\ pc[t] = "session" => ~call[t].retried

\* How many circuits it has: one, and that of a first try; and how many it
\* leaves open.
MineInv(t) ==
  /\ pc[t] \in Before /\ ~call[t].retried => call[t].mine = {}
  /\ pc[t] \in Using /\ ~call[t].retried => call[t].mine = {call[t].circ}
  /\ pc[t] \in Before => \A c, d \in call[t].mine : c = d
  /\ pc[t] \in Using => \A c, d \in call[t].mine \ {call[t].circ} : c = d
  /\ pc[t] = "idle" /\ call[t].outcome # "raised" =>
       /\ ~call[t].retried => call[t].mine \cap open = {}
       /\ \A c, d \in call[t].mine \cap open : c = d

\* Tor keeps only circuits that were built, and streams only over these.
OpenInv ==
  /\ open \subseteq {c \in Circuits : c[2] <= built[c[1]]}
  /\ \A t \in Threads : stream[t] \in {NoCircuit} \cup open
  /\ DOMAIN streamEvent \subseteq Circuits
  /\ \A c \in DOMAIN streamEvent : streamEvent[c] \subseteq {"XOFF"}

\* A stream waits for the listener of its own thread, or was opened again.
StreamInv(t) ==
  /\ t \in pending => stream[t] = NoCircuit
  /\ t \in pending => t \in lock \/ call[t].reopened
  /\ pc[t] = "idle" \/ (pc[t] \in Before /\ ~call[t].retried) =>
       stream[t] = NoCircuit /\ t \notin pending
  /\ pc[t] \in Before /\ ~call[t].retried => ~call[t].reopened
  /\ stream[t] # NoCircuit /\ ~call[t].reopened =>
       /\ stream[t] \in call[t].mine
       /\ ~call[t].retried => stream[t] = call[t].circ

RelayInv ==
  /\ CallTypes /\ AskedInv /\ LockInv /\ OpenInv
  /\ \A t \in Threads : BuiltInv(t) /\ MineInv(t) /\ StreamInv(t)

\* The role and the path agree with the consensus they were chosen from. In a
\* testing network the exit may be one that does not allow the port.
PathInv(t) ==
  /\ pc[t] # "idle" => call[t].relay \in Relays
  /\ pc[t] = "session" => ~call[t].asEntry
  /\ pc[t] = "path" /\ ~call[t].retried /\ ~call[t].refreshed =>
       (call[t].asEntry <=> UseRelayAsEntry(call[t].relay))
  /\ pc[t] = "path" /\ ~call[t].asEntry => IsExitNotBadAllowingPort(call[t].relay)
  /\ pc[t] = "path" /\ call[t].retried => call[t].asEntry
  /\ pc[t] = "build" /\ ~TestingTorNetwork =>
       /\ IsExitNotBadAllowingPort(call[t].path[2])
       /\ ~call[t].retried /\ ~call[t].refreshed =>
            /\ call[t].path[1] # call[t].path[2]
            /\ IsConsensusCcAlg2 => (call[t].path[2] \in FlowCtrl2 <=> IsConsensusBwscannerCcGte1)

-----------------------------------------------------------------------------
(***************************************************************************)
(* What each kind of step does.                                            *)
(***************************************************************************)
Starts(t) == \E r \in Prioritized : Start(t, r)

\* The steps with a circuit.
UsingStep(t) ==
  \/ ShuttingDown(t) \/ SendHead(t) \/ HeadFails(t) \/ HeadAnswered(t) \/ Reconnect(t)
  \/ RttRequest(t) \/ RttMeasured(t) \/ RttFails(t) \/ RttsReturn(t)
  \/ DownloadRequest(t) \/ RequestSent(t) \/ \E s \in Speeds : Downloaded(t, s)
  \/ DownloadFails(t) \/ DownloadsReturn(t)
  \/ Posted(t) \/ PostFails(t)

\* Those that return without closing it, and those that close it.
ReturnStep(t) ==
  NoSession(t) \/ NoDestination(t) \/ NoHelper(t) \/ ErrorNoCircuit(t) \/ RelayUpdateXoffRaises(t)
CloseStep(t) == Unusable(t) \/ RelayUpdateXoff(t)

\* Every step of measure_relay is of one of these kinds.
LEMMA Kinds ==
  ASSUME NEW t \in Threads, MeasureRelay(t)
  PROVE  \/ ChooseRole(t) \/ CreatePath(t) \/ BuildCircuit(t)
         \/ UsingStep(t) \/ ReturnStep(t) \/ CloseStep(t)
BY DEF MeasureRelay, UsingStep, ReturnStep, CloseStep

\* A thread changes nothing of another one, but the connections through the
\* circuit it closes.
LEMMA OthersFrame ==
  ASSUME CallTypes, NEW t \in Threads, MeasureRelay(t) \/ Starts(t), NEW u \in Threads \ {t}
  PROVE  /\ pc'[u] = pc[u] /\ call'[u] = call[u] /\ built'[u] = built[u]
         /\ u \in pending' <=> u \in pending
         /\ stream'[u] = stream[u] \/ stream'[u] = NoCircuit
<1> USE DEF CallTypes, Goes
<1>1. CASE Starts(t)
  BY <1>1 DEF Starts, Start, torVars
<1>2. CASE ChooseRole(t) \/ CreatePath(t)
  BY <1>2 DEF ChooseRole, CreatePath, Sets, Alone, torVars
<1>3. CASE BuildCircuit(t)
  BY <1>3 DEF BuildCircuit
<1>4. CASE ReturnStep(t)
  BY <1>4 DEF ReturnStep, NoSession, NoDestination, NoHelper, ErrorNoCircuit,
     RelayUpdateXoffRaises, Returns, Disconnects, Connecting, Outcome
<1>5. CASE CloseStep(t)
  BY <1>5 DEF CloseStep, Unusable, RelayUpdateXoff, ReturnsClosing, Outcome
<1>6. CASE ShuttingDown(t) \/ SendHead(t) \/ HeadFails(t) \/ HeadAnswered(t) \/ Reconnect(t)
  BY <1>6 DEF ShuttingDown, SendHead, HeadFails, HeadAnswered, Reconnect, NotUsable,
     Sets, Alone, Connecting, Disconnects, OpenStream, torVars
<1>7. CASE RttRequest(t) \/ RttMeasured(t) \/ RttFails(t) \/ RttsReturn(t)
  BY <1>7 DEF RttRequest, RttMeasured, RttFails, RttsReturn, SetRange,
     Sets, Alone, Connecting, Disconnects, torVars
<1>8. CASE DownloadRequest(t) \/ RequestSent(t) \/ DownloadFails(t) \/ DownloadsReturn(t)
  BY <1>8 DEF DownloadRequest, RequestSent, DownloadFails, DownloadsReturn,
     DownloadsEnd, SetRange, Sets, Alone, Connecting, Disconnects, torVars
<1>9. CASE Posted(t) \/ PostFails(t) \/ \E s \in Speeds : Downloaded(t, s)
  BY <1>9 DEF Posted, PostFails, Downloaded, Sets, Alone, Connecting, Disconnects, torVars
<1> QED
  BY <1>1, <1>2, <1>3, <1>4, <1>5, <1>6, <1>7, <1>8, <1>9, Kinds DEF UsingStep

\* What a step that keeps the circuit does to its own call.
UsingEffect(t) ==
  /\ pc[t] \in Using /\ pc'[t] \in Pcs
  /\ call'[t].relay = call[t].relay /\ call'[t].path = call[t].path
  /\ call'[t].circ = call[t].circ /\ call'[t].mine = call[t].mine
  /\ call'[t].outcome = call[t].outcome /\ call'[t].refreshed = call[t].refreshed
  /\ \/ /\ pc'[t] \in Using
        /\ call'[t].asEntry = call[t].asEntry /\ call'[t].retried = call[t].retried
     \/ pc'[t] = "path" /\ ~call[t].asEntry /\ call'[t].asEntry /\ call'[t].retried
  /\ call[t].reopened => call'[t].reopened
  /\ UNCHANGED <<endEvent, consensus, streamEvent, open, built, launched>>

\* After a relay is found not usable it is tried as entry, once, or given up.
LEMMA NotUsableEffects ==
  ASSUME CallTypes, NEW t \in Threads, NEW from, NotUsable(t, from)
  PROVE  /\ pc[t] = from
         /\ \/ /\ pc'[t] = "path" /\ ~call[t].asEntry
               /\ call'[t] = [call[t] EXCEPT !.asEntry = TRUE, !.retried = TRUE]
            \/ pc'[t] = "unusable" /\ call[t].asEntry /\ UNCHANGED call
BY DEF NotUsable, Goes, CallTypes

\* The step keeps all of the call that the invariants below look at.
KeepsCall(t) ==
  /\ call'[t].relay = call[t].relay /\ call'[t].path = call[t].path
  /\ call'[t].circ = call[t].circ /\ call'[t].mine = call[t].mine
  /\ call'[t].outcome = call[t].outcome /\ call'[t].refreshed = call[t].refreshed
  /\ call'[t].asEntry = call[t].asEntry /\ call'[t].retried = call[t].retried
  /\ call[t].reopened => call'[t].reopened

\* Each of the steps that use the circuit keeps it, or is the retry as entry.
LEMMA UsingEffects ==
  ASSUME CallTypes, NEW t \in Threads, UsingStep(t)
  PROVE  UsingEffect(t)
<1>1. call \in [Threads -> CallRecords] /\ pc \in [Threads -> Pcs] /\ call[t] \in CallRecords
  BY DEF CallTypes
<1>2. ASSUME UNCHANGED call PROVE KeepsCall(t)
  BY <1>2 DEF KeepsCall
<1>3. ASSUME NEW v, Sets(t, "count", v) \/ Sets(t, "asked", v) \/ Sets(t, "failed", v)
      PROVE  KeepsCall(t)
  BY <1>1, <1>3 DEF Sets, KeepsCall, CallRecords
<1>4. ASSUME NEW none, DownloadsEnd(t, none) PROVE KeepsCall(t)
  BY <1>1, <1>4 DEF DownloadsEnd, KeepsCall, CallRecords
<1>5. ASSUME KeepsCall(t), pc[t] \in Using, pc'[t] \in Using,
             UNCHANGED <<endEvent, consensus, streamEvent, open, built, launched>>
      PROVE  UsingEffect(t)
  BY <1>5 DEF KeepsCall, UsingEffect, Using, Pcs
<1>6. ASSUME NEW from \in {"connect", "head"}, NotUsable(t, from),
             UNCHANGED <<endEvent, consensus, streamEvent, open, built, launched>>
      PROVE  UsingEffect(t)
  <2>1. CASE pc'[t] = "path"
    <3>1. /\ pc[t] = from /\ ~call[t].asEntry
          /\ call'[t] = [call[t] EXCEPT !.asEntry = TRUE, !.retried = TRUE]
      BY <1>6, <2>1, NotUsableEffects
    <3>2. /\ call'[t].relay = call[t].relay /\ call'[t].path = call[t].path
          /\ call'[t].circ = call[t].circ /\ call'[t].mine = call[t].mine
          /\ call'[t].outcome = call[t].outcome /\ call'[t].refreshed = call[t].refreshed
          /\ call'[t].asEntry /\ call'[t].retried
          /\ call'[t].reopened = call[t].reopened
      BY <1>1, <3>1 DEF CallRecords
    <3> QED
      BY <1>6, <2>1, <3>1, <3>2 DEF UsingEffect, Using, Pcs
  <2>2. CASE pc'[t] # "path"
    <3>1. pc[t] = from /\ pc'[t] = "unusable" /\ UNCHANGED call
      BY <1>6, <2>2, NotUsableEffects
    <3> QED
      BY <1>2, <1>5, <1>6, <3>1 DEF Using
  <2> QED
    BY <2>1, <2>2
<1>7. CASE ShuttingDown(t)
  BY <1>6, <1>7 DEF ShuttingDown, Alone, torVars
<1>8. CASE SendHead(t)
  BY <1>1, <1>2, <1>5, <1>8 DEF SendHead, Goes, Using
<1>9. CASE HeadFails(t)
  <2>1. UNCHANGED <<endEvent, consensus, streamEvent, open, built, launched>>
    BY <1>9 DEF HeadFails
  <2>2. CASE NotUsable(t, "head")
    BY <1>6, <2>1, <2>2
  <2>3. CASE Goes(t, "uphead", "xoff") /\ Sets(t, "failed", TRUE)
    BY <1>1, <1>3, <1>5, <2>1, <2>3 DEF Goes, Using
  <2> QED
    BY <1>9, <2>2, <2>3 DEF HeadFails
<1>10. CASE HeadAnswered(t)
  <2>1. UNCHANGED <<endEvent, consensus, streamEvent, open, built, launched>>
    BY <1>10 DEF HeadAnswered
  <2>2. CASE NotUsable(t, "head")
    BY <1>6, <2>1, <2>2
  <2>3. CASE (Goes(t, "head", "rtt") \/ Goes(t, "uphead", "post")) /\ UNCHANGED call
    BY <1>1, <1>2, <1>5, <2>1, <2>3 DEF Goes, Using
  <2> QED
    BY <1>10, <2>2, <2>3 DEF HeadAnswered
<1>11. CASE Reconnect(t)
  <2>1. KeepsCall(t)
    BY <1>1, <1>11 DEF Reconnect, Sets, KeepsCall, CallRecords
  <2> QED
    BY <1>5, <1>11, <2>1 DEF Reconnect, Transferring, Connecting, Using
<1>12. CASE RttRequest(t) \/ RttMeasured(t)
  BY <1>1, <1>2, <1>3, <1>5, <1>12
     DEF RttRequest, RttMeasured, SetRange, Alone, torVars, Goes, Using
<1>13. CASE RttFails(t) \/ RttsReturn(t)
  BY <1>1, <1>3, <1>5, <1>13
     DEF RttFails, RttsReturn, Alone, Connecting, torVars, Goes, Using
<1>14. CASE DownloadRequest(t) \/ RequestSent(t)
  BY <1>1, <1>2, <1>3, <1>5, <1>14
     DEF DownloadRequest, RequestSent, SetRange, Alone, torVars, Goes, Using
<1>15. CASE DownloadFails(t) \/ DownloadsReturn(t)
  BY <1>1, <1>4, <1>5, <1>15
     DEF DownloadFails, DownloadsReturn, Alone, Connecting, torVars, Goes, Using
<1>16. CASE Posted(t) \/ PostFails(t)
  BY <1>1, <1>2, <1>3, <1>5, <1>16
     DEF Posted, PostFails, Alone, Connecting, torVars, Goes, Using
<1>17. ASSUME NEW s \in Speeds, Downloaded(t, s) PROVE UsingEffect(t)
  <2>1. KeepsCall(t)
    BY <1>1, <1>17 DEF Downloaded, KeepsCall, CallRecords
  <2> QED
    BY <1>1, <1>5, <1>17, <2>1 DEF Downloaded, Alone, torVars, Goes, Using
<1> QED
  BY <1>7, <1>8, <1>9, <1>10, <1>11, <1>12, <1>13, <1>14, <1>15, <1>16, <1>17
     DEF UsingStep

\* What a step that returns does to it.
ReturnEffect(t) ==
  /\ pc'[t] = "idle" /\ stream'[t] = NoCircuit /\ t \notin pending'
  /\ call'[t].relay = call[t].relay /\ call'[t].retried = call[t].retried
  /\ call'[t].mine = call[t].mine \cap open'
  /\ call'[t].asked = 0 /\ call'[t].amount = InitialRead
  /\ UNCHANGED <<endEvent, consensus, range, lock, listeners, built, launched>>

\* The returns that leave the circuit as it is: those before there is one, and
\* the exceptions.
LEMMA ReturnEffects ==
  ASSUME CallTypes, NEW t \in Threads, ReturnStep(t)
  PROVE  /\ ReturnEffect(t)
         /\ UNCHANGED <<streamEvent, open>>
         /\ pc[t] \in Before \/ call'[t].outcome = "raised"
         /\ call'[t] \in CallRecords
<1>1. call \in [Threads -> CallRecords] /\ pc \in [Threads -> Pcs] /\ call[t] \in CallRecords
  BY DEF CallTypes
<1>2. InitialRead \in MinDl..MaxDl
  BY SizesAssumption
<1>3. ASSUME NEW type \in OutcomeTypes, Returns(t, type), pc' = [pc EXCEPT ![t] = "idle"]
      PROVE  /\ ReturnEffect(t)
             /\ UNCHANGED <<streamEvent, open>>
             /\ call'[t].outcome = type
             /\ call'[t] \in CallRecords
  <2>1. UNCHANGED <<endEvent, consensus, streamEvent, range, lock, listeners, open,
                    built, launched>>
    BY <1>3 DEF Returns, Connecting
  <2>2. t \notin pending' /\ stream'[t] = NoCircuit
    BY <1>3 DEF Returns, Disconnects, CallTypes
  <2>3. call'[t] = [relay |-> call[t].relay, asEntry |-> FALSE, path |-> << >>,
                    circ |-> IF type = "raised" THEN call[t].circ ELSE NoCircuit,
                    count |-> 0, amount |-> InitialRead, asked |-> 0, failed |-> FALSE,
                    outcome |-> type, mine |-> call[t].mine \cap open',
                    retried |-> call[t].retried, reopened |-> FALSE, refreshed |-> FALSE]
    BY <1>1, <1>3 DEF Returns, Outcome, NewCall
  <2>4. call'[t] \in CallRecords
    BY <1>1, <1>2, <2>3 DEF CallRecords
  <2>5. pc'[t] = "idle"
    BY <1>1, <1>3
  <2> QED
    BY <2>1, <2>2, <2>3, <2>4, <2>5 DEF ReturnEffect
<1>4. CASE NoSession(t)
  BY <1>1, <1>3, <1>4 DEF NoSession, Goes, Before, OutcomeTypes
<1>5. CASE NoDestination(t)
  BY <1>1, <1>3, <1>5 DEF NoDestination, Goes, Before, OutcomeTypes
<1>6. CASE NoHelper(t)
  BY <1>1, <1>3, <1>6 DEF NoHelper, Goes, Before, OutcomeTypes
<1>7. CASE ErrorNoCircuit(t)
  BY <1>1, <1>3, <1>7 DEF ErrorNoCircuit, Goes, Before, OutcomeTypes
<1>8. CASE RelayUpdateXoffRaises(t)
  BY <1>1, <1>3, <1>8 DEF RelayUpdateXoffRaises, Goes, OutcomeTypes
<1> QED
  BY <1>4, <1>5, <1>6, <1>7, <1>8 DEF ReturnStep

\* The returns that close the circuit of the call, with the streams on it.
LEMMA CloseEffects ==
  ASSUME CallTypes, NEW t \in Threads, CloseStep(t)
  PROVE  /\ ReturnEffect(t)
         /\ open' = open \ {call[t].circ}
         /\ pc[t] \in {"unusable", "xoff"}
         /\ call'[t] \in CallRecords
         /\ stream' = [u \in Threads |->
                         IF u = t \/ stream[u] \notin open' THEN NoCircuit ELSE stream[u]]
         /\ DOMAIN streamEvent' \subseteq DOMAIN streamEvent
         /\ \A c \in DOMAIN streamEvent' : streamEvent'[c] = streamEvent[c]
<1>1. call \in [Threads -> CallRecords] /\ pc \in [Threads -> Pcs] /\ call[t] \in CallRecords
  BY DEF CallTypes
<1>2. InitialRead \in MinDl..MaxDl
  BY SizesAssumption
<1>3. ASSUME NEW type \in OutcomeTypes \ {"raised"}, ReturnsClosing(t), Outcome(t, type),
             pc' = [pc EXCEPT ![t] = "idle"]
      PROVE  /\ ReturnEffect(t)
             /\ open' = open \ {call[t].circ}
             /\ call'[t] \in CallRecords
             /\ stream' = [u \in Threads |->
                             IF u = t \/ stream[u] \notin open' THEN NoCircuit ELSE stream[u]]
  <2>1. /\ UNCHANGED <<endEvent, consensus, range, lock, listeners, built, launched>>
        /\ open' = open \ {call[t].circ} /\ t \notin pending'
        /\ stream' = [u \in Threads |->
                        IF u = t \/ stream[u] \notin open' THEN NoCircuit ELSE stream[u]]
    BY <1>3 DEF ReturnsClosing, CloseCircuit
  <2>2. stream'[t] = NoCircuit
    BY <2>1
  <2>3. call'[t] = [relay |-> call[t].relay, asEntry |-> FALSE, path |-> << >>,
                    circ |-> NoCircuit,
                    count |-> 0, amount |-> InitialRead, asked |-> 0, failed |-> FALSE,
                    outcome |-> type, mine |-> call[t].mine \cap open',
                    retried |-> call[t].retried, reopened |-> FALSE, refreshed |-> FALSE]
    BY <1>1, <1>3 DEF Outcome, NewCall
  <2>4. call'[t] \in CallRecords
    BY <1>1, <1>2, <2>3 DEF CallRecords
  <2>5. pc'[t] = "idle"
    BY <1>1, <1>3
  <2> QED
    BY <2>1, <2>2, <2>3, <2>4, <2>5 DEF ReturnEffect
<1>4. CASE Unusable(t)
  BY <1>1, <1>3, <1>4 DEF Unusable, Goes, OutcomeTypes
<1>5. CASE RelayUpdateXoff(t)
  <2>1. /\ pc[t] = "xoff" /\ pc' = [pc EXCEPT ![t] = "idle"]
        /\ ReturnsClosing(t)
        /\ Outcome(t, IF call[t].failed THEN "error-stream" ELSE "success")
        /\ streamEvent' = [d \in DOMAIN streamEvent \ {call[t].circ} |-> streamEvent[d]]
    BY <1>5 DEF RelayUpdateXoff, Goes
  <2>2. (IF call[t].failed THEN "error-stream" ELSE "success") \in OutcomeTypes \ {"raised"}
    BY DEF OutcomeTypes
  <2> QED
    BY <1>3, <2>1, <2>2
<1> QED
  BY <1>4, <1>5 DEF CloseStep

\* The steps before a circuit.
LEMMA ChooseRoleEffects ==
  ASSUME CallTypes, NEW t \in Threads, ChooseRole(t)
  PROVE  /\ pc[t] = "session" /\ pc'[t] = "path"
         /\ call'[t] = [call[t] EXCEPT !.asEntry = UseRelayAsEntry(call[t].relay)]
         /\ Alone
BY DEF ChooseRole, Goes, Sets, CallTypes

\* The path is of the relay and a helper among the candidates.
LEMMA CreatePathEffects ==
  ASSUME CallTypes, NEW t \in Threads, CreatePath(t)
  PROVE  /\ pc[t] = "path" /\ pc'[t] = "build" /\ Alone
         /\ \E helper \in Candidates(t) :
              call'[t] = [call[t] EXCEPT !.path = PathWith(call[t].relay, call[t].asEntry, helper)]
<1>1. /\ pc[t] = "path" /\ pc'[t] = "build" /\ Alone
  BY DEF CreatePath, Goes, CallTypes
<1>2. PICK helper \in IdealSecondHops(call[t].relay, call[t].asEntry, Candidates(t)) :
        Sets(t, "path", PathWith(call[t].relay, call[t].asEntry, helper))
  BY DEF CreatePath
<1>3. helper \in Candidates(t)
  BY <1>2 DEF IdealSecondHops, OnlyRelaysWithBandwidth
<1>4. call'[t] = [call[t] EXCEPT !.path = PathWith(call[t].relay, call[t].asEntry, helper)]
  BY <1>2 DEF Sets, CallTypes
<1> QED
  BY <1>1, <1>3, <1>4

\* A circuit that is built is new, and is the one of the call from then on.
LEMMA BuildCircuitEffects ==
  ASSUME CallTypes, NEW t \in Threads, BuildCircuit(t)
  PROVE  /\ pc[t] = "build" /\ pc'[t] \in {"upload", "connect"}
         /\ built' = [built EXCEPT ![t] = @ + 1]
         /\ open' = open \cup {<<t, built[t] + 1>>}
         /\ call'[t] = [call[t] EXCEPT !.circ = <<t, built[t] + 1>>,
                                       !.mine = @ \cup {<<t, built[t] + 1>>},
                                       !.refreshed = FALSE]
         /\ UNCHANGED <<endEvent, consensus, streamEvent, range, lock, listeners, pending,
                        stream, launched>>
<1>1. pc \in [Threads -> Pcs] /\ call \in [Threads -> CallRecords] /\ built \in [Threads -> Nat]
  BY DEF CallTypes
<1>2. built' = [built EXCEPT ![t] = @ + 1] /\ built'[t] = built[t] + 1
  BY <1>1 DEF BuildCircuit
<1> QED
  BY <1>1, <1>2 DEF BuildCircuit, Goes

\* A call starts with nothing left of the one before.
LEMMA StartEffects ==
  ASSUME CallTypes, NEW t \in Threads, Starts(t)
  PROVE  /\ pc[t] = "idle" /\ pc'[t] = "session"
         /\ launched < MaxMeasurements /\ launched' = launched + 1
         /\ \E r \in Prioritized : call'[t] = NewCall(r)
         /\ UNCHANGED <<endEvent, consensus, streamEvent, range, lock, torVars>>
BY DEF Starts, Start, Goes, CallTypes

-----------------------------------------------------------------------------
(***************************************************************************)
(* Types, and what is asked of the server.                                 *)
(***************************************************************************)

\* Max and Min are defined with CHOOSE: what they are of two numbers.
LEMMA MaxOfTwo ==
  ASSUME NEW a \in Nat, NEW b \in Nat
  PROVE  Max({a, b}) \in {a, b} /\ Max({a, b}) >= a /\ Max({a, b}) >= b
<1>1. \E x \in {a, b} : \A y \in {a, b} : x >= y
  <2>1. CASE a >= b
    BY <2>1
  <2>2. CASE ~(a >= b)
    BY <2>2
  <2> QED
    BY <2>1, <2>2
<1> QED
  BY <1>1 DEF Max

\* The same of Min.
LEMMA MinOfTwo ==
  ASSUME NEW a \in Nat, NEW b \in Nat
  PROVE  Min({a, b}) \in {a, b} /\ Min({a, b}) <= a /\ Min({a, b}) <= b
<1>1. \E x \in {a, b} : \A y \in {a, b} : x <= y
  <2>1. CASE a <= b
    BY <2>1
  <2>2. CASE ~(a <= b)
    BY <2>2
  <2> QED
    BY <2>1, <2>2
<1> QED
  BY <1>1 DEF Min

\* _next_expected_amount never leaves min_download_size..max_download_size.
LEMMA NextExpectedAmountInRange ==
  ASSUME NEW amount \in MinDl..MaxDl, NEW b \in MinDl..MaxDl, NEW s \in Speeds
  PROVE  NextExpectedAmount(amount, b, s) \in MinDl..MaxDl
<1>1. /\ MinDl \in Nat \ {0} /\ MaxDl \in Nat /\ s \in Nat \ {0} /\ DlTarget \in Nat
      /\ amount \in Nat /\ b \in Nat \ {0} /\ MinDl <= MaxDl
  BY SizesAssumption, TimesAssumption
<1>2. (amount * DlTarget * s) \in Nat
  BY <1>1
<1>3. ASSUME NEW x \in Nat PROVE x \div b \in Nat
  BY <1>1
<1> DEFINE aim == IF TakesLess(b, s, TooFast) THEN 5 * amount
                  ELSE IF TakesLess(b, s, DlMin) \/ ~TakesLess(b, s, DlMax)
                  THEN (amount * DlTarget * s) \div b
                  ELSE amount
<1>4. aim \in Nat
  <2>1. 5 * amount \in Nat /\ (amount * DlTarget * s) \div b \in Nat /\ amount \in Nat
    BY <1>1, <1>2, <1>3
  <2> QED
    BY <2>1
<1> HIDE DEF aim
<1>5. Max({MinDl, aim}) \in Nat /\ Max({MinDl, aim}) >= MinDl
  BY <1>1, <1>4, MaxOfTwo
<1> DEFINE low == Max({MinDl, aim})
<1> HIDE DEF low
<1>6. low \in Nat /\ low >= MinDl
  BY <1>5 DEF low
<1>7. Min({MaxDl, low}) \in MinDl..MaxDl
  BY <1>1, <1>6, MinOfTwo
<1> QED
  BY <1>7 DEF NextExpectedAmount, aim, low

\* What the types of the shared variables and of the other threads need of a
\* step of t.
TypedStep(t) ==
  /\ pc' \in [Threads -> Pcs] /\ call' \in [Threads -> CallRecords]
  /\ pending' \subseteq Threads /\ stream' \in [Threads -> {NoCircuit} \cup Circuits]
  /\ range' \in {0} \cup MinDl..MaxDl /\ (range' = range \/ range' \in MinDl..MaxDl)
  /\ pc'[t] = "request" => range' \in MinDl..MaxDl
  /\ call'[t].asked \in IF pc'[t] = "get" THEN MinDl..MaxDl ELSE {0}

\* The steps with a circuit keep the types.
LEMMA UsingTyped ==
  ASSUME CallTypes, AskedInv, NEW t \in Threads, UsingStep(t)
  PROVE  TypedStep(t)
<1>1. /\ call \in [Threads -> CallRecords] /\ pc \in [Threads -> Pcs] /\ call[t] \in CallRecords
      /\ pending \subseteq Threads /\ stream \in [Threads -> {NoCircuit} \cup Circuits]
      /\ range \in {0} \cup MinDl..MaxDl
      /\ pc[t] = "request" => range \in MinDl..MaxDl
      /\ call[t].asked \in IF pc[t] = "get" THEN MinDl..MaxDl ELSE {0}
      /\ call[t].count \in Nat /\ call[t].amount \in MinDl..MaxDl
      /\ call[t].asked \in {0} \cup MinDl..MaxDl
  <2>1. call \in [Threads -> CallRecords] /\ call[t] \in CallRecords
    BY DEF CallTypes
  <2>2. /\ call[t].count \in Nat /\ call[t].amount \in MinDl..MaxDl
        /\ call[t].asked \in {0} \cup MinDl..MaxDl
    BY <2>1 DEF CallRecords
  <2> QED
    BY <2>1, <2>2 DEF CallTypes, AskedInv
<1>2. MinDl \in MinDl..MaxDl /\ InitialRead \in MinDl..MaxDl
  BY SizesAssumption
<1> DEFINE Keeps == call' \in [Threads -> CallRecords] /\ call'[t].asked = call[t].asked
           Connected == /\ pending' \subseteq Threads
                        /\ stream' \in [Threads -> {NoCircuit} \cup Circuits]
<1>3. ASSUME UNCHANGED call PROVE Keeps
  BY <1>1, <1>3
<1>4. ASSUME NEW v \in Nat, Sets(t, "count", v) PROVE Keeps
  BY <1>1, <1>4 DEF Sets, CallRecords
<1>5. ASSUME NEW v \in BOOLEAN, Sets(t, "failed", v) \/ Sets(t, "reopened", v) PROVE Keeps
  <2>1. CASE Sets(t, "failed", v)
    BY <1>1, <2>1 DEF Sets, CallRecords
  <2>2. CASE Sets(t, "reopened", v)
    BY <1>1, <2>2 DEF Sets, CallRecords
  <2> QED
    BY <1>5, <2>1, <2>2
<1>6. ASSUME NEW from, NotUsable(t, from)
      PROVE  Keeps /\ pc' \in [Threads -> Pcs] /\ pc[t] = from /\ pc'[t] \in {"path", "unusable"}
  <2>1. CASE UNCHANGED call /\ Goes(t, from, "unusable")
    BY <1>1, <2>1 DEF Goes, Pcs
  <2>2. CASE /\ call' = [call EXCEPT ![t].asEntry = TRUE, ![t].retried = TRUE]
             /\ Goes(t, from, "path")
    <3>1. call'[t] = [call[t] EXCEPT !.asEntry = TRUE, !.retried = TRUE]
      BY <1>1, <2>2
    <3>2. call'[t] \in CallRecords /\ call'[t].asked = call[t].asked
      BY <1>1, <3>1 DEF CallRecords
    <3>3. call' \in [Threads -> CallRecords]
      BY <1>1, <2>2, <3>2
    <3> QED
      BY <1>1, <2>2, <3>2, <3>3 DEF Goes, Pcs
  <2> QED
    BY <1>6, <2>1, <2>2 DEF NotUsable
<1>7. ASSUME NEW none \in BOOLEAN, DownloadsEnd(t, none)
      PROVE  call' \in [Threads -> CallRecords] /\ call'[t].asked = 0
  <2>1. call'[t] = [call[t] EXCEPT !.failed = none, !.count = 0, !.asked = 0,
                                   !.amount = InitialRead]
    BY <1>1, <1>7 DEF DownloadsEnd
  <2>2. call'[t] \in CallRecords
    BY <1>1, <1>2, <2>1, 0 \in Nat DEF CallRecords
  <2>3. call'[t].asked = 0
    BY <1>1, <2>1 DEF CallRecords
  <2> QED
    BY <1>1, <1>7, <2>2, <2>3 DEF DownloadsEnd
<1>8. ASSUME UNCHANGED <<pending, stream>> PROVE Connected
  BY <1>1, <1>8
<1>9. ASSUME Disconnects(t) PROVE Connected
  BY <1>1, <1>9 DEF Disconnects
<1>10. ASSUME OpenStream(t), UNCHANGED stream PROVE Connected
  BY <1>1, <1>10 DEF OpenStream
<1>11. ASSUME Keeps, Connected, pc' \in [Threads -> Pcs], pc[t] # "get", pc'[t] # "get",
              range' \in MinDl..MaxDl \/ (UNCHANGED range /\ pc'[t] # "request")
       PROVE  TypedStep(t)
  BY <1>1, <1>11 DEF TypedStep
<1> HIDE DEF Keeps, Connected
<1>12. CASE ShuttingDown(t)
  BY <1>6, <1>8, <1>11, <1>12 DEF ShuttingDown, Alone, torVars
<1>13. CASE SendHead(t)
  BY <1>1, <1>3, <1>10, <1>11, <1>13 DEF SendHead, Goes, Pcs
<1>14. CASE HeadFails(t)
  <2>1. UNCHANGED range /\ Connected
    BY <1>9, <1>14 DEF HeadFails
  <2>2. CASE NotUsable(t, "head")
    BY <1>6, <1>11, <2>1, <2>2
  <2>3. CASE Goes(t, "uphead", "xoff") /\ Sets(t, "failed", TRUE)
    BY <1>1, <1>5, <1>11, <2>1, <2>3 DEF Goes, Pcs
  <2> QED
    BY <1>14, <2>2, <2>3 DEF HeadFails
<1>15. CASE HeadAnswered(t)
  <2>1. UNCHANGED range /\ Connected
    BY <1>8, <1>15 DEF HeadAnswered
  <2>2. CASE NotUsable(t, "head")
    BY <1>6, <1>11, <2>1, <2>2
  <2>3. CASE (Goes(t, "head", "rtt") \/ Goes(t, "uphead", "post")) /\ UNCHANGED call
    BY <1>1, <1>3, <1>11, <2>1, <2>3 DEF Goes, Pcs
  <2> QED
    BY <1>15, <2>2, <2>3 DEF HeadAnswered
<1>16. CASE Reconnect(t)
  <2>1. Connected /\ UNCHANGED <<pc, range>>
    BY <1>10, <1>16 DEF Reconnect, Connecting
  <2>2. Keeps
    BY <1>5, <1>16 DEF Reconnect
  <2> QED
    BY <1>1, <1>16, <2>1, <2>2
       DEF TypedStep, Keeps, Connected, Reconnect, Transferring
<1>17. CASE RttRequest(t)
  BY <1>1, <1>2, <1>3, <1>8, <1>11, <1>17 DEF RttRequest, SetRange, torVars, Goes, Pcs
<1>18. CASE RttMeasured(t) \/ RttsReturn(t)
  <2>1. Connected /\ UNCHANGED range
    BY <1>8, <1>18 DEF RttMeasured, RttsReturn, Alone, torVars
  <2>2. call[t].count + 1 \in Nat /\ 0 \in Nat
    BY <1>1
  <2>3. Keeps
    BY <1>4, <1>18, <2>2 DEF RttMeasured, RttsReturn
  <2> QED
    BY <1>1, <1>11, <1>18, <2>1, <2>3 DEF RttMeasured, RttsReturn, Goes, Pcs
<1>19. CASE RttFails(t)
  BY <1>1, <1>4, <1>9, <1>11, <1>19 DEF RttFails, Connecting, Goes, Pcs
<1>20. CASE DownloadRequest(t)
  BY <1>1, <1>3, <1>8, <1>11, <1>20 DEF DownloadRequest, SetRange, torVars, Goes, Pcs
<1>21. CASE RequestSent(t)
  <2>1. range \in MinDl..MaxDl /\ UNCHANGED range /\ Connected
    BY <1>1, <1>8, <1>21 DEF RequestSent, Goes, Alone, torVars
  <2>2. call' \in [Threads -> CallRecords] /\ call'[t].asked = range
    BY <1>1, <1>21, <2>1 DEF RequestSent, Sets, CallRecords
  <2> QED
    BY <1>1, <1>21, <2>1, <2>2 DEF RequestSent, Goes, Pcs, TypedStep, Connected
<1>22. ASSUME NEW s \in Speeds, Downloaded(t, s) PROVE TypedStep(t)
  <2>1. UNCHANGED range /\ Connected
    BY <1>8, <1>22 DEF Downloaded, Alone, torVars
  <2>2. pc[t] = "get" /\ pc'[t] = "download" /\ pc' \in [Threads -> Pcs]
    BY <1>1, <1>22 DEF Downloaded, Goes, Pcs
  <2>3. call[t].asked \in MinDl..MaxDl
    BY <1>1, <2>2
  <2> DEFINE next == NextExpectedAmount(call[t].amount, call[t].asked, s)
             keep == ShouldKeepResult(call[t].amount, call[t].asked, s)
  <2>4. next \in MinDl..MaxDl
    BY <1>1, <2>3, NextExpectedAmountInRange
  <2>5. call' = [call EXCEPT ![t].amount = next,
                             ![t].count = IF keep THEN @ + 1 ELSE @, ![t].asked = 0]
    BY <1>22 DEF Downloaded
  <2> HIDE DEF next, keep
  <2>6. call'[t] = [call[t] EXCEPT !.amount = next,
                                   !.count = IF keep THEN @ + 1 ELSE @, !.asked = 0]
    BY <1>1, <2>5
  <2>7. (IF keep THEN call[t].count + 1 ELSE call[t].count) \in Nat
    BY <1>1
  <2>8. call'[t] \in CallRecords /\ call'[t].asked = 0
    BY <1>1, <2>4, <2>6, <2>7 DEF CallRecords
  <2>9. call' \in [Threads -> CallRecords]
    BY <1>1, <2>5, <2>8
  <2> QED
    BY <1>1, <2>1, <2>2, <2>8, <2>9 DEF TypedStep, Connected
<1>23. CASE DownloadFails(t) \/ DownloadsReturn(t)
  <2>1. UNCHANGED range /\ Connected
    BY <1>8, <1>9, <1>23 DEF DownloadFails, DownloadsReturn, Alone, Connecting, torVars
  <2>2. call' \in [Threads -> CallRecords] /\ call'[t].asked = 0
    BY <1>7, <1>23 DEF DownloadFails, DownloadsReturn
  <2>3. pc'[t] = "xoff" /\ pc' \in [Threads -> Pcs]
    BY <1>1, <1>23 DEF DownloadFails, DownloadsReturn, Goes, Pcs
  <2> QED
    BY <1>1, <2>1, <2>2, <2>3 DEF TypedStep, Connected
<1>24. CASE Posted(t) \/ PostFails(t)
  <2>1. UNCHANGED range /\ Connected
    BY <1>8, <1>9, <1>24 DEF Posted, PostFails, Alone, Connecting, torVars
  <2>2. Keeps
    BY <1>3, <1>5, <1>24 DEF Posted, PostFails
  <2> QED
    BY <1>1, <1>11, <1>24, <2>1, <2>2 DEF Posted, PostFails, Goes, Pcs
<1> QED
  BY <1>12, <1>13, <1>14, <1>15, <1>16, <1>17, <1>18, <1>19, <1>20, <1>21, <1>22, <1>23,
     <1>24 DEF UsingStep

\* The relay of a helper is one of those there may be.
LEMMA CandidatesAreRelays ==
  ASSUME consensus \in Consensuses, NEW r, NEW entry
  PROVE  SelectHelperCandidates(r, entry) \subseteq Relays
<1>1. consensus.relays \subseteq Relays
  BY ConsensusesAssumption
<1> QED
  BY <1>1 DEF SelectHelperCandidates, ExitsWith2InFlowctrl, ExitsWithout2InFlowctrl, Allowing, Exits

\* A call builds no more circuits than there are names for.
LEMMA NewCircuit ==
  ASSUME CallTypes, NEW t \in Threads, BuiltInv(t), BuildCircuit(t)
  PROVE  <<t, built[t] + 1>> \in Circuits
<1>1. /\ built[t] \in Nat /\ launched \in Nat /\ launched <= MaxMeasurements
      /\ MaxMeasurements \in Nat
  BY CountsAssumption DEF CallTypes
<1>2. pc[t] = "build"
  BY BuildCircuitEffects
<1>3. Left(t) = (IF call[t].retried THEN 0 ELSE 1) + 1
  BY <1>2 DEF Left, Before
<1>4. Left(t) \in Nat /\ Left(t) >= 1
  BY <1>3
<1>5. built[t] + Left(t) <= 2 * launched
  BY DEF BuiltInv
<1>6. built[t] + 1 \in 1..2 * MaxMeasurements
  BY <1>1, <1>4, <1>5
<1>7. <<t, built[t] + 1>> \in Circuits
  BY <1>6 DEF Circuits
<1> QED
  BY <1>7

\* So do the steps before the circuit, and a new call.
LEMMA BeforeTyped ==
  ASSUME CallTypes, AskedInv, NEW t \in Threads, BuiltInv(t),
         Starts(t) \/ ChooseRole(t) \/ CreatePath(t) \/ BuildCircuit(t)
  PROVE  TypedStep(t)
<1>1. /\ call \in [Threads -> CallRecords] /\ pc \in [Threads -> Pcs] /\ call[t] \in CallRecords
      /\ pending \subseteq Threads /\ stream \in [Threads -> {NoCircuit} \cup Circuits]
      /\ range \in {0} \cup MinDl..MaxDl
      /\ call[t].asked \in IF pc[t] = "get" THEN MinDl..MaxDl ELSE {0}
  BY DEF CallTypes, AskedInv
<1>2. UNCHANGED <<range, pending, stream>>
  BY DEF Starts, Start, ChooseRole, CreatePath, BuildCircuit, Alone, torVars
<1>3. /\ pc' \in [Threads -> Pcs] /\ pc[t] # "get"
      /\ pc'[t] \in {"session", "path", "build", "upload", "connect"}
  BY <1>1 DEF Starts, Start, ChooseRole, CreatePath, BuildCircuit, Goes, Pcs
<1>4. CASE Starts(t)
  <2>1. PICK r \in Prioritized : call' = [call EXCEPT ![t] = NewCall(r)]
    BY <1>4 DEF Starts, Start
  <2>2. NewCall(r) \in CallRecords /\ NewCall(r).asked = 0
    <3>1. r \in AnyRelay
      BY RelaysAssumption DEF AnyRelay
    <3>2. InitialRead \in MinDl..MaxDl
      BY SizesAssumption
    <3>3. "nothing" \in OutcomeTypes
      BY DEF OutcomeTypes
    <3>4. << >> \in Seq(AnyRelay)
      OBVIOUS
    <3> QED
      BY <3>1, <3>2, <3>3, <3>4 DEF NewCall, CallRecords
  <2> QED
    BY <1>1, <1>2, <1>3, <2>1, <2>2 DEF TypedStep
<1>5. CASE ChooseRole(t)
  <2>1. UseRelayAsEntry(call[t].relay) \in BOOLEAN
    BY DEF UseRelayAsEntry
  <2>2. call'[t] = [call[t] EXCEPT !.asEntry = UseRelayAsEntry(call[t].relay)]
    BY <1>5, ChooseRoleEffects
  <2>3. call'[t] \in CallRecords /\ call'[t].asked = call[t].asked
    BY <1>1, <2>1, <2>2 DEF CallRecords
  <2>4. call' \in [Threads -> CallRecords]
    BY <1>1, <1>5, <2>1 DEF ChooseRole, Sets, CallRecords
  <2> QED
    BY <1>1, <1>2, <1>3, <2>3, <2>4 DEF TypedStep
<1>6. CASE CreatePath(t)
  <2>1. PICK helper \in IdealSecondHops(call[t].relay, call[t].asEntry, Candidates(t)) :
          Sets(t, "path", PathWith(call[t].relay, call[t].asEntry, helper))
    BY <1>6 DEF CreatePath
  <2>2. helper \in Relays
    BY <2>1, CandidatesAreRelays DEF IdealSecondHops, OnlyRelaysWithBandwidth, Candidates, CallTypes
  <2> DEFINE path == PathWith(call[t].relay, call[t].asEntry, helper)
  <2>3. path \in Seq(AnyRelay)
    <3>1. call[t].relay \in AnyRelay /\ helper \in AnyRelay
      BY <1>1, <2>2 DEF CallRecords, AnyRelay
    <3> QED
      BY <3>1 DEF PathWith
  <2> HIDE DEF path
  <2>4. Sets(t, "path", path)
    BY <2>1 DEF path
  <2>5. call' \in [Threads -> CallRecords] /\ call'[t].asked = call[t].asked
    BY <1>1, <2>3, <2>4 DEF Sets, CallRecords
  <2> QED
    BY <1>1, <1>2, <1>3, <2>5 DEF TypedStep
<1>7. CASE BuildCircuit(t)
  <2>7. <<t, built[t] + 1>> \in Circuits
    BY <1>7, NewCircuit
  <2>8. call'[t] = [call[t] EXCEPT !.circ = <<t, built[t] + 1>>,
                                   !.mine = @ \cup {<<t, built[t] + 1>>},
                                   !.refreshed = FALSE]
    BY <1>7, BuildCircuitEffects
  <2> DEFINE c == <<t, built[t] + 1>>
  <2> HIDE DEF c
  <2>9. c \in Circuits /\ call'[t] = [call[t] EXCEPT !.circ = c, !.mine = @ \cup {c},
                                                     !.refreshed = FALSE]
    BY <2>7, <2>8 DEF c
  <2>10. call'[t] \in CallRecords /\ call'[t].asked = call[t].asked
    <3>1. call[t].mine \cup {c} \in SUBSET Circuits
      BY <1>1, <2>9 DEF CallRecords
    <3>2. call'[t] = [[[call[t] EXCEPT !.circ = c] EXCEPT !.mine = call[t].mine \cup {c}]
                       EXCEPT !.refreshed = FALSE]
      BY <1>1, <2>9 DEF CallRecords
    <3> QED
      BY <1>1, <2>9, <3>1, <3>2 DEF CallRecords
  <2>11. call' = [u \in Threads |-> call'[u]]
    <3>1. call' = [call EXCEPT ![t].circ = <<t, built'[t]>>,
                               ![t].mine = @ \cup {<<t, built'[t]>>}, ![t].refreshed = FALSE]
      BY <1>7 DEF BuildCircuit
    <3> QED
      BY <1>1, <3>1, Zenon
  <2>12. \A u \in Threads \ {t} : call'[u] = call[u]
    BY <1>1, <1>7 DEF BuildCircuit
  <2>13. \A u \in Threads : call'[u] \in CallRecords
    BY <1>1, <2>10, <2>12
  <2>14. call' \in [Threads -> CallRecords]
    BY <2>11, <2>13
  <2> QED
    BY <1>1, <1>2, <1>3, <2>10, <2>14 DEF TypedStep
<1> QED
  BY <1>4, <1>5, <1>6, <1>7

\* And those that return.
LEMMA ReturnTyped ==
  ASSUME CallTypes, AskedInv, NEW t \in Threads, ReturnStep(t) \/ CloseStep(t)
  PROVE  TypedStep(t)
<1>1. /\ call \in [Threads -> CallRecords] /\ pc \in [Threads -> Pcs]
      /\ pending \subseteq Threads /\ stream \in [Threads -> {NoCircuit} \cup Circuits]
      /\ range \in {0} \cup MinDl..MaxDl
  BY DEF CallTypes, AskedInv
<1>2. ReturnEffect(t) /\ call'[t] \in CallRecords
  BY ReturnEffects, CloseEffects
<1>3. pc' \in [Threads -> Pcs]
  BY <1>1 DEF ReturnStep, NoSession, NoDestination, NoHelper, ErrorNoCircuit,
     RelayUpdateXoffRaises, CloseStep, Unusable, RelayUpdateXoff, Goes, Pcs
<1>4. \E v : call' = [call EXCEPT ![t] = v]
  BY DEF ReturnStep, NoSession, NoDestination, NoHelper, ErrorNoCircuit,
     RelayUpdateXoffRaises, Returns, CloseStep, Unusable, RelayUpdateXoff, Outcome
<1>5. call' \in [Threads -> CallRecords]
  BY <1>1, <1>2, <1>4
<1>6. pending' \subseteq Threads /\ stream' \in [Threads -> {NoCircuit} \cup Circuits]
  <2>1. CASE ReturnStep(t)
    BY <1>1, <2>1 DEF ReturnStep, NoSession, NoDestination, NoHelper, ErrorNoCircuit,
       RelayUpdateXoffRaises, Returns, Disconnects
  <2>2. CASE CloseStep(t)
    <3>1. pending' \subseteq Threads
      BY <1>1, <2>2 DEF CloseStep, Unusable, RelayUpdateXoff, ReturnsClosing
    <3>2. stream' = [u \in Threads |->
                       IF u = t \/ stream[u] \notin open' THEN NoCircuit ELSE stream[u]]
      BY <2>2, CloseEffects
    <3> QED
      BY <1>1, <3>1, <3>2
  <2> QED
    BY <2>1, <2>2
<1> QED
  BY <1>1, <1>2, <1>3, <1>5, <1>6 DEF TypedStep, ReturnEffect

\* Any step of a thread keeps the types.
LEMMA ThreadTyped ==
  ASSUME RelayInv, NEW t \in Threads, MeasureRelay(t) \/ Starts(t)
  PROVE  CallTypes' /\ AskedInv'
<1>1. CallTypes /\ AskedInv /\ BuiltInv(t)
  BY DEF RelayInv
<1>2. TypedStep(t)
  BY <1>1, Kinds, UsingTyped, BeforeTyped, ReturnTyped
<1>3. /\ UNCHANGED <<endEvent, consensus>> /\ built' \in [Threads -> Nat]
      /\ launched' \in 0..MaxMeasurements
  <2>1. CASE Starts(t)
    <3>1. launched \in 0..MaxMeasurements /\ MaxMeasurements \in Nat
      BY <1>1, CountsAssumption DEF CallTypes
    <3>2. launched < MaxMeasurements /\ launched' = launched + 1
      BY <1>1, <2>1, StartEffects
    <3>3. launched' \in 0..MaxMeasurements
      BY <3>1, <3>2
    <3> QED
      BY <1>1, <2>1, <3>3, StartEffects DEF torVars, CallTypes
  <2>2. CASE ChooseRole(t) \/ CreatePath(t)
    BY <1>1, <2>2, ChooseRoleEffects, CreatePathEffects DEF Alone, torVars, CallTypes
  <2>3. CASE BuildCircuit(t)
    <3>1. built \in [Threads -> Nat] /\ built' = [built EXCEPT ![t] = @ + 1]
      BY <1>1, <2>3, BuildCircuitEffects DEF CallTypes
    <3>2. built' \in [Threads -> Nat]
      BY <3>1
    <3>3. UNCHANGED <<endEvent, consensus, launched>>
      BY <1>1, <2>3, BuildCircuitEffects
    <3> QED
      BY <1>1, <3>2, <3>3 DEF CallTypes
  <2>4. CASE UsingStep(t)
    BY <1>1, <2>4, UsingEffects DEF UsingEffect, CallTypes
  <2>5. CASE ReturnStep(t) \/ CloseStep(t)
    BY <1>1, <2>5, ReturnEffects, CloseEffects DEF ReturnEffect, CallTypes
  <2> QED
    BY <2>1, <2>2, <2>3, <2>4, <2>5, Kinds
<1>4. CallTypes'
  BY <1>1, <1>2, <1>3 DEF CallTypes, TypedStep
<1>5. \A u \in Threads \ {t} : pc'[u] = pc[u] /\ call'[u] = call[u]
  BY <1>1, OthersFrame
<1>6. ASSUME NEW u \in Threads
      PROVE  /\ pc'[u] = "request" => range' \in MinDl..MaxDl
             /\ call'[u].asked \in IF pc'[u] = "get" THEN MinDl..MaxDl ELSE {0}
  <2>1. CASE u = t
    BY <1>2, <2>1 DEF TypedStep
  <2>2. CASE u # t
    <3>1. pc'[u] = pc[u] /\ call'[u] = call[u]
      BY <1>5, <2>2
    <3> QED
      BY <1>1, <1>2, <3>1 DEF AskedInv, TypedStep
  <2> QED
    BY <2>1, <2>2
<1> QED
  BY <1>2, <1>4, <1>6 DEF AskedInv, TypedStep

-----------------------------------------------------------------------------
(***************************************************************************)
(* The lock, the circuits and the streams.                                 *)
(***************************************************************************)

\* A step outside the lock leaves it, and the listener, alone.
LEMMA LockKept ==
  ASSUME LockInv, NEW t \in Threads, UNCHANGED <<lock, listeners>>,
         pc[t] \notin {"head", "uphead"}, pc'[t] \notin {"head", "uphead"},
         \A u \in Threads \ {t} : pc'[u] = pc[u] /\ call'[u].circ = call[u].circ
  PROVE  LockInv'
<1>1. t \notin lock
  BY DEF LockInv
<1>2. \A u \in lock : ListenerOf(u)' = ListenerOf(u)
  BY <1>1 DEF LockInv, ListenerOf
<1>3. {ListenerOf(u)' : u \in lock'} = {ListenerOf(u) : u \in lock}
  BY <1>2
<1> QED
  BY <1>3 DEF LockInv

\* Nobody but the thread with the lock has a listener.
LEMMA ThreadLock ==
  ASSUME RelayInv, NEW t \in Threads, MeasureRelay(t) \/ Starts(t)
  PROVE  LockInv'
<1>1. CallTypes /\ LockInv /\ pc \in [Threads -> Pcs]
  BY DEF RelayInv, CallTypes
<1>2. \A u \in Threads \ {t} : pc'[u] = pc[u] /\ call'[u] = call[u]
  BY <1>1, OthersFrame
<1>3. ASSUME UNCHANGED <<lock, listeners>>, pc[t] \notin {"head", "uphead"},
             pc'[t] \notin {"head", "uphead"}
      PROVE  LockInv'
  BY <1>1, <1>2, <1>3, LockKept
<1>4. CASE Starts(t)
  BY <1>1, <1>3, <1>4, StartEffects DEF torVars
<1>5. CASE ChooseRole(t) \/ CreatePath(t) \/ BuildCircuit(t)
  BY <1>1, <1>3, <1>5, ChooseRoleEffects, CreatePathEffects, BuildCircuitEffects
     DEF Alone, torVars
<1>6. CASE ReturnStep(t) \/ CloseStep(t)
  <2>1. pc[t] \notin {"head", "uphead"}
    BY <1>6 DEF ReturnStep, NoSession, NoDestination, NoHelper, ErrorNoCircuit,
       RelayUpdateXoffRaises, CloseStep, Unusable, RelayUpdateXoff, Goes
  <2> QED
    BY <1>1, <1>3, <1>6, <2>1, ReturnEffects, CloseEffects DEF ReturnEffect
<1>7. CASE SendHead(t)
  <2>1. lock = {} /\ lock' = {t} /\ listeners' = listeners \cup {ListenerOf(t)} /\ UNCHANGED call
    BY <1>7 DEF SendHead, StreamBuildingLock
  <2>2. \/ pc[t] = "connect" /\ pc'[t] = "head"
        \/ pc[t] = "upload" /\ pc'[t] = "uphead"
    BY <1>1, <1>7 DEF SendHead, Goes
  <2>3. ListenerOf(t)' = ListenerOf(t)
    BY <2>1, <2>2 DEF ListenerOf
  <2>4. listeners = {}
    BY <1>1, <2>1 DEF LockInv
  <2>5. listeners' = {ListenerOf(u)' : u \in lock'}
    BY <2>1, <2>3, <2>4
  <2>6. lock' = {u \in Threads : pc'[u] \in {"head", "uphead"}}
    BY <1>1, <1>2, <2>1, <2>2 DEF LockInv
  <2> QED
    BY <2>1, <2>5, <2>6 DEF LockInv
<1>8. CASE HeadFails(t) \/ HeadAnswered(t)
  <2>1. Unlisten(t)
    BY <1>8 DEF HeadFails, HeadAnswered
  <2>2. pc[t] \in {"head", "uphead"} /\ pc'[t] \notin {"head", "uphead"}
    BY <1>1, <1>8 DEF HeadFails, HeadAnswered, NotUsable, Goes
  <2>3. lock = {t} /\ listeners = {ListenerOf(t)}
    BY <1>1, <2>2 DEF LockInv
  <2>4. lock' = {} /\ listeners' = {}
    BY <2>1, <2>3 DEF Unlisten
  <2>5. lock' = {u \in Threads : pc'[u] \in {"head", "uphead"}}
    BY <1>1, <1>2, <2>2, <2>3, <2>4 DEF LockInv
  <2> QED
    BY <2>4, <2>5 DEF LockInv
<1>9. CASE ShuttingDown(t) \/ Reconnect(t)
  <2>1. UNCHANGED <<lock, listeners>>
    BY <1>9 DEF ShuttingDown, Reconnect, Alone, Connecting, torVars
  <2>2. pc[t] \notin {"head", "uphead"} /\ pc'[t] \notin {"head", "uphead"}
    BY <1>1, <1>9 DEF ShuttingDown, NotUsable, Goes, Reconnect, Transferring
  <2> QED
    BY <1>3, <2>1, <2>2
<1>10. CASE RttRequest(t) \/ RttMeasured(t) \/ RttFails(t) \/ RttsReturn(t)
  <2>1. UNCHANGED <<lock, listeners>>
    BY <1>10 DEF RttRequest, RttMeasured, RttFails, RttsReturn, SetRange, Alone,
       Connecting, torVars
  <2>2. pc[t] \notin {"head", "uphead"} /\ pc'[t] \notin {"head", "uphead"}
    BY <1>1, <1>10 DEF RttRequest, RttMeasured, RttFails, RttsReturn, Goes
  <2> QED
    BY <1>3, <2>1, <2>2
<1>11. CASE \/ DownloadRequest(t) \/ RequestSent(t) \/ \E s \in Speeds : Downloaded(t, s)
            \/ DownloadFails(t) \/ DownloadsReturn(t)
  <2>1. UNCHANGED <<lock, listeners>>
    BY <1>11 DEF DownloadRequest, RequestSent, Downloaded, DownloadFails, DownloadsReturn,
       SetRange, Alone, Connecting, torVars
  <2>2. pc[t] \notin {"head", "uphead"} /\ pc'[t] \notin {"head", "uphead"}
    BY <1>1, <1>11 DEF DownloadRequest, RequestSent, Downloaded, DownloadFails,
       DownloadsReturn, Goes
  <2> QED
    BY <1>3, <2>1, <2>2
<1>12. CASE Posted(t) \/ PostFails(t)
  BY <1>1, <1>3, <1>12 DEF Posted, PostFails, Alone, Connecting, torVars, Goes
<1> QED
  BY <1>4, <1>5, <1>6, <1>7, <1>8, <1>9, <1>10, <1>11, <1>12, Kinds DEF UsingStep

\* Tor keeps only what was built, through any step of a thread.
LEMMA ThreadOpen ==
  ASSUME RelayInv, NEW t \in Threads, MeasureRelay(t) \/ Starts(t)
  PROVE  OpenInv'
<1>1. /\ CallTypes /\ OpenInv
      /\ built \in [Threads -> Nat]
      /\ stream \in [Threads -> {NoCircuit} \cup Circuits]
      /\ CallTypes'
  BY ThreadTyped DEF RelayInv, CallTypes
<1>2. \A u \in Threads \ {t} : stream'[u] = stream[u] \/ stream'[u] = NoCircuit
  BY <1>1, OthersFrame
<1>3. ASSUME UNCHANGED <<open, built, streamEvent>>,
             stream'[t] = stream[t] \/ stream'[t] = NoCircuit
      PROVE  OpenInv'
  <2>1. \A u \in Threads : stream'[u] \in {NoCircuit} \cup open'
    BY <1>1, <1>2, <1>3 DEF OpenInv
  <2> QED
    BY <1>1, <1>3, <2>1 DEF OpenInv
<1>4. CASE Starts(t)
  BY <1>1, <1>3, <1>4, StartEffects DEF torVars
<1>5. CASE ChooseRole(t) \/ CreatePath(t)
  BY <1>1, <1>3, <1>5, ChooseRoleEffects, CreatePathEffects DEF Alone, torVars
<1>6. CASE BuildCircuit(t)
  <2>1. /\ built' = [built EXCEPT ![t] = @ + 1]
        /\ open' = open \cup {<<t, built[t] + 1>>} /\ UNCHANGED <<stream, streamEvent>>
    BY <1>1, <1>6, BuildCircuitEffects
  <2>2. built'[t] = built[t] + 1 /\ built[t] \in Nat
    BY <1>1, <2>1
  <2>4. <<t, built[t] + 1>> \in Circuits
    BY <1>1, <1>6, NewCircuit DEF RelayInv
  <2>5. \A c \in open : c \in Circuits /\ c[1] \in Threads /\ c[2] \in Nat
    BY <1>1, CountsAssumption DEF OpenInv, Circuits
  <2>6. \A c \in open : c[2] <= built'[c[1]]
    <3> SUFFICES ASSUME NEW c \in open PROVE c[2] <= built'[c[1]]
      OBVIOUS
    <3>1. c[2] <= built[c[1]] /\ c[2] \in Nat /\ c[1] \in Threads
      BY <1>1, <2>5 DEF OpenInv
    <3>2. CASE c[1] = t
      <4>1. built'[c[1]] = built[c[1]] + 1 /\ built[c[1]] \in Nat
        BY <2>2, <3>2
      <4> QED
        BY <3>1, <4>1
    <3>3. CASE c[1] # t
      <4>1. built'[c[1]] = built[c[1]]
        BY <1>1, <2>1, <3>1, <3>3
      <4> QED
        BY <3>1, <4>1
    <3> QED
      BY <3>2, <3>3
  <2>7. open' \subseteq {c \in Circuits : c[2] <= built'[c[1]]}
    <3>1. <<t, built[t] + 1>>[2] <= built'[<<t, built[t] + 1>>[1]]
      BY <2>2
    <3> QED
      BY <2>1, <2>4, <2>5, <2>6, <3>1
  <2>8. \A u \in Threads : stream'[u] \in {NoCircuit} \cup open'
    BY <1>1, <2>1 DEF OpenInv
  <2> QED
    BY <1>1, <2>1, <2>7, <2>8 DEF OpenInv
<1>7. CASE UsingStep(t)
  <2>1. UNCHANGED <<open, built, streamEvent>>
    BY <1>1, <1>7, UsingEffects DEF UsingEffect
  <2>2. UNCHANGED stream \/ Disconnects(t)
    BY <1>7 DEF UsingStep, ShuttingDown, SendHead, HeadFails, HeadAnswered, Reconnect,
       RttRequest, RttMeasured, RttFails, RttsReturn, DownloadRequest, RequestSent, Downloaded,
       DownloadFails, DownloadsReturn, Posted, PostFails, SetRange, Alone, Connecting, torVars
  <2>3. stream'[t] = stream[t] \/ stream'[t] = NoCircuit
    BY <1>1, <2>2 DEF Disconnects
  <2> QED
    BY <1>3, <2>1, <2>3
<1>8. CASE ReturnStep(t)
  BY <1>1, <1>3, <1>8, ReturnEffects DEF ReturnEffect
<1>9. CASE CloseStep(t)
  <2>1. /\ open' = open \ {call[t].circ} /\ UNCHANGED built
        /\ stream' = [u \in Threads |->
                        IF u = t \/ stream[u] \notin open' THEN NoCircuit ELSE stream[u]]
        /\ DOMAIN streamEvent' \subseteq DOMAIN streamEvent
        /\ \A c \in DOMAIN streamEvent' : streamEvent'[c] = streamEvent[c]
    BY <1>1, <1>9, CloseEffects DEF ReturnEffect
  <2>2. \A u \in Threads : stream'[u] \in {NoCircuit} \cup open'
    BY <2>1
  <2>3. /\ DOMAIN streamEvent' \subseteq Circuits
        /\ \A c \in DOMAIN streamEvent' : streamEvent'[c] \subseteq {"XOFF"}
    BY <1>1, <2>1 DEF OpenInv
  <2> QED
    BY <1>1, <2>1, <2>2, <2>3 DEF OpenInv
<1> QED
  BY <1>4, <1>5, <1>6, <1>7, <1>8, <1>9, Kinds

\* What the invariants say of a thread stays true when its call does not move
\* and it gets no circuit or stream.
LEMMA CallKept ==
  ASSUME RelayInv, LockInv', NEW u \in Threads,
         pc'[u] = pc[u], built'[u] = built[u], launched' \in Nat, launched <= launched',
         call'[u].circ = call[u].circ, call'[u].mine = call[u].mine,
         call'[u].asEntry = call[u].asEntry, call'[u].outcome = call[u].outcome,
         call'[u].retried = call[u].retried, call'[u].reopened = call[u].reopened,
         call[u].mine \cap open' \subseteq open, u \in pending' => u \in pending,
         stream'[u] = stream[u] \/ stream'[u] = NoCircuit
  PROVE  BuiltInv(u)' /\ MineInv(u)' /\ StreamInv(u)'
<1>1. BuiltInv(u) /\ MineInv(u) /\ StreamInv(u) /\ LockInv
  BY DEF RelayInv
<1>2. BuiltInv(u)'
  <2>1. launched \in Nat /\ built[u] \in Nat
    BY CountsAssumption DEF RelayInv, CallTypes
  <2>2. Left(u)' = Left(u) /\ Left(u) \in Nat
    BY DEF Left
  <2>3. built[u] + Left(u) <= 2 * launched
    BY <1>1 DEF BuiltInv
  <2>4. built[u] + Left(u) <= 2 * launched'
    BY <2>1, <2>2, <2>3
  <2>5. built'[u] + Left(u)' <= 2 * launched'
    BY <2>2, <2>4
  <2> QED
    BY <1>1, <2>5 DEF BuiltInv
<1>3. MineInv(u)'
  BY <1>1 DEF MineInv
<1>4. StreamInv(u)'
  <2>1. u \in lock' <=> u \in lock
    BY <1>1 DEF LockInv
  <2> QED
    BY <1>1, <2>1 DEF StreamInv
<1> QED
  BY <1>2, <1>3, <1>4

\* No step of a thread disturbs what the invariants say of another.
LEMMA OthersKept ==
  ASSUME RelayInv, NEW t \in Threads, MeasureRelay(t) \/ Starts(t), NEW u \in Threads \ {t}
  PROVE  BuiltInv(u)' /\ MineInv(u)' /\ StreamInv(u)'
<1>1. CallTypes /\ BuiltInv(u)
  BY DEF RelayInv
<1>2. /\ pc'[u] = pc[u] /\ call'[u] = call[u] /\ built'[u] = built[u]
      /\ u \in pending' <=> u \in pending
      /\ stream'[u] = stream[u] \/ stream'[u] = NoCircuit
  BY <1>1, OthersFrame
<1>3. LockInv'
  BY ThreadLock
<1>4. launched \in Nat /\ (launched' = launched \/ launched' = launched + 1)
  <2>1. launched \in Nat
    BY <1>1, CountsAssumption DEF CallTypes
  <2>2. CASE Starts(t)
    BY <1>1, <2>1, <2>2, StartEffects
  <2>3. CASE ChooseRole(t) \/ CreatePath(t) \/ BuildCircuit(t)
    BY <1>1, <2>1, <2>3, ChooseRoleEffects, CreatePathEffects, BuildCircuitEffects DEF Alone
  <2>4. CASE UsingStep(t) \/ ReturnStep(t) \/ CloseStep(t)
    BY <1>1, <2>1, <2>4, UsingEffects, ReturnEffects, CloseEffects DEF UsingEffect, ReturnEffect
  <2> QED
    BY <2>2, <2>3, <2>4, Kinds
<1>5. launched' \in Nat /\ launched <= launched'
  BY <1>4
<1>6. open' \subseteq open \cup {<<t, built[t] + 1>>}
  BY <1>1, Kinds, StartEffects, ChooseRoleEffects, CreatePathEffects,
     BuildCircuitEffects, UsingEffects, ReturnEffects, CloseEffects
     DEF Alone, torVars, UsingEffect
<1>7. call[u].mine \cap open' \subseteq open
  <2>1. \A c \in call[u].mine : c[1] = u
    BY <1>1 DEF BuiltInv
  <2>2. <<t, built[t] + 1>>[1] = t
    OBVIOUS
  <2>3. <<t, built[t] + 1>> \notin call[u].mine
    BY <2>1, <2>2
  <2> QED
    BY <1>6, <2>3
<1> QED
  BY <1>2, <1>3, <1>5, <1>7, CallKept

\* What a step with a circuit does to the connection of its thread.
LEMMA UsingStreams ==
  ASSUME RelayInv, NEW t \in Threads, UsingStep(t)
  PROVE  \/ UNCHANGED <<pending, stream>> /\ (t \in lock => t \notin pending)
         \/ t \notin pending' /\ stream'[t] = NoCircuit
         \/ UNCHANGED stream /\ (t \in pending' => stream[t] = NoCircuit)
            /\ pc'[t] \in {"head", "uphead"} /\ (stream[t] # NoCircuit => UNCHANGED pending)
         \/ UNCHANGED <<pc, stream>> /\ stream[t] = NoCircuit /\ call'[t].reopened
<1>1. /\ CallTypes /\ LockInv /\ StreamInv(t) /\ pc \in [Threads -> Pcs]
      /\ stream \in [Threads -> {NoCircuit} \cup Circuits]
      /\ call \in [Threads -> CallRecords] /\ call[t] \in CallRecords
  BY DEF RelayInv, CallTypes
<1>2. ASSUME Disconnects(t) PROVE t \notin pending' /\ stream'[t] = NoCircuit
  BY <1>1, <1>2 DEF Disconnects
<1>3. ASSUME Alone PROVE UNCHANGED <<pending, stream>>
  BY <1>3 DEF Alone, torVars
<1>4. t \in lock <=> pc[t] \in {"head", "uphead"}
  BY <1>1 DEF LockInv
<1>5. CASE SendHead(t)
  BY <1>1, <1>5 DEF SendHead, OpenStream, Goes, StreamInv
<1>6. CASE Reconnect(t)
  <2>1. call'[t].reopened
    BY <1>1, <1>6 DEF Reconnect, Sets, CallRecords
  <2> QED
    BY <1>6, <2>1 DEF Reconnect
<1>7. CASE HeadFails(t) \/ RttFails(t) \/ DownloadFails(t) \/ PostFails(t)
  BY <1>2, <1>7 DEF HeadFails, RttFails, DownloadFails, PostFails
<1>8. CASE HeadAnswered(t)
  BY <1>1, <1>8 DEF HeadAnswered, StreamInv
<1>9. CASE ShuttingDown(t)
  <2>1. pc[t] = "connect"
    BY <1>9 DEF ShuttingDown, NotUsable, Goes
  <2> QED
    BY <1>3, <1>4, <1>9, <2>1 DEF ShuttingDown
<1>10. CASE RttRequest(t) \/ DownloadRequest(t)
  BY <1>4, <1>10 DEF RttRequest, DownloadRequest, SetRange, torVars, Goes
<1>11. CASE RttMeasured(t) \/ RttsReturn(t) \/ RequestSent(t)
  BY <1>3, <1>4, <1>11 DEF RttMeasured, RttsReturn, RequestSent, Goes
<1>12. CASE DownloadsReturn(t) \/ Posted(t) \/ \E s \in Speeds : Downloaded(t, s)
  BY <1>3, <1>4, <1>12 DEF DownloadsReturn, Posted, Downloaded, Goes
<1> QED
  BY <1>5, <1>6, <1>7, <1>8, <1>9, <1>10, <1>11, <1>12 DEF UsingStep

\* A step with a circuit keeps its thread's part of the invariant.
LEMMA OwnUsing ==
  ASSUME RelayInv, NEW t \in Threads, UsingStep(t)
  PROVE  BuiltInv(t)' /\ MineInv(t)' /\ StreamInv(t)'
<1>1. /\ CallTypes /\ LockInv /\ BuiltInv(t) /\ MineInv(t) /\ StreamInv(t)
      /\ launched \in Nat /\ built[t] \in Nat /\ call[t].retried \in BOOLEAN
  <2>1. call[t] \in CallRecords
    BY DEF RelayInv, CallTypes
  <2>2. call[t].retried \in BOOLEAN
    BY <2>1 DEF CallRecords
  <2> QED
    BY <2>2, CountsAssumption DEF RelayInv, CallTypes
<1>2. UsingEffect(t)
  BY <1>1, UsingEffects
<1>3. LockInv'
  BY ThreadLock, UsingStep(t) DEF MeasureRelay, UsingStep
<1>4. t \in lock' <=> pc'[t] \in {"head", "uphead"}
  BY <1>3 DEF LockInv
<1>5. t \in lock <=> pc[t] \in {"head", "uphead"}
  BY <1>1 DEF LockInv
<1>6. CASE pc'[t] \in Using
  <2>1. call'[t].asEntry = call[t].asEntry /\ call'[t].retried = call[t].retried
    BY <1>2, <1>6 DEF UsingEffect, Using
  <2>2. BuiltInv(t)'
    <3>1. Left(t)' = Left(t)
      BY <1>2, <1>6, <2>1 DEF UsingEffect, Left, Before, Using
    <3> QED
      BY <1>1, <1>2, <1>6, <2>1, <3>1 DEF BuiltInv, UsingEffect, Using
  <2>3. MineInv(t)'
    BY <1>1, <1>2, <1>6, <2>1 DEF MineInv, UsingEffect, Before, Using
  <2>4. StreamInv(t)'
    BY <1>1, <1>2, <1>4, <1>5, <1>6, <2>1, UsingStreams
       DEF StreamInv, UsingEffect, Before, Using
  <2> QED
    BY <2>2, <2>3, <2>4
<1>7. CASE pc'[t] \notin Using
  <2>1. pc'[t] = "path" /\ ~call[t].asEntry /\ call'[t].asEntry /\ call'[t].retried
    BY <1>2, <1>7 DEF UsingEffect
  <2>2. ~call[t].retried
    BY <1>1, <1>2, <2>1 DEF BuiltInv, UsingEffect, Using
  <2>3. BuiltInv(t)'
    <3>1. Left(t)' = 1 /\ Left(t) = 1
      BY <1>2, <2>1, <2>2 DEF UsingEffect, Left, Before, Using
    <3> QED
      BY <1>1, <1>2, <2>1, <3>1 DEF BuiltInv, UsingEffect, Using
  <2>4. MineInv(t)'
    BY <1>1, <1>2, <2>1, <2>2 DEF MineInv, UsingEffect, Before, Using
  <2>5. StreamInv(t)'
    BY <1>1, <1>2, <1>4, <1>5, <2>1, <2>2, UsingStreams
       DEF StreamInv, UsingEffect, Before, Using
  <2> QED
    BY <2>3, <2>4, <2>5
<1> QED
  BY <1>6, <1>7

\* So does one that returns.
LEMMA OwnReturn ==
  ASSUME RelayInv, NEW t \in Threads, ReturnStep(t) \/ CloseStep(t)
  PROVE  BuiltInv(t)' /\ MineInv(t)' /\ StreamInv(t)'
<1>1. /\ CallTypes /\ BuiltInv(t) /\ MineInv(t)
      /\ launched \in Nat /\ built[t] \in Nat /\ Left(t) \in Nat
  BY CountsAssumption DEF RelayInv, CallTypes, Left
<1>2. ReturnEffect(t)
  BY <1>1, ReturnEffects, CloseEffects
<1>3. BuiltInv(t)'
  <2>1. Left(t)' = 0
    BY <1>2 DEF ReturnEffect, Left
  <2>2. built[t] + Left(t) <= 2 * launched
    BY <1>1 DEF BuiltInv
  <2>3. built[t] + 0 <= 2 * launched
    BY <1>1, <2>2
  <2>4. pc'[t] = "idle" /\ UNCHANGED <<built, launched>> /\ call'[t].mine \subseteq call[t].mine
    BY <1>2 DEF ReturnEffect
  <2> QED
    BY <1>1, <2>1, <2>3, <2>4 DEF BuiltInv, Using
<1>4. MineInv(t)'
  <2>1. pc'[t] = "idle" /\ call'[t].mine = call[t].mine \cap open' /\ call'[t].retried = call[t].retried
    BY <1>2 DEF ReturnEffect
  <2>2. CASE ReturnStep(t)
    <3>1. pc[t] \in Before \/ call'[t].outcome = "raised"
      BY <1>1, <2>2, ReturnEffects
    <3> QED
      BY <1>1, <2>1, <3>1 DEF MineInv, Before, Using
  <2>3. CASE CloseStep(t)
    <3>1. open' = open \ {call[t].circ} /\ pc[t] \in {"unusable", "xoff"}
      BY <1>1, <2>3, CloseEffects
    <3> QED
      BY <1>1, <2>1, <3>1 DEF MineInv, Before, Using
  <2> QED
    BY <2>2, <2>3
<1>5. StreamInv(t)'
  BY <1>2 DEF ReturnEffect, StreamInv, Before
<1> QED
  BY <1>3, <1>4, <1>5

\* And those before the circuit.
LEMMA OwnBefore ==
  ASSUME RelayInv, NEW t \in Threads,
         Starts(t) \/ ChooseRole(t) \/ CreatePath(t) \/ BuildCircuit(t)
  PROVE  BuiltInv(t)' /\ MineInv(t)' /\ StreamInv(t)'
<1>1. /\ CallTypes /\ LockInv /\ BuiltInv(t) /\ MineInv(t) /\ StreamInv(t)
      /\ launched \in Nat /\ built[t] \in Nat
      /\ built \in [Threads -> Nat] /\ call[t] \in CallRecords
  BY CountsAssumption DEF RelayInv, CallTypes
<1>2. /\ UNCHANGED <<pending, stream>> /\ lock' = lock /\ t \notin lock
  BY <1>1, StartEffects, ChooseRoleEffects, CreatePathEffects, BuildCircuitEffects
     DEF Alone, torVars, LockInv
<1>3. CASE Starts(t)
  <2>1. /\ pc[t] = "idle" /\ pc'[t] = "session" /\ launched' = launched + 1
        /\ UNCHANGED <<open, built>>
    BY <1>1, <1>3, StartEffects DEF torVars
  <2>2. PICK r \in Prioritized : call'[t] = NewCall(r)
    BY <1>1, <1>3, StartEffects
  <2>3. /\ call'[t].retried = FALSE /\ call'[t].mine = {} /\ call'[t].reopened = FALSE
        /\ call'[t].asEntry = FALSE
    BY <2>2 DEF NewCall
  <2>4. BuiltInv(t)'
    <3>1. Left(t) = 0 /\ Left(t)' = 2
      BY <2>1, <2>3 DEF Left, Before
    <3>2. built[t] + 0 <= 2 * launched
      BY <1>1, <3>1 DEF BuiltInv
    <3>3. built[t] + 2 <= 2 * launched'
      BY <1>1, <2>1, <3>2
    <3> QED
      BY <2>1, <2>3, <3>1, <3>3 DEF BuiltInv, Using
  <2>5. MineInv(t)'
    BY <2>1, <2>3 DEF MineInv, Before, Using
  <2>6. StreamInv(t)'
    BY <1>1, <1>2, <2>1, <2>3 DEF StreamInv, Before
  <2> QED
    BY <2>4, <2>5, <2>6
<1>4. CASE ChooseRole(t) \/ CreatePath(t)
  <2>1. /\ \/ pc[t] = "session" /\ pc'[t] = "path"
           \/ pc[t] = "path" /\ pc'[t] = "build" /\ call'[t].asEntry = call[t].asEntry
        /\ call'[t].retried = call[t].retried /\ call'[t].mine = call[t].mine
        /\ call'[t].reopened = call[t].reopened /\ call'[t].circ = call[t].circ
    <3>1. CASE ChooseRole(t)
      <4>1. /\ pc[t] = "session" /\ pc'[t] = "path"
            /\ call'[t] = [call[t] EXCEPT !.asEntry = UseRelayAsEntry(call[t].relay)]
        BY <1>1, <3>1, ChooseRoleEffects
      <4> QED
        BY <1>1, <4>1 DEF CallRecords
    <3>2. CASE CreatePath(t)
      <4>1. pc[t] = "path" /\ pc'[t] = "build"
        BY <1>1, <3>2, CreatePathEffects
      <4>2. PICK helper \in Candidates(t) :
              call'[t] = [call[t] EXCEPT !.path = PathWith(call[t].relay, call[t].asEntry, helper)]
        BY <1>1, <3>2, CreatePathEffects
      <4> QED
        BY <1>1, <4>1, <4>2 DEF CallRecords
    <3> QED
      BY <1>4, <3>1, <3>2
  <2>2. UNCHANGED <<open, built, launched>>
    BY <1>1, <1>4, ChooseRoleEffects, CreatePathEffects DEF Alone, torVars
  <2>3. BuiltInv(t)'
    <3>1. Left(t)' = Left(t)
      BY <2>1 DEF Left, Before
    <3> QED
      BY <1>1, <2>1, <2>2, <3>1 DEF BuiltInv, Using
  <2>4. MineInv(t)'
    BY <1>1, <2>1, <2>2 DEF MineInv, Before, Using
  <2>5. StreamInv(t)'
    BY <1>1, <1>2, <2>1 DEF StreamInv, BuiltInv, Before
  <2> QED
    BY <2>3, <2>4, <2>5
<1>5. CASE BuildCircuit(t)
  <2> DEFINE c == <<t, built[t] + 1>>
  <2>1. /\ pc[t] = "build" /\ pc'[t] \in {"upload", "connect"}
        /\ built' = [built EXCEPT ![t] = @ + 1] /\ launched' = launched
    BY <1>1, <1>5, BuildCircuitEffects
  <2>2. call'[t] = [call[t] EXCEPT !.circ = c, !.mine = @ \cup {c}, !.refreshed = FALSE]
    BY <1>1, <1>5, BuildCircuitEffects
  <2>3. built'[t] = built[t] + 1
    BY <1>1, <2>1
  <2>4. c = <<t, built'[t]>> /\ c \in {t} \X (1..built'[t]) /\ {t} \X (1..built[t]) \subseteq {t} \X (1..built'[t])
    BY <1>1, <2>3
  <2> HIDE DEF c
  <2>5. /\ call'[t].circ = c /\ call'[t].mine = call[t].mine \cup {c}
        /\ call'[t].retried = call[t].retried /\ call'[t].asEntry = call[t].asEntry
        /\ call'[t].reopened = call[t].reopened
    BY <1>1, <2>2 DEF CallRecords
  <2>6. BuiltInv(t)'
    <3>1. Left(t) = Left(t)' + 1 /\ Left(t)' \in Nat
      BY <2>1, <2>5 DEF Left, Before
    <3>2. built[t] + Left(t) <= 2 * launched
      BY <1>1 DEF BuiltInv
    <3>3. built'[t] + Left(t)' <= 2 * launched'
      BY <1>1, <2>1, <2>3, <3>1, <3>2
    <3>4. \A d \in call'[t].mine : d \in {t} \X (1..built'[t])
      BY <1>1, <2>4, <2>5 DEF BuiltInv
    <3> QED
      BY <1>1, <2>1, <2>4, <2>5, <3>3, <3>4 DEF BuiltInv
  <2>7. MineInv(t)'
    BY <1>1, <2>1, <2>5 DEF MineInv, Before, Using
  <2>8. StreamInv(t)'
    BY <1>1, <1>2, <2>1, <2>5 DEF StreamInv, Before
  <2> QED
    BY <2>6, <2>7, <2>8
<1> QED
  BY <1>3, <1>4, <1>5

\* Every step of a thread keeps the whole invariant.
LEMMA ThreadKeeps ==
  ASSUME RelayInv, NEW t \in Threads, MeasureRelay(t) \/ Starts(t)
  PROVE  RelayInv'
<1>1. CallTypes' /\ AskedInv' /\ LockInv' /\ OpenInv'
  BY ThreadTyped, ThreadLock, ThreadOpen
<1>2. ASSUME NEW u \in Threads PROVE BuiltInv(u)' /\ MineInv(u)' /\ StreamInv(u)'
  <2>1. CASE u = t
    BY <2>1, Kinds, OwnUsing, OwnReturn, OwnBefore
  <2>2. CASE u # t
    BY <2>2, OthersKept
  <2> QED
    BY <2>1, <2>2
<1> QED
  BY <1>1, <1>2 DEF RelayInv

-----------------------------------------------------------------------------
(***************************************************************************)
(* The steps of tor, of the refresh and of stop_threads.                   *)
(***************************************************************************)

\* When neither the threads nor the lock move and no circuit opens, every
\* part of the invariant that is about a thread stays, if its stream does.
LEMMA AllCallsKept ==
  ASSUME RelayInv, UNCHANGED <<pc, built, launched, lock, listeners, open>>,
         \A u \in Threads :
           /\ call'[u].circ = call[u].circ /\ call'[u].mine = call[u].mine
           /\ call'[u].asEntry = call[u].asEntry /\ call'[u].outcome = call[u].outcome
           /\ call'[u].retried = call[u].retried /\ call'[u].reopened = call[u].reopened
  PROVE  /\ LockInv'
         /\ \A u \in Threads :
              (u \in pending' => u \in pending) /\ (stream'[u] = stream[u] \/ stream'[u] = NoCircuit)
                => BuiltInv(u)' /\ MineInv(u)' /\ StreamInv(u)'
<1>1. LockInv'
  <2>1. \A u \in lock : ListenerOf(u)' = ListenerOf(u)
    BY DEF RelayInv, LockInv, ListenerOf
  <2>2. {ListenerOf(u)' : u \in lock'} = {ListenerOf(u) : u \in lock}
    BY <2>1
  <2> QED
    BY <2>2 DEF RelayInv, LockInv
<1>2. launched' \in Nat /\ launched <= launched'
  BY CountsAssumption DEF RelayInv, CallTypes
<1>3. ASSUME NEW u \in Threads, u \in pending' => u \in pending,
             stream'[u] = stream[u] \/ stream'[u] = NoCircuit
      PROVE  BuiltInv(u)' /\ MineInv(u)' /\ StreamInv(u)'
  <2>1. call[u].mine \cap open' \subseteq open
    OBVIOUS
  <2> QED
    BY <1>1, <1>2, <1>3, <2>1, CallKept
<1> QED
  BY <1>1, <1>3

\* A stream is attached to a circuit of its own thread, or was opened again.
LEMMA AttachKeeps ==
  ASSUME RelayInv, NEW l \in listeners, NEW t \in Threads, Attach(l, t)
  PROVE  RelayInv'
<1>1. /\ CallTypes /\ LockInv /\ OpenInv /\ BuiltInv(t) /\ StreamInv(t)
      /\ stream \in [Threads -> {NoCircuit} \cup Circuits]
  BY DEF RelayInv, CallTypes
<1>2. /\ l.circ \in open /\ t \in pending /\ pending' = pending \ {t}
      /\ stream' = [stream EXCEPT ![t] = l.circ]
      /\ streamEvent' = [d \in DOMAIN streamEvent \cup {l.circ} |->
                           IF d = l.circ THEN {} ELSE streamEvent[d]]
      /\ UNCHANGED <<endEvent, consensus, range, lock, listeners, open, built, pc, call,
                     launched>>
  BY DEF Attach, CreateEvents
<1>3. l.circ \in Circuits
  BY <1>1, <1>2 DEF OpenInv
<1>4. CallTypes'
  BY <1>1, <1>2, <1>3 DEF CallTypes
<1>5. AskedInv'
  BY <1>2 DEF RelayInv, AskedInv
<1>6. OpenInv'
  <2>1. \A u \in Threads : stream'[u] \in {NoCircuit} \cup open'
    BY <1>1, <1>2 DEF OpenInv
  <2> QED
    BY <1>1, <1>2, <1>3, <2>1 DEF OpenInv
<1>7. /\ LockInv'
      /\ \A u \in Threads \ {t} : BuiltInv(u)' /\ MineInv(u)' /\ StreamInv(u)'
  BY <1>1, <1>2, AllCallsKept
<1>8. BuiltInv(t)' /\ MineInv(t)'
  BY <1>2 DEF RelayInv, BuiltInv, MineInv, Left
<1>9. t \in lock => l.circ = call[t].circ /\ pc[t] \in Using
  <2> SUFFICES ASSUME t \in lock PROVE l.circ = call[t].circ /\ pc[t] \in Using
    OBVIOUS
  <2>1. lock = {t} /\ pc[t] \in {"head", "uphead"}
    BY <1>1 DEF LockInv
  <2>2. l = ListenerOf(t)
    BY <1>1, <2>1 DEF LockInv
  <2> QED
    BY <2>1, <2>2 DEF ListenerOf, Using
<1>10. StreamInv(t)'
  <2>1. stream'[t] = l.circ /\ t \notin pending'
    BY <1>1, <1>2
  <2> QED
    BY <1>1, <1>2, <1>9, <2>1 DEF StreamInv, BuiltInv
<1> QED
  BY <1>4, <1>5, <1>6, <1>7, <1>8, <1>10 DEF RelayInv

\* The other steps of tor move no circuit, those of the scanner's main thread
\* nothing that the invariant is about.
LEMMA OutsideKeeps ==
  ASSUME RelayInv,
         (\E t \in Threads : ConnectionLost(t) \/ Xoff(t)) \/ Refresh \/ StopThreads
  PROVE  RelayInv'
<1>1. /\ CallTypes /\ OpenInv /\ AskedInv
      /\ stream \in [Threads -> {NoCircuit} \cup Circuits] /\ call \in [Threads -> CallRecords]
  BY DEF RelayInv, CallTypes
<1>2. ASSUME NEW t \in Threads, ConnectionLost(t) PROVE RelayInv'
  <2>1. /\ stream' = [stream EXCEPT ![t] = NoCircuit]
        /\ UNCHANGED <<endEvent, consensus, streamEvent, range, lock, listeners, open, built,
                       launched, pending, pc, call>>
    BY <1>2 DEF ConnectionLost, Connecting
  <2>2. \A u \in Threads : stream'[u] = stream[u] \/ stream'[u] = NoCircuit
    BY <1>1, <2>1
  <2>3. LockInv' /\ \A u \in Threads : BuiltInv(u)' /\ MineInv(u)' /\ StreamInv(u)'
    BY <2>1, <2>2, AllCallsKept
  <2>4. CallTypes'
    BY <1>1, <2>1 DEF CallTypes
  <2>5. AskedInv'
    BY <1>1, <2>1 DEF AskedInv
  <2>6. OpenInv'
    BY <1>1, <2>1, <2>2 DEF OpenInv
  <2> QED
    BY <2>3, <2>4, <2>5, <2>6 DEF RelayInv
<1>3. ASSUME NEW t \in Threads, Xoff(t) PROVE RelayInv'
  <2>1. UNCHANGED <<endEvent, consensus, range, lock, listeners, pending, stream, open, built,
                    pc, call, launched>>
    BY <1>3 DEF Xoff, torVars
  <2>2. LockInv' /\ \A u \in Threads : BuiltInv(u)' /\ MineInv(u)' /\ StreamInv(u)'
    BY <2>1, AllCallsKept
  <2>3. CallTypes' /\ AskedInv'
    BY <1>1, <2>1 DEF CallTypes, AskedInv
  <2>4. PICK heard : streamEvent' = [c \in DOMAIN streamEvent |->
                         streamEvent[c] \cup (IF c \in heard THEN {"XOFF"} ELSE {})]
    BY <1>3 DEF Xoff
  <2>5. /\ DOMAIN streamEvent' = DOMAIN streamEvent
        /\ \A c \in DOMAIN streamEvent' : streamEvent'[c] \subseteq {"XOFF"}
    BY <1>1, <2>4 DEF OpenInv
  <2>6. OpenInv'
    BY <1>1, <2>1, <2>5 DEF OpenInv
  <2> QED
    BY <2>2, <2>3, <2>6 DEF RelayInv
<1>4. CASE Refresh
  <2>1. /\ UNCHANGED <<endEvent, streamEvent, range, lock, listeners, pending, stream, open, built,
                       pc, launched>>
        /\ consensus' \in Consensuses
        /\ call' = [t \in Threads |->
                      [call[t] EXCEPT !.refreshed = @ \/ pc[t] \in {"path", "build"}]]
    BY <1>4 DEF Refresh, torVars
  <2>2. ASSUME NEW u \in Threads
        PROVE  /\ call'[u] \in CallRecords /\ call'[u].asked = call[u].asked
               /\ call'[u].circ = call[u].circ /\ call'[u].mine = call[u].mine
               /\ call'[u].asEntry = call[u].asEntry /\ call'[u].outcome = call[u].outcome
               /\ call'[u].retried = call[u].retried /\ call'[u].reopened = call[u].reopened
    <3>1. call[u] \in CallRecords
      BY <1>1
    <3>2. PICK b \in BOOLEAN : call'[u] = [call[u] EXCEPT !.refreshed = b]
      <4>1. call'[u] = [call[u] EXCEPT !.refreshed = call[u].refreshed \/ pc[u] \in {"path", "build"}]
        BY <2>1, <3>1 DEF CallRecords
      <4>2. (call[u].refreshed \/ pc[u] \in {"path", "build"}) \in BOOLEAN
        OBVIOUS
      <4> QED
        BY <4>1, <4>2
    <3> QED
      BY <3>1, <3>2 DEF CallRecords
  <2>3. LockInv' /\ \A u \in Threads : BuiltInv(u)' /\ MineInv(u)' /\ StreamInv(u)'
    BY <2>1, <2>2, AllCallsKept
  <2>4. call' \in [Threads -> CallRecords]
    BY <2>1, <2>2
  <2>5. CallTypes'
    BY <1>1, <2>1, <2>4 DEF CallTypes
  <2>6. AskedInv'
    BY <1>1, <2>1, <2>2 DEF AskedInv
  <2>7. OpenInv'
    BY <1>1, <2>1 DEF OpenInv
  <2> QED
    BY <2>3, <2>5, <2>6, <2>7 DEF RelayInv
<1>5. CASE StopThreads
  <2>1. /\ UNCHANGED <<consensus, streamEvent, range, lock, listeners, pending, stream, open, built,
                       pc, call, launched>>
        /\ endEvent' = TRUE
    BY <1>5 DEF StopThreads, torVars
  <2>2. LockInv' /\ \A u \in Threads : BuiltInv(u)' /\ MineInv(u)' /\ StreamInv(u)'
    BY <2>1, AllCallsKept
  <2>3. CallTypes' /\ AskedInv' /\ OpenInv'
    BY <1>1, <2>1 DEF CallTypes, AskedInv, OpenInv
  <2> QED
    BY <2>2, <2>3 DEF RelayInv
<1> QED
  BY <1>2, <1>3, <1>4, <1>5

\* Nothing has been called, built or attached at first.
LEMMA RelayInit == Init => RelayInv
<1> SUFFICES ASSUME Init PROVE RelayInv
  OBVIOUS
<1>1. NewCall(CHOOSE r \in Relays : TRUE) \in CallRecords
  <2>1. (CHOOSE r \in Relays : TRUE) \in AnyRelay
    BY DEF AnyRelay
  <2>2. InitialRead \in MinDl..MaxDl
    BY SizesAssumption
  <2>3. "nothing" \in OutcomeTypes
    BY DEF OutcomeTypes
  <2>4. << >> \in Seq(AnyRelay)
    OBVIOUS
  <2> QED
    BY <2>1, <2>2, <2>3, <2>4 DEF NewCall, CallRecords
<1>2. CallTypes
  <2>1. launched \in 0..MaxMeasurements /\ endEvent \in BOOLEAN /\ consensus \in Consensuses
    <3>1. 0 \in 0..MaxMeasurements
      BY CountsAssumption
    <3> QED
      BY <3>1 DEF Init
  <2>2. call \in [Threads -> CallRecords] /\ pc \in [Threads -> Pcs]
    BY <1>1 DEF Init, Pcs
  <2>3. built \in [Threads -> Nat]
    BY DEF Init
  <2> QED
    BY <2>1, <2>2, <2>3 DEF Init, CallTypes
<1>3. ASSUME NEW t \in Threads
      PROVE  /\ pc[t] = "idle" /\ call[t].asked = 0 /\ call[t].mine = {} /\ call[t].retried = FALSE
             /\ stream[t] = NoCircuit /\ built[t] = 0 /\ launched = 0
  BY DEF Init, NewCall
<1>4. AskedInv
  <2>1. range = 0 /\ \A t \in Threads : pc[t] = "idle" /\ call[t].asked = 0
    BY <1>3 DEF Init
  <2> QED
    BY <2>1 DEF AskedInv
<1>5. LockInv
  BY DEF Init, LockInv
<1>6. OpenInv
  BY DEF Init, OpenInv
<1>7. ASSUME NEW t \in Threads PROVE BuiltInv(t) /\ MineInv(t) /\ StreamInv(t)
  <2>1. t \notin pending
    BY DEF Init
  <2>2. Left(t) = 0
    BY <1>3 DEF Left
  <2>3. BuiltInv(t)
    <3>1. built[t] = 0 /\ launched = 0
      BY <1>3
    <3>2. built[t] + Left(t) <= 2 * launched
      BY <2>2, <3>1
    <3> QED
      BY <1>3, <3>2 DEF BuiltInv, Using
  <2> QED
    BY <1>3, <2>1, <2>3 DEF MineInv, StreamInv, Before, Using
<1> QED
  BY <1>2, <1>4, <1>5, <1>6, <1>7 DEF RelayInv

\* RelayInv is an invariant.
LEMMA RelayInvariant == Spec => []RelayInv
<1>1. RelayInv /\ [Next]_vars => RelayInv'
  <2> SUFFICES ASSUME RelayInv, [Next]_vars PROVE RelayInv'
    OBVIOUS
  <2>1. CASE \E t \in Threads : MeasureRelay(t)
    BY <2>1, ThreadKeeps
  <2>2. CASE \E t \in Threads, r \in Prioritized : Start(t, r)
    BY <2>2, ThreadKeeps DEF Starts
  <2>3. CASE Tor
    BY <2>3, AttachKeeps, OutsideKeeps DEF Tor
  <2>4. CASE Refresh \/ StopThreads
    BY <2>4, OutsideKeeps
  <2>5. CASE UNCHANGED vars
    <3>1. UNCHANGED <<endEvent, consensus, streamEvent, range, lock, listeners, pending, stream,
                      open, built, pc, call, launched>>
      BY <2>5 DEF vars, torVars
    <3>2. LockInv' /\ \A u \in Threads : BuiltInv(u)' /\ MineInv(u)' /\ StreamInv(u)'
      BY <3>1, AllCallsKept
    <3>3. CallTypes' /\ AskedInv' /\ OpenInv'
      BY <3>1 DEF RelayInv, CallTypes, AskedInv, OpenInv
    <3> QED
      BY <3>2, <3>3 DEF RelayInv
  <2> QED
    BY <2>1, <2>2, <2>3, <2>4, <2>5 DEF Next
<1> QED
  BY RelayInit, <1>1, PTL DEF Spec

-----------------------------------------------------------------------------
(***************************************************************************)
(* The theorems on types, streams and circuits.                            *)
(***************************************************************************)

\* Every variable keeps its type: among others no call builds a third circuit,
\* and the lock has one owner, who alone has a listener.
THEOREM RelayTypes == Spec => []TypeOK
<1>1. RelayInv => TypeOK
  <2> SUFFICES ASSUME RelayInv PROVE TypeOK
    OBVIOUS
  <2>1. built \in [Threads -> 0..2 * launched]
    <3> SUFFICES ASSUME NEW t \in Threads PROVE built[t] \in 0..2 * launched
      BY DEF RelayInv, CallTypes
    <3>1. built[t] \in Nat /\ launched \in Nat /\ Left(t) \in Nat
      BY CountsAssumption DEF RelayInv, CallTypes, Left
    <3>2. built[t] + Left(t) <= 2 * launched
      BY DEF RelayInv, BuiltInv
    <3> QED
      BY <3>1, <3>2
  <2>2. ASSUME NEW t \in Threads PROVE call[t].amount \in MinDl..MaxDl
    <3>1. call[t] \in CallRecords
      BY DEF RelayInv, CallTypes
    <3> QED
      BY <3>1 DEF CallRecords
  <2>3. \A t \in Threads : call[t].asked \in IF pc[t] = "get" THEN MinDl..MaxDl ELSE {0}
    BY DEF RelayInv, AskedInv
  <2>4. CallTypes /\ LockInv /\ OpenInv /\ range \in {0} \cup MinDl..MaxDl
    BY DEF RelayInv, AskedInv
  <2> QED
    BY <2>1, <2>2, <2>3, <2>4 DEF TypeOK, CallTypes, LockInv, OpenInv
<1> QED
  BY RelayInvariant, <1>1, PTL

\* With stream_building_lock, a thread that has not had to connect again
\* transfers through a circuit of its own, and through the last one unless the
\* relay was tried as an entry too.
THEOREM StreamThroughOwnCircuitHolds == Spec => []StreamThroughOwnCircuit
<1>1. RelayInv => StreamThroughOwnCircuit
  BY DEF RelayInv, StreamInv, StreamThroughOwnCircuit
<1> QED
  BY RelayInvariant, <1>1, PTL

\* A set whose elements are the same has one at most.
LEMMA OneAtMost ==
  ASSUME NEW S, \A c, d \in S : c = d
  PROVE  Cardinality(S) <= 1
<1>1. CASE S = {}
  BY <1>1, FS_EmptySet
<1>2. CASE S # {}
  <2>1. PICK c \in S : S = {c}
    BY <1>2
  <2>2. Cardinality({c}) = 1
    BY FS_Singleton
  <2> QED
    BY <2>1, <2>2
<1> QED
  BY <1>1, <1>2

\* However measure_relay returns, unless with a KeyError, it leaves no circuit
\* open, or the first of two.
THEOREM OneCircuitLeftAtMostHolds == Spec => []OneCircuitLeftAtMost
<1>1. RelayInv => OneCircuitLeftAtMost
  <2> SUFFICES ASSUME RelayInv, NEW t \in Threads, pc[t] = "idle", call[t].outcome # "raised"
               PROVE  /\ ~call[t].retried => call[t].mine \cap open = {}
                      /\ Cardinality(call[t].mine \cap open) <= 1
    BY DEF OneCircuitLeftAtMost
  <2>1. /\ ~call[t].retried => call[t].mine \cap open = {}
        /\ \A c, d \in call[t].mine \cap open : c = d
    BY DEF RelayInv, MineInv
  <2> QED
    BY <2>1, OneAtMost
<1> QED
  BY RelayInvariant, <1>1, PTL

-----------------------------------------------------------------------------
(***************************************************************************)
(* The path.                                                               *)
(***************************************************************************)

\* A helper that is to be the exit is one that allows the port, and has the
\* version of flow control that the consensus wants measured.
LEMMA HelperExits ==
  ASSUME ~TestingTorNetwork, consensus \in Consensuses, NEW r,
         NEW helper \in SelectHelperCandidates(r, TRUE)
  PROVE  /\ IsExitNotBadAllowingPort(helper)
         /\ IsConsensusCcAlg2 => (helper \in FlowCtrl2 <=> IsConsensusBwscannerCcGte1)
<1>1. helper \in Allowing
  BY DEF SelectHelperCandidates, ExitsWith2InFlowctrl, ExitsWithout2InFlowctrl
<1>2. IsConsensusCcAlg2 /\ IsConsensusBwscannerCcGte1 => helper \in FlowCtrl2
  BY DEF SelectHelperCandidates, ExitsWith2InFlowctrl
<1>3. IsConsensusCcAlg2 /\ ~IsConsensusBwscannerCcGte1 => helper \notin FlowCtrl2
  BY DEF SelectHelperCandidates, ExitsWithout2InFlowctrl
<1> QED
  BY <1>1, <1>2, <1>3 DEF Allowing

\* The path that create_path_relay returns is right for the consensus.
LEMMA CreatePathRight ==
  ASSUME ~TestingTorNetwork, CallTypes, NEW t \in Threads, PathInv(t), CreatePath(t)
  PROVE  /\ IsExitNotBadAllowingPort(call'[t].path[2])
         /\ ~call[t].retried /\ ~call[t].refreshed =>
              /\ call'[t].path[1] # call'[t].path[2]
              /\ IsConsensusCcAlg2 =>
                   (call'[t].path[2] \in FlowCtrl2 <=> IsConsensusBwscannerCcGte1)
<1>1. /\ pc[t] = "path" /\ call[t] \in CallRecords /\ call[t].relay \in Relays
      /\ consensus \in Consensuses /\ call[t].asEntry \in BOOLEAN
  <2>1. call[t] \in CallRecords /\ pc[t] = "path"
    BY CreatePathEffects DEF CallTypes
  <2>2. call[t].asEntry \in BOOLEAN
    BY <2>1 DEF CallRecords
  <2> QED
    BY <2>1, <2>2 DEF CallTypes, PathInv
<1>2. PICK helper \in Candidates(t) :
        call'[t] = [call[t] EXCEPT !.path = PathWith(call[t].relay, call[t].asEntry, helper)]
  BY CreatePathEffects
<1>3. call'[t].path = PathWith(call[t].relay, call[t].asEntry, helper)
  BY <1>1, <1>2 DEF CallRecords
<1>4. CASE call[t].asEntry
  <2>1. call'[t].path[1] = call[t].relay /\ call'[t].path[2] = helper
    BY <1>3, <1>4 DEF PathWith
  <2>2. helper \in SelectHelperCandidates(call[t].relay, TRUE)
    BY <1>1, <1>2, <1>4 DEF Candidates
  <2>3. /\ IsExitNotBadAllowingPort(helper)
        /\ IsConsensusCcAlg2 => (helper \in FlowCtrl2 <=> IsConsensusBwscannerCcGte1)
    BY <1>1, <2>2, HelperExits
  <2>4. ASSUME ~call[t].retried, ~call[t].refreshed PROVE helper # call[t].relay
    <3>1. UseRelayAsEntry(call[t].relay)
      BY <1>1, <1>4, <2>4 DEF PathInv
    <3> QED
      BY <1>1, <2>3, <3>1 DEF UseRelayAsEntry, FlowCtrl2
  <2> QED
    BY <2>1, <2>3, <2>4
<1>5. CASE ~call[t].asEntry
  <2>1. call'[t].path[1] = helper /\ call'[t].path[2] = call[t].relay
    BY <1>3, <1>5 DEF PathWith
  <2>2. IsExitNotBadAllowingPort(call[t].relay)
    BY <1>1, <1>5 DEF PathInv
  <2>3. helper # call[t].relay
    BY <1>2, <1>5 DEF Candidates, SelectHelperCandidates
  <2>4. ASSUME ~call[t].retried, ~call[t].refreshed, IsConsensusCcAlg2
        PROVE  call[t].relay \in FlowCtrl2 <=> IsConsensusBwscannerCcGte1
    <3>1. ~UseRelayAsEntry(call[t].relay)
      BY <1>1, <1>5, <2>4 DEF PathInv
    <3> QED
      BY <1>1, <2>4, <3>1 DEF UseRelayAsEntry, FlowCtrl2
  <2> QED
    BY <2>1, <2>2, <2>3, <2>4
<1> QED
  BY <1>4, <1>5

\* What is asked of a path stays as long as the call, the place and the
\* consensus do.
LEMMA PathKept ==
  ASSUME NEW t \in Threads, PathInv(t), UNCHANGED consensus,
         pc'[t] = pc[t], call'[t] = call[t]
  PROVE  PathInv(t)'
BY DEF PathInv, UseRelayAsEntry, IsConsensusCcAlg2, IsConsensusBwscannerCcGte1

\* Every step of the thread itself keeps it.
LEMMA OwnPath ==
  ASSUME RelayInv, NEW t \in Threads, PathInv(t), MeasureRelay(t) \/ Starts(t)
  PROVE  PathInv(t)'
<1>1. CallTypes /\ call[t] \in CallRecords /\ BuiltInv(t)
  BY DEF RelayInv, CallTypes
<1>2. CASE Starts(t)
  <2>1. PICK r \in Prioritized : call'[t] = NewCall(r)
    BY <1>1, <1>2, StartEffects
  <2>2. pc'[t] = "session" /\ r \in Relays
    BY <1>1, <1>2, StartEffects, RelaysAssumption
  <2> QED
    BY <2>1, <2>2 DEF PathInv, NewCall
<1>3. CASE ChooseRole(t)
  <2>1. /\ pc[t] = "session" /\ pc'[t] = "path" /\ UNCHANGED consensus
        /\ call'[t] = [call[t] EXCEPT !.asEntry = UseRelayAsEntry(call[t].relay)]
    BY <1>1, <1>3, ChooseRoleEffects DEF Alone
  <2>2. /\ call'[t].asEntry = UseRelayAsEntry(call[t].relay) /\ call'[t].relay = call[t].relay
        /\ call'[t].retried = call[t].retried
    BY <1>1, <2>1 DEF CallRecords
  <2>3. UseRelayAsEntry(call[t].relay)' <=> UseRelayAsEntry(call[t].relay)
    BY <2>1, <2>2 DEF UseRelayAsEntry, IsConsensusCcAlg2, IsConsensusBwscannerCcGte1
  <2>4. ~call[t].retried
    BY <1>1, <2>1 DEF BuiltInv
  <2>5. ~UseRelayAsEntry(call[t].relay) => IsExitNotBadAllowingPort(call[t].relay)
    BY DEF UseRelayAsEntry
  <2> QED
    BY <2>1, <2>2, <2>3, <2>4, <2>5 DEF PathInv
<1>4. CASE CreatePath(t)
  <2>1. pc[t] = "path" /\ pc'[t] = "build" /\ UNCHANGED consensus
    BY <1>1, <1>4, CreatePathEffects DEF Alone
  <2>2. PICK helper \in Candidates(t) :
          call'[t] = [call[t] EXCEPT !.path = PathWith(call[t].relay, call[t].asEntry, helper)]
    BY <1>1, <1>4, CreatePathEffects
  <2>3. /\ call'[t].relay = call[t].relay /\ call'[t].retried = call[t].retried
        /\ call'[t].refreshed = call[t].refreshed
    BY <1>1, <2>2 DEF CallRecords
  <2>4. (IsConsensusCcAlg2' <=> IsConsensusCcAlg2)
        /\ (IsConsensusBwscannerCcGte1' <=> IsConsensusBwscannerCcGte1)
    BY <2>1 DEF IsConsensusCcAlg2, IsConsensusBwscannerCcGte1
  <2>5. call'[t].relay \in Relays
    BY <2>1, <2>3 DEF PathInv
  <2>6. ~TestingTorNetwork =>
         /\ IsExitNotBadAllowingPort(call'[t].path[2])
         /\ ~call[t].retried /\ ~call[t].refreshed =>
              /\ call'[t].path[1] # call'[t].path[2]
              /\ IsConsensusCcAlg2 =>
                   (call'[t].path[2] \in FlowCtrl2 <=> IsConsensusBwscannerCcGte1)
    BY <1>1, <1>4, CreatePathRight
  <2> QED
    BY <2>1, <2>3, <2>4, <2>5, <2>6 DEF PathInv
<1>5. CASE BuildCircuit(t)
  <2>1. /\ pc[t] = "build" /\ pc'[t] \in {"upload", "connect"}
        /\ call'[t] = [call[t] EXCEPT !.circ = <<t, built[t] + 1>>,
                                      !.mine = @ \cup {<<t, built[t] + 1>>}, !.refreshed = FALSE]
    BY <1>1, <1>5, BuildCircuitEffects
  <2>2. call'[t].relay = call[t].relay
    BY <1>1, <2>1 DEF CallRecords
  <2> QED
    BY <2>1, <2>2 DEF PathInv
<1>6. CASE UsingStep(t)
  <2>1. UsingEffect(t)
    BY <1>1, <1>6, UsingEffects
  <2> QED
    BY <2>1 DEF UsingEffect, PathInv, Using
<1>7. CASE ReturnStep(t) \/ CloseStep(t)
  <2>1. pc'[t] = "idle"
    BY <1>1, <1>7, ReturnEffects, CloseEffects DEF ReturnEffect
  <2> QED
    BY <2>1 DEF PathInv
<1> QED
  BY <1>2, <1>3, <1>4, <1>5, <1>6, <1>7, Kinds

\* PathInv is an invariant.
LEMMA PathInvariant == Spec => [](\A t \in Threads : PathInv(t))
<1>1. Init => \A t \in Threads : PathInv(t)
  <2> SUFFICES ASSUME Init, NEW t \in Threads PROVE PathInv(t)
    OBVIOUS
  <2>1. pc[t] = "idle"
    BY DEF Init
  <2> QED
    BY <2>1 DEF PathInv
<1>2. RelayInv /\ (\A t \in Threads : PathInv(t)) /\ [Next]_vars => (\A t \in Threads : PathInv(t))'
  <2> SUFFICES ASSUME RelayInv, \A t \in Threads : PathInv(t), [Next]_vars, NEW u \in Threads
               PROVE  PathInv(u)'
    OBVIOUS
  <2>1. CallTypes /\ PathInv(u) /\ call[u] \in CallRecords
    BY DEF RelayInv, CallTypes
  <2>2. ASSUME NEW t \in Threads, MeasureRelay(t) \/ Starts(t) PROVE PathInv(u)'
    <3>1. CASE u = t
      BY <2>1, <2>2, <3>1, OwnPath
    <3>2. CASE u # t
      <4>1. pc'[u] = pc[u] /\ call'[u] = call[u]
        BY <2>1, <2>2, <3>2, OthersFrame
      <4>2. UNCHANGED consensus
        BY <2>1, <2>2, Kinds, StartEffects, ChooseRoleEffects, CreatePathEffects,
           BuildCircuitEffects, UsingEffects, ReturnEffects, CloseEffects
           DEF Alone, UsingEffect, ReturnEffect
      <4> QED
        BY <2>1, <4>1, <4>2, PathKept
    <3> QED
      BY <3>1, <3>2
  <2>3. CASE Tor \/ StopThreads \/ UNCHANGED vars
    <3>1. UNCHANGED <<consensus, pc, call>>
      BY <2>3 DEF Tor, Attach, ConnectionLost, Connecting, Xoff, StopThreads, vars
    <3> QED
      BY <2>1, <3>1, PathKept
  <2>4. CASE Refresh
    <3>1. /\ UNCHANGED pc
          /\ call' = [t \in Threads |->
                        [call[t] EXCEPT !.refreshed = @ \/ pc[t] \in {"path", "build"}]]
      BY <2>4 DEF Refresh
    <3>2. /\ call'[u].relay = call[u].relay /\ call'[u].asEntry = call[u].asEntry
          /\ call'[u].retried = call[u].retried /\ call'[u].path = call[u].path
          /\ pc[u] \in {"path", "build"} => call'[u].refreshed
      <4>1. call'[u] = [call[u] EXCEPT !.refreshed = call[u].refreshed \/ pc[u] \in {"path", "build"}]
        BY <2>1, <3>1 DEF CallRecords
      <4> QED
        BY <2>1, <4>1 DEF CallRecords
    <3> QED
      BY <2>1, <3>1, <3>2 DEF PathInv
  <2>5. CASE Next
    BY <2>2, <2>3, <2>4, <2>5 DEF Next, Starts
  <2> QED
    BY <2>3, <2>5
<1> QED
  BY RelayInvariant, <1>1, <1>2, PTL DEF Spec

\* Outside of a testing network a path ends at a relay that exits to the Web
\* server and is not a bad exit, and is of two relays, with the version of flow
\* control to measure, unless the consensus has changed or it is a retry.
THEOREM PathExitsHolds == Spec => [](~TestingTorNetwork => PathExits)
<1>1. (\A t \in Threads : PathInv(t)) => (~TestingTorNetwork => PathExits)
  BY DEF PathInv, PathExits
<1> QED
  BY PathInvariant, <1>1, PTL

-----------------------------------------------------------------------------
(***************************************************************************)
(* The end, once end_event is set.                                         *)
(***************************************************************************)
Rank(p) == CHOOSE i \in DOMAIN Steps : p \in Steps[i]
Retries(t) == IF call[t].asEntry THEN 0 ELSE 1
Requests(t) ==
  2 * (NumRtts - call[t].count) + (IF pc[t] = "rttget" THEN 0 ELSE 1)
  + IF stream[t] = NoCircuit /\ t \notin pending THEN 1 ELSE 0

\* Each place of measure_relay is in one of the steps.
LEMMA Ranks ==
  /\ Rank("idle") = 1 /\ Rank("unusable") = 2 /\ Rank("xoff") = 3 /\ Rank("post") = 4
  /\ Rank("download") = 5 /\ Rank("get") = 6 /\ Rank("request") = 7
  /\ Rank("rtt") = 8 /\ Rank("rttget") = 8
  /\ Rank("uphead") = 9 /\ Rank("head") = 10 /\ Rank("upload") = 11 /\ Rank("connect") = 12
  /\ Rank("build") = 13 /\ Rank("path") = 14 /\ Rank("session") = 15
<1>1. /\ DOMAIN Steps = 1..15
      /\ Steps[1] = {"idle"} /\ Steps[2] = {"unusable"} /\ Steps[3] = {"xoff"}
      /\ Steps[4] = {"post"} /\ Steps[5] = {"download"} /\ Steps[6] = {"get"}
      /\ Steps[7] = {"request"} /\ Steps[8] = {"rtt", "rttget"} /\ Steps[9] = {"uphead"}
      /\ Steps[10] = {"head"} /\ Steps[11] = {"upload"} /\ Steps[12] = {"connect"}
      /\ Steps[13] = {"build"} /\ Steps[14] = {"path"} /\ Steps[15] = {"session"}
  BY DEF Steps
<1>2. \A i \in 1..15 : \/ i = 1 \/ i = 2 \/ i = 3 \/ i = 4 \/ i = 5 \/ i = 6 \/ i = 7 \/ i = 8
                       \/ i = 9 \/ i = 10 \/ i = 11 \/ i = 12 \/ i = 13 \/ i = 14 \/ i = 15
  OBVIOUS
<1>3. ASSUME NEW p, NEW k \in 1..15, p \in Steps[k], \A i \in 1..15 : p \in Steps[i] => i = k
      PROVE  Rank(p) = k
  BY <1>1, <1>3 DEF Rank
<1>4. /\ \A i \in 1..15 : "idle" \in Steps[i] => i = 1
      /\ \A i \in 1..15 : "unusable" \in Steps[i] => i = 2
      /\ \A i \in 1..15 : "xoff" \in Steps[i] => i = 3
      /\ \A i \in 1..15 : "post" \in Steps[i] => i = 4
  BY <1>1, <1>2
<1>5. /\ \A i \in 1..15 : "download" \in Steps[i] => i = 5
      /\ \A i \in 1..15 : "get" \in Steps[i] => i = 6
      /\ \A i \in 1..15 : "request" \in Steps[i] => i = 7
      /\ \A i \in 1..15 : "rtt" \in Steps[i] => i = 8
      /\ \A i \in 1..15 : "rttget" \in Steps[i] => i = 8
      /\ \A i \in 1..15 : "uphead" \in Steps[i] => i = 9
  BY <1>1, <1>2
<1>6. /\ \A i \in 1..15 : "head" \in Steps[i] => i = 10
      /\ \A i \in 1..15 : "upload" \in Steps[i] => i = 11
      /\ \A i \in 1..15 : "connect" \in Steps[i] => i = 12
      /\ \A i \in 1..15 : "build" \in Steps[i] => i = 13
      /\ \A i \in 1..15 : "path" \in Steps[i] => i = 14
      /\ \A i \in 1..15 : "session" \in Steps[i] => i = 15
  BY <1>1, <1>2
<1>7. Rank("idle") = 1 /\ Rank("unusable") = 2 /\ Rank("xoff") = 3 /\ Rank("post") = 4
  BY <1>1, <1>3, <1>4
<1>8. /\ Rank("download") = 5 /\ Rank("get") = 6 /\ Rank("request") = 7
      /\ Rank("rtt") = 8 /\ Rank("rttget") = 8 /\ Rank("uphead") = 9
  BY <1>1, <1>3, <1>5
<1>9. /\ Rank("head") = 10 /\ Rank("upload") = 11 /\ Rank("connect") = 12
      /\ Rank("build") = 13 /\ Rank("path") = 14 /\ Rank("session") = 15
  BY <1>1, <1>3, <1>6
<1> QED
  BY <1>7, <1>8, <1>9

\* What is less in the first of three numbers that differs is less.
LEMMA LessOfThree ==
  ASSUME NEW a, NEW b, NEW c, NEW d, NEW e, NEW f,
         a < d \/ (a = d /\ b < e) \/ (a = d /\ b = e /\ c < f)
  PROVE  Less(<<a, b, c>>, <<d, e, f>>)
<1>1. DOMAIN <<a, b, c>> = 1..3
  OBVIOUS
<1>2. CASE a < d
  <2>1. <<a, b, c>>[1] < <<d, e, f>>[1] /\ \A j \in 1..1 - 1 : FALSE
    BY <1>2
  <2> QED
    BY <1>1, <2>1 DEF Less
<1>3. CASE a = d /\ b < e
  <2>1. <<a, b, c>>[2] < <<d, e, f>>[2] /\ <<a, b, c>>[1] = <<d, e, f>>[1]
        /\ \A j \in 1..2 - 1 : j = 1
    BY <1>3
  <2> QED
    BY <1>1, <2>1 DEF Less
<1>4. CASE a = d /\ b = e /\ c < f
  <2>1. /\ <<a, b, c>>[3] < <<d, e, f>>[3] /\ <<a, b, c>>[1] = <<d, e, f>>[1]
        /\ <<a, b, c>>[2] = <<d, e, f>>[2]
        /\ \A j \in 1..3 - 1 : j = 1 \/ j = 2
    BY <1>4
  <2> QED
    BY <1>1, <2>1 DEF Less
<1> QED
  BY <1>2, <1>3, <1>4

\* After end_event a step with a circuit retries the relay as an entry, goes on
\* to a later place, or makes one of the requests that are left.
LEMMA UsingGoesOn ==
  ASSUME RelayInv, endEvent, NEW t \in Threads, UsingStep(t)
  PROVE  \/ Retries(t) = 1 /\ Retries(t)' = 0
         \/ Retries(t)' = Retries(t) /\ Rank(pc[t])' < Rank(pc[t])
         \/ /\ Retries(t)' = Retries(t) /\ Rank(pc[t])' = Rank(pc[t])
            /\ Requests(t)' < Requests(t)
<1>1. /\ CallTypes /\ pc \in [Threads -> Pcs] /\ call \in [Threads -> CallRecords]
      /\ call[t] \in CallRecords /\ StreamInv(t)
      /\ stream \in [Threads -> {NoCircuit} \cup Circuits]
  BY DEF RelayInv, CallTypes
<1>2. /\ pc[t] \in Using
      /\ \/ call'[t].asEntry = call[t].asEntry
         \/ pc'[t] = "path" /\ ~call[t].asEntry /\ call'[t].asEntry
  BY <1>1, UsingEffects DEF UsingEffect
<1>3. CASE ~call[t].asEntry /\ call'[t].asEntry
  BY <1>3 DEF Retries
<1>4. ASSUME call'[t].asEntry = call[t].asEntry, Rank(pc[t])' < Rank(pc[t])
      PROVE  Retries(t)' = Retries(t) /\ Rank(pc[t])' < Rank(pc[t])
  BY <1>4 DEF Retries
<1>5. CASE call'[t].asEntry = call[t].asEntry
  <2>1. ASSUME NEW from \in {"connect", "head"}, NotUsable(t, from) PROVE Rank(pc[t])' < Rank(pc[t])
    <3>1. CASE pc'[t] = "path"
      <4>1. /\ ~call[t].asEntry
            /\ call'[t] = [call[t] EXCEPT !.asEntry = TRUE, !.retried = TRUE]
        BY <1>1, <2>1, <3>1, NotUsableEffects
      <4>2. call'[t].asEntry
        BY <1>1, <4>1 DEF CallRecords
      <4> QED
        BY <1>5, <4>1, <4>2
    <3>2. CASE pc'[t] # "path"
      <4>1. pc[t] = from /\ pc'[t] = "unusable"
        BY <1>1, <2>1, <3>2, NotUsableEffects
      <4> QED
        BY <4>1, Ranks
    <3> QED
      BY <3>1, <3>2
  <2>2. CASE ShuttingDown(t)
    BY <1>4, <1>5, <2>1, <2>2 DEF ShuttingDown
  <2>3. CASE SendHead(t)
    <3>1. pc[t] = "upload" /\ pc'[t] = "uphead"
      BY <1>1, <2>3 DEF SendHead, Goes
    <3> QED
      BY <1>4, <1>5, <3>1, Ranks
  <2>4. CASE HeadFails(t) \/ HeadAnswered(t)
    <3>1. \/ NotUsable(t, "head")
          \/ pc[t] = "uphead" /\ pc'[t] \in {"xoff", "post"}
          \/ pc[t] = "head" /\ pc'[t] = "rtt"
      BY <1>1, <2>4 DEF HeadFails, HeadAnswered, Goes
    <3>2. Rank(pc[t])' < Rank(pc[t])
      BY <2>1, <3>1, Ranks
    <3> QED
      BY <1>4, <1>5, <3>2
  <2>5. CASE Reconnect(t)
    <3>1. /\ UNCHANGED <<pc, stream>> /\ stream[t] = NoCircuit /\ t \notin pending
          /\ t \in pending' /\ Sets(t, "reopened", TRUE)
      BY <2>5 DEF Reconnect, OpenStream
    <3>2. call'[t].count = call[t].count /\ call[t].count \in Nat
      BY <1>1, <3>1 DEF Sets, CallRecords
    <3>3. Requests(t)' = Requests(t) - 1
      <4> DEFINE rest == 2 * (NumRtts - call[t].count) + (IF pc[t] = "rttget" THEN 0 ELSE 1)
      <4>1. rest \in Int
        BY <3>2, CountsAssumption
      <4>2. rest' = rest
        BY <3>1, <3>2
      <4>3. Requests(t) = rest + 1 /\ Requests(t)' = rest' + 0
        BY <3>1 DEF Requests
      <4> HIDE DEF rest
      <4> QED
        BY <4>1, <4>2, <4>3
    <3>4. Requests(t) \in Int
      BY <3>2, CountsAssumption DEF Requests
    <3>5. Rank(pc[t])' = Rank(pc[t]) /\ Retries(t)' = Retries(t)
      BY <1>5, <3>1 DEF Retries
    <3> QED
      BY <3>3, <3>4, <3>5
  <2>6. CASE RttRequest(t)
    <3>1. pc[t] = "rtt" /\ pc'[t] = "rttget" /\ UNCHANGED <<call, stream, pending>>
      BY <1>1, <2>6 DEF RttRequest, SetRange, torVars, Goes
    <3>2. call[t].count \in Nat /\ NumRtts \in Nat
      BY <1>1, CountsAssumption DEF CallRecords
    <3>3. Requests(t)' < Requests(t)
      BY <3>1, <3>2 DEF Requests
    <3> QED
      BY <1>5, <3>1, <3>3, Ranks DEF Retries
  <2>7. CASE RttMeasured(t)
    <3>1. /\ pc[t] = "rttget" /\ pc'[t] = "rtt" /\ UNCHANGED <<stream, pending>>
          /\ stream[t] # NoCircuit /\ Sets(t, "count", call[t].count + 1)
      BY <1>1, <2>7 DEF RttMeasured, Alone, torVars, Goes
    <3>2. call[t].count \in Nat /\ NumRtts \in Nat /\ call'[t].count = call[t].count + 1
      BY <1>1, <3>1, CountsAssumption DEF CallRecords, Sets
    <3>3. /\ Requests(t) = 2 * (NumRtts - call[t].count) + 0 + 0
          /\ Requests(t)' = 2 * (NumRtts - (call[t].count + 1)) + 1 + 0
      BY <3>1, <3>2 DEF Requests
    <3>4. Requests(t)' < Requests(t)
      BY <3>2, <3>3
    <3> QED
      BY <1>5, <3>1, <3>4, Ranks DEF Retries
  <2>8. CASE RttFails(t) \/ RttsReturn(t)
    <3>1. \/ pc[t] = "rttget" /\ pc'[t] = "unusable"
          \/ pc[t] = "rtt" /\ pc'[t] = "download"
      BY <1>1, <2>8 DEF RttFails, RttsReturn, Goes
    <3> QED
      BY <1>4, <1>5, <3>1, Ranks
  <2>9. CASE DownloadRequest(t)
    BY <2>9 DEF DownloadRequest, DownloadsDone
  <2>10. CASE RequestSent(t) \/ DownloadFails(t) \/ DownloadsReturn(t)
    <3>1. \/ pc[t] = "request" /\ pc'[t] = "get"
          \/ pc[t] = "get" /\ pc'[t] = "xoff"
          \/ pc[t] = "download" /\ pc'[t] = "xoff"
      BY <1>1, <2>10 DEF RequestSent, DownloadFails, DownloadsReturn, Goes
    <3> QED
      BY <1>4, <1>5, <3>1, Ranks
  <2>11. CASE Posted(t) \/ PostFails(t) \/ \E s \in Speeds : Downloaded(t, s)
    <3>1. \/ pc[t] = "post" /\ pc'[t] = "xoff"
          \/ pc[t] = "get" /\ pc'[t] = "download"
      BY <1>1, <2>11 DEF Posted, PostFails, Downloaded, Goes
    <3> QED
      BY <1>4, <1>5, <3>1, Ranks
  <2> QED
    BY <2>2, <2>3, <2>4, <2>5, <2>6, <2>7, <2>8, <2>9, <2>10, <2>11 DEF UsingStep
<1> QED
  BY <1>2, <1>3, <1>5

\* After stop_threads each step of a measurement brings it nearer to its end:
\* no other download, one retry at most.
THEOREM EndsOnceStoppedHolds == Spec => EndsOnceStopped
<1>1. ASSUME RelayInv, \A u \in Threads : PathInv(u), NEW t \in Threads,
             endEvent, MeasureRelay(t), pc'[t] # "idle"
      PROVE  Less(Remaining(t)', Remaining(t))
  <2>1. /\ CallTypes /\ PathInv(t) /\ call[t] \in CallRecords /\ call'[t] \in CallRecords
    <3>1. CallTypes'
      BY <1>1, ThreadTyped
    <3> QED
      BY <1>1, <3>1 DEF RelayInv, CallTypes
  <2>2. /\ Remaining(t) = <<Retries(t), Rank(pc[t]), Requests(t)>>
        /\ Remaining(t)' = <<Retries(t)', Rank(pc[t])', Requests(t)'>>
    BY DEF Remaining, Retries, Rank, Requests
  <2>3. \/ Retries(t)' < Retries(t)
        \/ Retries(t)' = Retries(t) /\ Rank(pc[t])' < Rank(pc[t])
        \/ /\ Retries(t)' = Retries(t) /\ Rank(pc[t])' = Rank(pc[t])
           /\ Requests(t)' < Requests(t)
    <3>1. CASE ChooseRole(t)
      <4>1. pc[t] = "session" /\ pc'[t] = "path"
        BY <2>1, <3>1, ChooseRoleEffects
      <4>2. Retries(t) = 1 /\ (Retries(t)' = 0 \/ Retries(t)' = 1)
        BY <2>1, <4>1 DEF PathInv, Retries
      <4> QED
        BY <4>1, <4>2, Ranks
    <3>2. CASE CreatePath(t)
      <4>1. pc[t] = "path" /\ pc'[t] = "build"
        BY <2>1, <3>2, CreatePathEffects
      <4>2. PICK helper \in Candidates(t) :
              call'[t] = [call[t] EXCEPT !.path = PathWith(call[t].relay, call[t].asEntry, helper)]
        BY <2>1, <3>2, CreatePathEffects
      <4>3. call'[t].asEntry = call[t].asEntry
        BY <2>1, <4>2 DEF CallRecords
      <4> QED
        BY <4>1, <4>3, Ranks DEF Retries
    <3>3. CASE BuildCircuit(t)
      <4>1. /\ pc[t] = "build" /\ pc'[t] \in {"upload", "connect"}
            /\ call'[t] = [call[t] EXCEPT !.circ = <<t, built[t] + 1>>,
                                          !.mine = @ \cup {<<t, built[t] + 1>>},
                                          !.refreshed = FALSE]
        BY <2>1, <3>3, BuildCircuitEffects
      <4>2. call'[t].asEntry = call[t].asEntry
        BY <2>1, <4>1 DEF CallRecords
      <4> QED
        BY <4>1, <4>2, Ranks DEF Retries
    <3>4. CASE UsingStep(t)
      BY <1>1, <3>4, UsingGoesOn
    <3>5. CASE ReturnStep(t) \/ CloseStep(t)
      BY <1>1, <2>1, <3>5, ReturnEffects, CloseEffects DEF ReturnEffect
    <3> QED
      BY <1>1, <3>1, <3>2, <3>3, <3>4, <3>5, Kinds
  <2> QED
    BY <2>2, <2>3, LessOfThree
<1>2. RelayInv /\ (\A t \in Threads : PathInv(t)) =>
        [\A t \in Threads :
           endEvent /\ MeasureRelay(t) /\ pc'[t] # "idle" => Less(Remaining(t)', Remaining(t))]_vars
  BY <1>1
<1> QED
  BY RelayInvariant, PathInvariant, <1>2, PTL DEF Spec, EndsOnceStopped

-----------------------------------------------------------------------------
(***************************************************************************)
(* Induction on sets of numbers, for what the amounts grow to. The         *)
(* theorems of the library on induction are about an operator; these are   *)
(* about a set, that a proof defines.                                      *)
(***************************************************************************)
\* The order of the numbers, as a relation.
LessThan == {p \in Nat \X Nat : p[1] < p[2]}

\* A set of numbers that is not empty has a least one.
LEMMA LeastNumber ==
  ASSUME NEW T \in SUBSET Nat, T # {}
  PROVE  \E x \in T : \A y \in T : x <= y
<1>1. IsWellFoundedOn(LessThan, Nat)
  <2>1. IsWellFoundedOn(OpToRel(<, Nat), Nat)
    BY NatLessThanWellFounded, Zenon
  <2>2. OpToRel(<, Nat) = LessThan
    BY Zenon DEF OpToRel, LessThan
  <2> QED
    BY <2>1, <2>2, Zenon
<1>2. PICK x \in T : \A y \in T : ~(<<y, x>> \in LessThan)
  BY <1>1, WFMin
<1>3. ASSUME NEW y \in T PROVE x <= y
  <2>1. x \in Nat /\ y \in Nat /\ <<y, x>> \in Nat \X Nat
    OBVIOUS
  <2>2. ~(y < x)
    BY <1>2, <2>1 DEF LessThan
  <2> QED
    BY <2>1, <2>2
<1> QED
  BY <1>3

\* A set that has 0, and n + 1 when it has n, has every number.
LEMMA NumbersByInduction ==
  ASSUME NEW T, 0 \in T, \A n \in Nat : n \in T => n + 1 \in T
  PROVE  \A n \in Nat : n \in T
<1> SUFFICES ASSUME Nat \ T # {} PROVE FALSE
  OBVIOUS
<1>1. PICK x \in Nat \ T : \A y \in Nat \ T : x <= y
  BY LeastNumber
<1>2. x # 0 /\ x \in Nat
  OBVIOUS
<1>3. x - 1 \in Nat /\ x - 1 < x /\ x = (x - 1) + 1
  BY <1>2
<1>4. x - 1 \in T
  BY <1>1, <1>3
<1> QED
  BY <1>3, <1>4

\* The steps from a value in S to the next, and that L of them can be made.
NextValues(L, S) == [1..L -> [S -> S]]
HasValues(L, S, base, step) ==
  \E f \in [0..L -> S] : f[0] = base /\ \A n \in 1..L : f[n] = step[n][f[n - 1]]

\* A sequence of values, each made of the one before, exists: what a recursive
\* function of the first numbers needs.
LEMMA ValuesByRecursion ==
  ASSUME NEW L \in Nat, NEW S, NEW base \in S, NEW step \in NextValues(L, S)
  PROVE  HasValues(L, S, base, step)
<1> USE DEF NextValues
<1> DEFINE Values(m, f) == f \in [0..m -> S] /\ f[0] = base /\ \A n \in 1..m : f[n] = step[n][f[n - 1]]
           T == {m \in Nat : m <= L => \E f : Values(m, f)}
<1>1. 0 \in T
  <2>1. Values(0, [n \in 0..0 |-> base])
    OBVIOUS
  <2> HIDE DEF Values
  <2> QED
    BY <2>1
<1>2. ASSUME NEW m \in Nat, m \in T PROVE m + 1 \in T
  <2> SUFFICES ASSUME m + 1 <= L PROVE \E f : Values(m + 1, f)
    OBVIOUS
  <2>1. m <= L
    OBVIOUS
  <2>2. PICK f : Values(m, f)
    BY <1>2, <2>1
  <2> DEFINE g == [n \in 0..m + 1 |-> IF n <= m THEN f[n] ELSE step[m + 1][f[m]]]
  <2>3. m \in 0..m /\ m + 1 \in 1..L /\ f[m] \in S
    BY <2>2
  <2>4. step[m + 1][f[m]] \in S
    BY <2>3
  <2>5. g \in [0..m + 1 -> S]
    <3>1. ASSUME NEW n \in 0..m + 1 PROVE (IF n <= m THEN f[n] ELSE step[m + 1][f[m]]) \in S
      <4>1. CASE n <= m
        <5>1. n \in 0..m
          BY <4>1
        <5> QED
          BY <2>2, <4>1, <5>1
      <4>2. CASE ~(n <= m)
        BY <2>4, <4>2
      <4> QED
        BY <4>1, <4>2
    <3> QED
      BY <3>1
  <2>6. \A n \in 0..m : g[n] = f[n]
    OBVIOUS
  <2>7. g[m + 1] = step[m + 1][f[m]]
    OBVIOUS
  <2> HIDE DEF g
  <2>8. ASSUME NEW n \in 1..m + 1 PROVE g[n] = step[n][g[n - 1]]
    <3>1. CASE n = m + 1
      <4>1. n - 1 = m
        BY <3>1
      <4> QED
        BY <2>3, <2>6, <2>7, <3>1, <4>1
    <3>2. CASE n # m + 1
      <4>1. n \in 1..m /\ n \in 0..m /\ n - 1 \in 0..m
        BY <3>2
      <4> QED
        BY <2>2, <2>6, <4>1
    <3> QED
      BY <3>1, <3>2
  <2>9. g[0] = base
    <3>1. 0 \in 0..m
      OBVIOUS
    <3> QED
      BY <2>2, <2>6, <3>1
  <2> QED
    BY <2>5, <2>8, <2>9
<1>3. L \in T
  <2> HIDE DEF T
  <2> QED
    BY <1>1, <1>2, NumbersByInduction
<1>4. PICK f : Values(L, f)
  BY <1>3
<1> QED
  BY <1>4 DEF HasValues

-----------------------------------------------------------------------------
(***************************************************************************)
(* The amounts of downloads at a steady speed.                             *)
(***************************************************************************)

\* Grown is defined.
LEMMA GrownValues ==
  /\ Grown[0] = MinDl
  /\ \A n \in 1..MaxProbes : Grown[n] = 5 * Grown[n - 1]
  /\ \A n \in 0..MaxProbes : Grown[n] \in Nat
<1> DEFINE L == MaxProbes
           Next0(f) == [n \in 0..L |-> IF n = 0 THEN MinDl ELSE 5 * f[n - 1]]
           step == [n \in 1..L |-> [m \in Nat |-> 5 * m]]
<1>1. L \in Nat /\ MinDl \in Nat
  BY CountsAssumption, SizesAssumption
<1>2. step \in NextValues(L, Nat)
  BY DEF NextValues
<1>3. PICK g \in [0..L -> Nat] : g[0] = MinDl /\ \A n \in 1..L : g[n] = step[n][g[n - 1]]
  <2> HIDE DEF step, L
  <2>1. HasValues(L, Nat, MinDl, step)
    BY <1>1, <1>2, ValuesByRecursion
  <2> QED
    BY <2>1 DEF HasValues
<1>4. ASSUME NEW n \in 1..L PROVE n - 1 \in 0..L /\ g[n - 1] \in Nat
  <2> HIDE DEF L, step
  <2>1. n - 1 \in 0..L
    BY <1>1
  <2> QED
    BY <2>1
<1>5. \A n \in 1..L : g[n] = 5 * g[n - 1]
  BY <1>3, <1>4
<1>6. g = Next0(g)
  <2>1. ASSUME NEW n \in 0..L PROVE g[n] = Next0(g)[n]
    <3>1. CASE n = 0
      BY <1>1, <1>3, <3>1
    <3>2. CASE n # 0
      <4>1. n \in 1..L
        BY <1>1, <3>2
      <4> QED
        BY <1>5, <3>2, <4>1
    <3> QED
      BY <3>1, <3>2
  <2> QED
    BY <2>1
<1>7. Grown = Next0(Grown)
  <2>1. \E f : f = Next0(f)
    BY <1>6
  <2>2. Grown = CHOOSE f : f = Next0(f)
    BY DEF Grown
  <2> QED
    BY <2>1, <2>2
<1>8. Grown[0] = MinDl
  <2>1. 0 \in 0..L
    BY <1>1
  <2> QED
    BY <1>7, <2>1
<1>9. ASSUME NEW n \in 1..L PROVE Grown[n] = 5 * Grown[n - 1]
  <2>1. n \in 0..L /\ n # 0
    BY <1>1
  <2> QED
    BY <1>7, <2>1
<1> DEFINE T == {n \in Nat : n <= L => Grown[n] \in Nat}
<1>10. 0 \in T
  BY <1>1, <1>8
<1>11. ASSUME NEW n \in Nat, n \in T PROVE n + 1 \in T
  <2> SUFFICES ASSUME n + 1 <= L PROVE Grown[n + 1] \in Nat
    OBVIOUS
  <2>1. n + 1 \in 1..L /\ (n + 1) - 1 = n /\ n <= L
    BY <1>1
  <2>2. Grown[n + 1] = 5 * Grown[n] /\ Grown[n] \in Nat
    BY <1>9, <1>11, <2>1
  <2> QED
    BY <2>2
<1>12. \A n \in Nat : n \in T
  <2> HIDE DEF T
  <2> QED
    BY <1>10, <1>11, NumbersByInduction
<1> QED
  BY <1>1, <1>8, <1>9, <1>12

\* The amounts, each made of the one before.
AreAmounts(a, amount, s) ==
  /\ a[0] = amount
  /\ \A n \in 0..MaxProbes : a[n] \in MinDl..MaxDl
  /\ \A n \in 1..MaxProbes : a[n] = NextExpectedAmount(a[n - 1], a[n - 1], s)

LEMMA AmountsValues ==
  ASSUME NEW amount \in MinDl..MaxDl, NEW s \in Speeds
  PROVE  AreAmounts(AmountsFrom(amount, s), amount, s)
<1> DEFINE L == MaxProbes
           S == MinDl..MaxDl
           After(b) == NextExpectedAmount(b, b, s)
           Next0(f) == [n \in 0..L |-> IF n = 0 THEN amount ELSE After(f[n - 1])]
           step == [n \in 1..L |-> [b \in S |-> After(b)]]
           a == AmountsFrom(amount, s)
<1>1. L \in Nat /\ amount \in S
  BY CountsAssumption
<1>2. \A b \in S : After(b) \in S
  BY NextExpectedAmountInRange
<1>3. a = CHOOSE f : f = Next0(f)
  BY DEF AmountsFrom
<1> HIDE DEF After, S, a
<1>4. step \in NextValues(L, S)
  BY <1>2 DEF NextValues
<1>5. PICK g \in [0..L -> S] : g[0] = amount /\ \A n \in 1..L : g[n] = step[n][g[n - 1]]
  <2> HIDE DEF step, L
  <2>1. HasValues(L, S, amount, step)
    BY <1>1, <1>4, ValuesByRecursion
  <2> QED
    BY <2>1 DEF HasValues
<1>6. ASSUME NEW n \in 1..L PROVE n - 1 \in 0..L /\ g[n - 1] \in S
  <2> HIDE DEF L, step
  <2>1. n - 1 \in 0..L
    BY <1>1
  <2> QED
    BY <2>1
<1>7. \A n \in 1..L : g[n] = After(g[n - 1])
  BY <1>5, <1>6
<1>8. g = Next0(g)
  <2>1. ASSUME NEW n \in 0..L PROVE g[n] = Next0(g)[n]
    <3>1. CASE n = 0
      BY <1>1, <1>5, <3>1
    <3>2. CASE n # 0
      <4>1. n \in 1..L
        BY <1>1, <3>2
      <4> QED
        BY <1>7, <3>2, <4>1
    <3> QED
      BY <3>1, <3>2
  <2> QED
    BY <2>1
<1>9. a = Next0(a)
  BY <1>3, <1>8
<1>10. a[0] = amount
  <2>1. 0 \in 0..L
    BY <1>1
  <2> QED
    BY <1>9, <2>1
<1>11. ASSUME NEW n \in 1..L PROVE a[n] = After(a[n - 1])
  <2>1. n \in 0..L /\ n # 0
    BY <1>1
  <2> QED
    BY <1>9, <2>1
<1> DEFINE T == {n \in Nat : n <= L => a[n] \in S}
<1>12. 0 \in T
  BY <1>1, <1>10
<1>13. ASSUME NEW n \in Nat, n \in T PROVE n + 1 \in T
  <2> SUFFICES ASSUME n + 1 <= L PROVE a[n + 1] \in S
    OBVIOUS
  <2>1. n + 1 \in 1..L /\ (n + 1) - 1 = n /\ n <= L
    BY <1>1
  <2>2. a[n + 1] = After(a[n]) /\ a[n] \in S
    BY <1>11, <1>13, <2>1
  <2> QED
    BY <1>2, <2>2
<1>14. \A n \in Nat : n \in T
  <2> HIDE DEF T
  <2> QED
    BY <1>12, <1>13, NumbersByInduction
<1>15. \A n \in 0..L : a[n] \in S
  BY <1>1, <1>14
<1> QED
  BY <1>10, <1>11, <1>15 DEF AreAmounts, After, S, a

\* A multiple is divided.
LEMMA Quotient ==
  ASSUME NEW n \in Nat, NEW d \in Nat \ {0}
  PROVE  (d * n) \div d = n
OBVIOUS

\* What a number is of the least and the most, when it is put between them.
LEMMA Between ==
  ASSUME NEW a \in Nat
  PROVE  LET b == Min({MaxDl, Max({MinDl, a})})
         IN  /\ b \in MinDl..MaxDl
             /\ b = MaxDl \/ b >= a
             /\ b <= a \/ b = MinDl
<1> DEFINE low == Max({MinDl, a})
           b == Min({MaxDl, low})
<1>1. MinDl \in Nat /\ MaxDl \in Nat /\ MinDl <= MaxDl
  BY SizesAssumption
<1>2. low \in {MinDl, a} /\ low >= MinDl /\ low >= a
  BY <1>1, MaxOfTwo
<1> HIDE DEF low
<1>3. low \in Nat
  BY <1>1, <1>2
<1>4. b \in {MaxDl, low} /\ b <= MaxDl /\ b <= low
  BY <1>1, <1>3, MinOfTwo
<1> HIDE DEF b
<1>5. b \in Nat
  BY <1>1, <1>3, <1>4
<1>6. /\ b \in MinDl..MaxDl /\ (b = MaxDl \/ b >= a) /\ (b <= a \/ b = MinDl)
  BY <1>1, <1>2, <1>3, <1>4, <1>5
<1> QED
  BY <1>6 DEF b, low

\* A download that is not too fast is kept, or the next one is: it is aimed at
\* the target.
LEMMA AimIsKept ==
  ASSUME NEW a \in MinDl..MaxDl, NEW s \in Speeds, TakesLess(MinDl, s, DlMax),
         ~TakesLess(a, s, TooFast), NEW b, b = NextExpectedAmount(a, a, s)
  PROVE  ShouldKeepResult(a, a, s) \/ ShouldKeepResult(b, b, s)
<1> DEFINE short  == DlMin * s
           target == DlTarget * s
           long   == DlMax * s
<1>1. /\ MinDl \in Nat \ {0} /\ MaxDl \in Nat /\ s \in Nat \ {0} /\ a \in Nat \ {0}
      /\ DlMin \in Nat /\ DlTarget \in Nat /\ DlMax \in Nat
      /\ DlMin <= DlTarget /\ DlTarget < DlMax
  BY SizesAssumption, TimesAssumption
<1>2. short \in Nat /\ target \in Nat /\ long \in Nat
  BY <1>1
<1>3. short <= target
  <2>1. DlTarget - DlMin \in Nat
    BY <1>1
  <2>2. (DlTarget - DlMin) * s \in Nat
    BY <1>1, <2>1
  <2>3. target = short + (DlTarget - DlMin) * s
    BY <1>1
  <2> QED
    BY <1>2, <2>2, <2>3
<1>4. target < long
  <2>1. DlMax - DlTarget \in Nat \ {0}
    BY <1>1
  <2>2. (DlMax - DlTarget) * s \in Nat \ {0}
    BY <1>1, <2>1
  <2>3. long = target + (DlMax - DlTarget) * s
    BY <1>1
  <2> QED
    BY <1>2, <2>2, <2>3
<1>5. (a * DlTarget * s) \div a = target
  <2>1. a * DlTarget * s = a * target
    BY <1>1
  <2>2. (a * target) \div a = target
    <3> HIDE DEF target
    <3> QED
      BY <1>1, <1>2, Quotient
  <2> QED
    BY <2>1, <2>2
<1>6. /\ \A c \in Nat : TakesLess(c, s, DlMin) <=> c < short
      /\ \A c \in Nat : TakesLess(c, s, DlMax) <=> c < long
  BY DEF TakesLess
<1>7. MinDl < long
  BY <1>1, <1>6
<1>8. CASE ~(a < short) /\ a < long
  BY <1>1, <1>6, <1>8 DEF ShouldKeepResult
<1>9. CASE a < short \/ ~(a < long)
  <2>1. b = Min({MaxDl, Max({MinDl, target})})
    BY <1>1, <1>5, <1>6, <1>9 DEF NextExpectedAmount
  <2> HIDE DEF short, target, long
  <2>2. /\ b \in MinDl..MaxDl /\ (b = MaxDl \/ b >= target) /\ (b <= target \/ b = MinDl)
    BY <1>2, <2>1, Between
  <2>3. b \in Nat
    BY <1>1, <2>2
  <2>4. b < long
    BY <1>1, <1>2, <1>4, <1>7, <2>2, <2>3
  <2>5. b = MaxDl \/ ~(b < short)
    BY <1>2, <1>3, <2>2, <2>3
  <2>6. TakesLess(b, s, DlMax) /\ (b = MaxDl \/ ~TakesLess(b, s, DlMin))
    BY <1>6, <2>3, <2>4, <2>5
  <2> QED
    BY <2>6 DEF ShouldKeepResult
<1> QED
  BY <1>8, <1>9

\* After one that is too fast there are five times as many bytes, or the most.
LEMMA AmountGrows ==
  ASSUME NEW a \in MinDl..MaxDl, NEW s \in Speeds, TakesLess(a, s, TooFast),
         NEW b, b = NextExpectedAmount(a, a, s)
  PROVE  b = MaxDl \/ b >= 5 * a
<1>1. 5 * a \in Nat
  BY SizesAssumption
<1>2. b = Min({MaxDl, Max({MinDl, 5 * a})})
  BY DEF NextExpectedAmount
<1> QED
  BY <1>1, <1>2, Between

\* The most that can be downloaded is kept when it is too fast.
LEMMA MostIsKept ==
  ASSUME NEW s \in Speeds, TakesLess(MaxDl, s, TooFast)
  PROVE  ShouldKeepResult(MaxDl, MaxDl, s)
<1>1. MaxDl \in Nat /\ s \in Nat /\ TooFast \in Nat /\ DlMax \in Nat /\ DlMax - TooFast \in Nat
  BY SizesAssumption, TimesAssumption
<1>2. TooFast * s \in Nat /\ (DlMax - TooFast) * s \in Nat
  BY <1>1
<1>3. DlMax * s = TooFast * s + (DlMax - TooFast) * s
  BY <1>1
<1>4. MaxDl < TooFast * s
  BY DEF TakesLess
<1>5. MaxDl < DlMax * s
  BY <1>1, <1>2, <1>3, <1>4
<1> QED
  BY <1>5 DEF ShouldKeepResult, TakesLess

\* At any steady speed that is enough for the least amount, and from any amount,
\* one of MaxProbes downloads is kept.
LEMMA SomeIsKept ==
  ASSUME NEW amount \in MinDl..MaxDl, NEW s \in Speeds, TakesLess(MinDl, s, DlMax),
         NEW a, AreAmounts(a, amount, s)
  PROVE  \E n \in 0..MaxProbes : ShouldKeepResult(a[n], a[n], s)
<1> SUFFICES ASSUME \A n \in 0..MaxProbes : ~ShouldKeepResult(a[n], a[n], s) PROVE FALSE
  OBVIOUS
<1>1. /\ MaxProbes \in Nat /\ MaxProbes > 0 /\ MinDl \in Nat /\ MaxDl \in Nat
      /\ Grown[MaxProbes - 1] >= MaxDl
  BY CountsAssumption, SizesAssumption, ProbesAssumption
<1>2. /\ a[0] = amount /\ \A n \in 0..MaxProbes : a[n] \in MinDl..MaxDl
      /\ \A n \in 1..MaxProbes : a[n] = NextExpectedAmount(a[n - 1], a[n - 1], s)
  BY DEF AreAmounts
<1>3. ASSUME NEW n \in Nat, n + 1 <= MaxProbes
      PROVE  /\ n \in 0..MaxProbes /\ a[n] \in MinDl..MaxDl
             /\ n + 1 \in 1..MaxProbes /\ n + 1 \in 0..MaxProbes
             /\ a[n + 1] = NextExpectedAmount(a[n], a[n], s)
  <2>1. n \in 0..MaxProbes /\ n + 1 \in 1..MaxProbes /\ (n + 1) - 1 = n /\ n + 1 \in 0..MaxProbes
    BY <1>1, <1>3
  <2> QED
    BY <1>2, <2>1
<1>4. ASSUME NEW n \in Nat, n + 1 <= MaxProbes PROVE TakesLess(a[n], s, TooFast)
  BY <1>3, <1>4, AimIsKept
<1> DEFINE T == {n \in Nat : n + 1 <= MaxProbes => a[n] >= Grown[n]}
<1>5. 0 \in T
  BY <1>2, <1>1, GrownValues
<1>6. ASSUME NEW n \in Nat, n \in T PROVE n + 1 \in T
  <2> SUFFICES ASSUME (n + 1) + 1 <= MaxProbes PROVE a[n + 1] >= Grown[n + 1]
    OBVIOUS
  <2>1. n + 1 \in Nat /\ n + 1 <= MaxProbes
    BY <1>1
  <2>2. a[n] >= Grown[n]
    BY <1>6, <2>1
  <2>3. /\ n \in 0..MaxProbes /\ a[n] \in MinDl..MaxDl /\ n + 1 \in 1..MaxProbes
        /\ n + 1 \in 0..MaxProbes /\ a[n + 1] = NextExpectedAmount(a[n], a[n], s)
    BY <1>3, <2>1
  <2>4. TakesLess(a[n], s, TooFast) /\ TakesLess(a[n + 1], s, TooFast)
    BY <1>4, <2>1
  <2>5. a[n + 1] # MaxDl
    BY <2>3, <2>4, MostIsKept
  <2>6. a[n + 1] >= 5 * a[n]
    BY <2>3, <2>4, <2>5, AmountGrows
  <2>7. Grown[n + 1] = 5 * Grown[n] /\ Grown[n] \in Nat
    <3>1. (n + 1) - 1 = n
      OBVIOUS
    <3> QED
      BY <2>3, <3>1, GrownValues
  <2>8. a[n] \in Nat /\ a[n + 1] \in Nat
    BY <1>1, <1>2, <2>3
  <2> QED
    BY <2>2, <2>6, <2>7, <2>8
<1>7. \A n \in Nat : n \in T
  <2> HIDE DEF T
  <2> QED
    BY <1>5, <1>6, NumbersByInduction
<1>8. MaxProbes - 1 \in Nat /\ (MaxProbes - 1) + 1 <= MaxProbes /\ MaxProbes - 1 \in 0..MaxProbes
  BY <1>1
<1>9. a[MaxProbes - 1] >= Grown[MaxProbes - 1]
  BY <1>7, <1>8
<1>10. a[MaxProbes - 1] \in MinDl..MaxDl /\ Grown[MaxProbes - 1] \in Nat
  BY <1>2, <1>8, GrownValues
<1>11. a[MaxProbes - 1] = MaxDl
  BY <1>1, <1>9, <1>10
<1> QED
  BY <1>4, <1>8, <1>11, MostIsKept

\* Wherever the loop of measure_bandwidth_to_server is, at a steady speed that is
\* enough for the least amount one of MaxProbes downloads is kept: as many as it
\* takes to grow by five from the least amount to the most, and one more.
THEOREM SteadySpeedIsMeasuredHolds == Spec => []SteadySpeedIsMeasured
<1>1. RelayInv => SteadySpeedIsMeasured
  <2> SUFFICES ASSUME RelayInv, NEW t \in Threads, NEW s \in Speeds, TakesLess(MinDl, s, DlMax)
               PROVE  \E n \in 0..MaxProbes :
                        ShouldKeepResult(AmountsFrom(call[t].amount, s)[n],
                                         AmountsFrom(call[t].amount, s)[n], s)
    BY DEF SteadySpeedIsMeasured
  <2>1. call[t].amount \in MinDl..MaxDl
    <3>1. call[t] \in CallRecords
      BY DEF RelayInv, CallTypes
    <3> QED
      BY <3>1 DEF CallRecords
  <2> QED
    BY <2>1, AmountsValues, SomeIsKept
<1> QED
  BY RelayInvariant, <1>1, PTL

=============================================================================
