------------------------------ MODULE Scanner ------------------------------
(***************************************************************************)
(* The scanner process of sbws: the main thread (run_speedtest, main_loop, *)
(* process_completed_futures and, inside it, the SIGTERM handler), the     *)
(* pool of measurer threads and the ResultDump thread, which share         *)
(* settings.end_event, the ResultDump queue and its mutex, and             *)
(* ResultDump.data with its lock.                                          *)
(*                                                                         *)
(* A signal handler runs in the main thread, on top of whatever that       *)
(* thread was doing, with the locks it was holding: Sigterm is enabled at  *)
(* every step of the main thread and interruptedAt keeps where it struck.  *)
(***************************************************************************)
EXTENDS Naturals, Sequences, FiniteSets

CONSTANTS
  Relays,              \* fingerprints of the relays in the consensus
  MeasurementThreads,  \* option measurement_threads, workers of the executor
  TestingTorNetwork,   \* the tor option: exit after the first loop
  MaxRounds            \* bound: iterations of main_loop that are explored

ASSUME RelaysAssumption == Relays # {}
ASSUME ThreadsAssumption == MeasurementThreads \in Nat \ {0}
ASSUME TestingAssumption == TestingTorNetwork \in BOOLEAN
ASSUME RoundsAssumption == MaxRounds \in Nat

VARIABLES
  endEvent,       \* settings.end_event
  mainPc,         \* where the main thread is
  interruptedAt,  \* where SIGTERM struck it, "nowhere" before that
  round,          \* iterations of main_loop begun
  ranked,         \* relays best_priority has asked the results of
  future,         \* per relay, the state of its Future in pending_results
  current,        \* what the main thread is putting in the queue
  queue,          \* ResultDump.queue
  queueLock,      \* owner of its mutex when that outlives a step
  dataLock,       \* owner of ResultDump.data_lock
  rdPc,           \* where the ResultDump thread is
  rdItem,         \* the queue item it is handling
  data,           \* ResultDump.data
  disk,           \* results in the files of the datadir
  oldest,         \* results of rounds before this one are past data_period
  \* History of what became of the measurements
  launched,       \* attempts submitted, [relay, round]
  accepted,       \* results that were put in the queue
  ignored,        \* errors dropped because the scanner is stopping
  unwritten,      \* results whose write to the datadir raised
  lateError,      \* whether an error was written after end_event was set
  loadFailed      \* whether reading the datadir killed the ResultDump thread

mainVars    == <<mainPc, interruptedAt, round, ranked, current>>
rdVars      == <<rdPc, rdItem, data, disk>>
historyVars == <<launched, accepted, ignored, unwritten, lateError, loadFailed>>
vars == <<endEvent, mainVars, future, queue, queueLock, dataLock, rdVars,
          oldest, historyVars>>

(***************************************************************************)
(* Values.                                                                 *)
(***************************************************************************)
ErrorKinds == {"error", "destination"}
Kinds      == {"success"} \cup ErrorKinds
Result     == [relay : Relays, round : 0..MaxRounds, kind : Kinds]
Attempt    == [relay : Relays, round : 0..MaxRounds]
\* What measure_relay returns is a list of one Result, or None ("nothing").
Item       == [relay : Relays, round : 0..MaxRounds, kind : Kinds \cup {"nothing"}]
NoItem     == [relay |-> "none", round |-> 0, kind |-> "nothing"]

Outcomes     == Kinds \cup {"nothing", "raised"}
FutureStates == {"idle", "pending", "running", "taken"} \cup Outcomes

MainPcs == {"start", "construct", "loop", "rank", "ranking", "collect", "put",
            "putting", "put_done", "failing", "finished", "join", "exiting",
            "exited"}
RdPcs   == {"unborn", "start", "loading", "check", "empty", "get", "filter",
            "store", "write", "report", "exited"}

\* The type attribute of a Result: ResultErrorDestination.type returns
\* _ResultType.ErrorSecondRelay.
ResultType(result) ==
  CASE result.kind = "success"     -> "success"
    [] result.kind = "error"       -> "error-misc"
    [] result.kind = "destination" -> "error-second-relay"

AttemptOf(result) == [relay |-> result.relay, round |-> result.round]

\* Mutant of TrimResults: > for >=.
TrimMore(results) == {r \in results : r.round > oldest}

\* What is left of results once those older than data_period are removed.
TrimResults(results) == {r \in results : r.round >= oldest}

\* Mutant of HasResult: no except clause around future.result().
IsDone(r) == future[r] \in Outcomes

\* future.result() returns for r.
HasResult(r) == future[r] \in Outcomes \ {"raised"}

\* Mutant of TakeFuture: the future is yielded again.
LeaveFuture(r) == UNCHANGED future

\* as_completed yields each future once.
TakeFuture(r) == future' = [future EXCEPT ![r] = "taken"]

Dequeue == queue' = Tail(queue)

\* Mutant of ReleaseDataLock: acquire() with no release().
KeepDataLock == UNCHANGED dataLock

\* The end of a with block on data_lock, on every way out of it.
ReleaseDataLock == dataLock' = "free"

\* Mutant of IsIgnored: end_event is not looked at.
NothingIsIgnored == FALSE

\* isinstance(result, ResultError) and settings.end_event.is_set()
IsIgnored == rdItem.kind \in ErrorKinds /\ endEvent

\* Futures whose worker has not returned, which ThreadPoolExecutor waits for
\* when its with block is left.
Unfinished == {r \in Relays : future[r] \in {"pending", "running"}}

\* The process ends when neither of its lasting threads runs any more: the
\* ResultDump thread is not a daemon, so the interpreter waits for it.
ProcessGone ==
  /\ mainPc \in {"finished", "exited"}
  /\ rdPc \in {"unborn", "exited"}

Init ==
  /\ endEvent = FALSE
  /\ mainPc = "start" /\ interruptedAt = "nowhere"
  /\ round = 0 /\ ranked = {} /\ current = NoItem
  /\ future = [r \in Relays |-> "idle"]
  /\ queue = <<>> /\ queueLock = "free" /\ dataLock = "free"
  /\ rdPc = "unborn" /\ rdItem = NoItem /\ data = {}
  /\ disk \in SUBSET [relay : Relays, round : {0}, kind : {"success"}]
  /\ oldest = 0
  /\ launched = {} /\ accepted = {} /\ ignored = {} /\ unwritten = {}
  /\ lateError = FALSE /\ loadFailed = FALSE

-----------------------------------------------------------------------------
(***************************************************************************)
(* The main thread.                                                        *)
(***************************************************************************)
MainGoes(from, to) ==
  /\ mainPc = from
  /\ mainPc' = to
  /\ UNCHANGED <<interruptedAt, endEvent>>

\* What the steps of run_speedtest and main_loop do not write.
MainLeaves == UNCHANGED <<rdItem, data, disk, oldest, ignored, unwritten,
                          lateError, loadFailed>>

\* run_speedtest constructs ResultDump, whose __init__ starts the thread...
StartResultDump ==
  /\ MainGoes("start", "construct")
  /\ rdPc' = "start"
  /\ MainLeaves
  /\ UNCHANGED <<round, ranked, current, future, queue, queueLock, dataLock,
                 launched, accepted>>

\* ...and only then is the global rd bound to it. main_loop follows.
BindResultDump ==
  /\ MainGoes("construct", "loop")
  /\ MainLeaves
  /\ UNCHANGED <<round, ranked, current, future, queue, queueLock, dataLock,
                 rdPc, launched, accepted>>

\* while not settings.end_event.is_set(): another iteration, or main_loop,
\* run_speedtest and main return.
BeginRound ==
  /\ IF endEvent
     THEN MainGoes("loop", "finished") /\ UNCHANGED <<round, ranked>>
     ELSE /\ MainGoes("loop", "rank")
          /\ round < MaxRounds
          /\ round' = round + 1
          /\ ranked' = {}
  /\ MainLeaves
  /\ UNCHANGED <<current, future, queue, queueLock, dataLock, rdPc, launched,
                 accepted>>

\* best_priority asks for the results of every relay; results_for_relay holds
\* data_lock meanwhile.
ResultsForRelay(r) ==
  /\ MainGoes("rank", "ranking")
  /\ r \notin ranked
  /\ dataLock = "free"
  /\ dataLock' = "main"
  /\ ranked' = ranked \cup {r}
  /\ MainLeaves
  /\ UNCHANGED <<round, current, future, queue, queueLock, rdPc, launched,
                 accepted>>

ResultsForRelayReturns ==
  /\ MainGoes("ranking", "rank")
  /\ ReleaseDataLock
  /\ MainLeaves
  /\ UNCHANGED <<round, ranked, current, future, queue, queueLock, rdPc,
                 launched, accepted>>

\* The relays with the best priority, whichever they are, are submitted.
Submit(batch) ==
  /\ MainGoes("rank", "collect")
  /\ ranked = Relays
  /\ batch # {}
  /\ future' = [r \in Relays |-> IF r \in batch THEN "pending" ELSE "idle"]
  /\ launched' = launched \cup [relay : batch, round : {round}]
  /\ MainLeaves
  /\ UNCHANGED <<round, ranked, current, queue, queueLock, dataLock, rdPc,
                 accepted>>

\* process_completed_futures: a future is done and has a result.
Collect(r) ==
  /\ MainGoes("collect", "put")
  /\ HasResult(r)
  /\ TakeFuture(r)
  /\ current' = [relay |-> r, round |-> round, kind |-> future[r]]
  /\ MainLeaves
  /\ UNCHANGED <<round, ranked, queue, queueLock, dataLock, rdPc, launched,
                 accepted>>

\* future.result() raises: log_measurement_exception returns at once when the
\* scanner is stopping; otherwise its "".join(three arguments) raises
\* TypeError, which nothing catches before run_speedtest.
CollectException(r) ==
  /\ MainGoes("collect", IF endEvent THEN "collect" ELSE "failing")
  /\ future[r] = "raised"
  /\ TakeFuture(r)
  /\ MainLeaves
  /\ UNCHANGED <<round, ranked, current, queue, queueLock, dataLock, rdPc,
                 launched, accepted>>

\* The exception leaves the with blocks of the executor, which wait for the
\* workers; run_speedtest logs it and returns, and so does main.
FailureLogged ==
  /\ MainGoes("failing", "finished")
  /\ Unfinished = {}
  /\ MainLeaves
  /\ UNCHANGED <<round, ranked, current, future, queue, queueLock, dataLock,
                 rdPc, launched, accepted>>

\* measurement_writer: Queue.put takes the mutex, appends, and releases it.
\* The queue is unbounded, so queue.Full never happens.
PutLock ==
  /\ MainGoes("put", "putting")
  /\ queueLock = "free"
  /\ queueLock' = "main"
  /\ MainLeaves
  /\ UNCHANGED <<round, ranked, current, future, queue, dataLock, rdPc,
                 launched, accepted>>

PutAppend ==
  /\ MainGoes("putting", "put_done")
  /\ queue' = Append(queue, current)
  /\ current' = NoItem
  /\ accepted' = accepted \cup {i \in {current} : i.kind # "nothing"}
  /\ MainLeaves
  /\ UNCHANGED <<round, ranked, future, queueLock, dataLock, rdPc, launched>>

PutUnlock ==
  /\ MainGoes("put_done", "collect")
  /\ queueLock' = "free"
  /\ MainLeaves
  /\ UNCHANGED <<round, ranked, current, future, queue, dataLock, rdPc,
                 launched, accepted>>

\* All the futures were yielded. In a testing network the loop ends in
\* stop_threads, called and not signalled.
EndRound ==
  /\ IF TestingTorNetwork
     THEN /\ mainPc = "collect" /\ mainPc' = "join"
          /\ endEvent' = TRUE
          /\ interruptedAt' = "end_of_round"
     ELSE MainGoes("collect", "loop")
  /\ \A r \in Relays : future[r] \in {"idle", "taken"}
  /\ future' = [r \in Relays |-> "idle"]
  /\ MainLeaves
  /\ UNCHANGED <<round, ranked, current, queue, queueLock, dataLock, rdPc,
                 launched, accepted>>

\* stop_threads on SIGTERM. Until rd is bound rd.thread raises AttributeError
\* in the main thread, after end_event was set. A second signal only nests
\* the same handler and is left out.
Sigterm ==
  /\ mainPc \notin {"join", "exiting", "exited"}
  /\ ~ProcessGone
  /\ endEvent' = TRUE
  /\ interruptedAt' = mainPc
  /\ mainPc' = IF mainPc \in {"start", "construct"} THEN "exiting" ELSE "join"
  /\ MainLeaves
  /\ UNCHANGED <<round, ranked, current, future, queue, queueLock, dataLock,
                 rdPc, launched, accepted>>

\* rd.thread.join(), controller.close() and sys.exit.
JoinResultDump ==
  /\ MainGoes("join", "exiting")
  /\ rdPc = "exited"
  /\ MainLeaves
  /\ UNCHANGED <<round, ranked, current, future, queue, queueLock, dataLock,
                 rdPc, launched, accepted>>

\* The exception of the handler unwinds the main thread: its locks are
\* released and the executor waits for the workers.
Unwind ==
  /\ MainGoes("exiting", "exited")
  /\ Unfinished = {}
  /\ queueLock' = "free"
  /\ dataLock' = IF dataLock = "main" THEN "free" ELSE dataLock
  /\ MainLeaves
  /\ UNCHANGED <<round, ranked, current, future, queue, rdPc, launched, accepted>>

-----------------------------------------------------------------------------
(***************************************************************************)
(* The measurer threads of the executor.                                   *)
(***************************************************************************)
WorkerLeaves == UNCHANGED <<endEvent, mainVars, queue, queueLock, dataLock,
                            rdVars, oldest, historyVars>>

\* dispatch_worker_thread: nothing is measured when the scanner is stopping
\* or, at that moment, no destination is functional.
Dispatch(r) ==
  /\ future[r] = "pending"
  /\ Cardinality({s \in Relays : future[s] = "running"}) < MeasurementThreads
  /\ \/ ~endEvent /\ future' = [future EXCEPT ![r] = "running"]
     \/ future' = [future EXCEPT ![r] = "nothing"]
  /\ WorkerLeaves

\* measure_relay returns a list of one Result, None when there is no session
\* because the scanner is stopping, or raises. A measurement cut short by
\* end_event is still returned as a success.
Measured(r, outcome) ==
  /\ future[r] = "running"
  /\ outcome = "nothing" => endEvent
  /\ future' = [future EXCEPT ![r] = outcome]
  /\ WorkerLeaves

-----------------------------------------------------------------------------
(***************************************************************************)
(* The ResultDump thread, ResultDump.enter.                                *)
(***************************************************************************)
RdGoes(from, to) == rdPc = from /\ rdPc' = to

\* What the steps of this thread do not write.
RdLeaves == UNCHANGED <<mainVars, future, queueLock, oldest, launched, accepted>>

LoadStart ==
  /\ RdGoes("start", "loading")
  /\ dataLock = "free"
  /\ dataLock' = "rd"
  /\ RdLeaves
  /\ UNCHANGED <<endEvent, queue, rdItem, data, disk, ignored, unwritten,
                 lateError, loadFailed>>

\* load_recent_results_in_datadir
Load ==
  /\ RdGoes("loading", "check")
  /\ data' = TrimResults(disk)
  /\ ReleaseDataLock
  /\ RdLeaves
  /\ UNCHANGED <<endEvent, queue, rdItem, disk, ignored, unwritten, lateError,
                 loadFailed>>

\* A file that cannot be opened, decoded or made into Results (from_dict
\* raises KeyError and NotImplementedError) ends the thread.
LoadRaises ==
  /\ RdGoes("loading", "exited")
  /\ ReleaseDataLock
  /\ loadFailed' = TRUE
  /\ RdLeaves
  /\ UNCHANGED <<endEvent, queue, rdItem, data, disk, ignored, unwritten,
                 lateError>>

\* Mutant of CheckEndEvent: while not end_event.is_set(), whatever is queued.
CheckEndEventOnly ==
  /\ RdGoes("check", IF endEvent THEN "exited" ELSE "get")
  /\ RdLeaves
  /\ UNCHANGED <<endEvent, queue, dataLock, rdItem, data, disk, ignored,
                 unwritten, lateError, loadFailed>>

\* while not (end_event.is_set() and queue.empty()): the two are read one
\* after the other, the second under the mutex of the queue.
CheckEndEvent ==
  /\ RdGoes("check", IF endEvent THEN "empty" ELSE "get")
  /\ RdLeaves
  /\ UNCHANGED <<endEvent, queue, dataLock, rdItem, data, disk, ignored,
                 unwritten, lateError, loadFailed>>

CheckEmpty ==
  /\ RdGoes("empty", IF queue = <<>> THEN "exited" ELSE "get")
  /\ queueLock = "free"
  /\ RdLeaves
  /\ UNCHANGED <<endEvent, queue, dataLock, rdItem, data, disk, ignored,
                 unwritten, lateError, loadFailed>>

\* queue.get(timeout=1); None is skipped.
Get ==
  /\ queueLock = "free"
  /\ queue # <<>>
  /\ Dequeue
  /\ IF Head(queue).kind = "nothing"
     THEN RdGoes("get", "check") /\ UNCHANGED rdItem
     ELSE RdGoes("get", "filter") /\ rdItem' = Head(queue)
  /\ RdLeaves
  /\ UNCHANGED <<endEvent, dataLock, data, disk, ignored, unwritten, lateError,
                 loadFailed>>

\* Mutant of GetTimeout: queue.get() without a timeout blocks.
GetBlocks ==
  /\ rdPc = "get"
  /\ queue = <<>>
  /\ UNCHANGED vars

\* It raises Empty after a second. To do so it needs the mutex back.
GetTimeout ==
  /\ RdGoes("get", "check")
  /\ queueLock = "free"
  /\ queue = <<>>
  /\ RdLeaves
  /\ UNCHANGED <<endEvent, queue, dataLock, rdItem, data, disk, ignored,
                 unwritten, lateError, loadFailed>>

\* handle_result drops the errors that arrive when the scanner is stopping...
IgnoreError ==
  /\ RdGoes("filter", "check")
  /\ IsIgnored
  /\ rdItem' = NoItem
  /\ ignored' = ignored \cup {rdItem}
  /\ RdLeaves
  /\ UNCHANGED <<endEvent, queue, dataLock, data, disk, unwritten, lateError,
                 loadFailed>>

KeepResult ==
  /\ RdGoes("filter", "store")
  /\ ~IsIgnored
  /\ RdLeaves
  /\ UNCHANGED <<endEvent, queue, dataLock, rdItem, data, disk, ignored,
                 unwritten, lateError, loadFailed>>

\* ...and store_result keeps the others in memory, under data_lock.
StoreResult ==
  /\ RdGoes("store", "write")
  /\ dataLock = "free"
  /\ data' = TrimResults(data \cup {rdItem})
  /\ RdLeaves
  /\ UNCHANGED <<endEvent, queue, dataLock, rdItem, disk, ignored, unwritten,
                 lateError, loadFailed>>

\* write_result_to_datadir appends a line to the file of the day; an
\* exception is logged and forgotten.
WriteResult(written) ==
  /\ RdGoes("write", "report")
  /\ disk' = IF written THEN disk \cup {rdItem} ELSE disk
  /\ unwritten' = IF written THEN unwritten ELSE unwritten \cup {rdItem}
  /\ lateError' = (lateError \/ (written /\ IsIgnored))
  /\ RdLeaves
  /\ UNCHANGED <<endEvent, queue, dataLock, rdItem, data, ignored, loadFailed>>

\* The end of handle_result: an error-destination sets end_event.
ReportResult ==
  /\ RdGoes("report", "check")
  /\ rdItem' = NoItem
  /\ endEvent' = (endEvent \/ ResultType(rdItem) = "error-destination")
  /\ RdLeaves
  /\ UNCHANGED <<queue, dataLock, data, disk, ignored, unwritten, lateError,
                 loadFailed>>

-----------------------------------------------------------------------------
\* Days pass: the results of one more round become older than data_period.
Age ==
  /\ ~ProcessGone
  /\ oldest < round
  /\ oldest' = oldest + 1
  /\ UNCHANGED <<endEvent, mainVars, future, queue, queueLock, dataLock, rdVars,
                 historyVars>>

MainStep ==
  \/ StartResultDump \/ BindResultDump
  \/ BeginRound
  \/ \E r \in Relays : ResultsForRelay(r)
  \/ ResultsForRelayReturns
  \/ \E batch \in SUBSET Relays : Submit(batch)
  \/ \E r \in Relays : Collect(r) \/ CollectException(r)
  \/ FailureLogged
  \/ PutLock \/ PutAppend \/ PutUnlock
  \/ EndRound
  \/ JoinResultDump \/ Unwind

WorkerStep(r) == Dispatch(r) \/ \E outcome \in Outcomes : Measured(r, outcome)

ResultDumpStep ==
  \/ LoadStart \/ Load \/ LoadRaises
  \/ CheckEndEvent \/ CheckEmpty
  \/ Get \/ GetTimeout
  \/ IgnoreError \/ KeepResult \/ StoreResult
  \/ \E written \in BOOLEAN : WriteResult(written)
  \/ ReportResult

Next ==
  \/ MainStep
  \/ \E r \in Relays : WorkerStep(r)
  \/ ResultDumpStep
  \/ Sigterm
  \/ Age

\* The threads are scheduled, and a measurement ends because each of its
\* requests has a timeout. Weak fairness is enough: the critical sections of
\* the ResultDump thread end without anyone's help, and the main thread holds
\* a lock only finitely often in a round. SIGTERM and the passing of days are
\* owed to nobody.
Fairness ==
  /\ WF_vars(MainStep)
  /\ WF_vars(ResultDumpStep)
  /\ \A r \in Relays : WF_vars(WorkerStep(r))

Spec == Init /\ [][Next]_vars /\ Fairness

-----------------------------------------------------------------------------
(***************************************************************************)
(* Properties.                                                             *)
(***************************************************************************)

\* The type of every variable.
TypeOK ==
  /\ endEvent \in BOOLEAN
  /\ mainPc \in MainPcs
  /\ interruptedAt \in MainPcs \cup {"nowhere", "end_of_round"}
  /\ round \in 0..MaxRounds
  /\ ranked \in SUBSET Relays
  /\ future \in [Relays -> FutureStates]
  /\ current \in Item \cup {NoItem}
  /\ queue \in Seq(Item)
  /\ queueLock \in {"free", "main"}
  /\ dataLock \in {"free", "main", "rd"}
  /\ rdPc \in RdPcs
  /\ rdItem \in Item \cup {NoItem}
  /\ data \in SUBSET Result
  /\ disk \in SUBSET Result
  /\ oldest \in 0..MaxRounds
  /\ launched \in SUBSET Attempt
  /\ accepted \in SUBSET Result
  /\ ignored \in SUBSET Result
  /\ unwritten \in SUBSET Result
  /\ lateError \in BOOLEAN
  /\ loadFailed \in BOOLEAN

Queued  == {queue[i] : i \in {j \in DOMAIN queue : queue[j].kind # "nothing"}}
\* The result the ResultDump thread took and has not disposed of yet.
InHand  == IF rdPc \in {"filter", "store", "write"} THEN {rdItem} ELSE {}
Settled == ignored \cup unwritten \cup {r \in disk : r.round > 0}

\* Between the future and the datadir, over the queue and the two threads, no
\* result is lost, duplicated or invented: each result that was put in the
\* queue is in it, in the hands of the ResultDump thread, written, unwritable
\* or ignored, in one of these places only.
EachResultAccountedFor ==
  /\ accepted = Queued \cup InHand \cup Settled
  /\ Queued \cap InHand = {} /\ Queued \cap Settled = {} /\ InHand \cap Settled = {}
  /\ ignored \cap unwritten = {} /\ ignored \cap disk = {} /\ unwritten \cap disk = {}
  /\ \A i, j \in DOMAIN queue :
        i # j => AttemptOf(queue[i]) # AttemptOf(queue[j])

\* The shutdown sequence (end_event is set, then the ResultDump thread is
\* joined) loses no success that was put in the queue before it: unless it
\* could not load the datadir, that thread ends with every one of them
\* written, or with the failed write reported.
NoQueuedSuccessLost ==
  (rdPc = "exited" /\ ~loadFailed) =>
     \A r \in accepted : r.kind = "success" => r \in disk \cup unwritten

\* What best_priority sees agrees with the datadir: once loaded, every result
\* of the files that is young enough is in memory, and whatever is in memory
\* is in the files but for a write that failed or is under way.
MemoryMatchesDatadir ==
  rdPc \notin {"unborn", "start", "loading"} /\ ~loadFailed =>
     /\ {r \in disk : r.round >= oldest} \subseteq data
     /\ data \subseteq disk \cup unwritten \cup InHand

\* The scanner implements MeasurementLog.
Log == INSTANCE MeasurementLog WITH
         log <- disk, stopping <- endEvent, late <- lateError
ImplementsMeasurementLog == Log!Spec

\* A SIGTERM that does not strike inside a critical section of the main
\* thread ends the process, whatever the queue, the workers and the ResultDump
\* thread are at.
CriticalSections == {"ranking", "putting", "put_done"}
SigtermOutsideLocksExits ==
  (mainPc \in {"join", "exiting"} /\ interruptedAt \notin CriticalSections)
     ~> ProcessGone

\* Every round of main_loop ends, with no help from a timeout of the main
\* thread, in the next one, in a stop or in the failure of run_speedtest.
RoundEnds ==
  mainPc = "rank" ~> mainPc \in {"loop", "failing", "join"}

=============================================================================
