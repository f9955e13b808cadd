--------------------------- MODULE ScannerProofs ---------------------------
(***************************************************************************)
(* Theorems about Scanner, for every set of relays, every number of        *)
(* measurer threads and every number of rounds.                            *)
(***************************************************************************)
EXTENDS Scanner, TLAPS

\* What the two threads hold between taking an item and disposing of it.
Hands ==
  /\ mainPc \in {"put", "putting"} => current \in Item
  /\ rdPc \in {"filter", "store", "write", "report"} => rdItem \in Result

TypeInv == TypeOK /\ Hands

\* What Queue.get returns and leaves, of a queue of things of S.
LEMMA HeadTailType ==
  ASSUME NEW S, NEW q \in Seq(S), q # <<>>
  PROVE  Head(q) \in S /\ Tail(q) \in Seq(S)
OBVIOUS

USE DEF Result, Item, Attempt, Kinds, ErrorKinds, Outcomes, FutureStates,
        MainPcs, RdPcs, MainGoes, MainLeaves, RdGoes, RdLeaves

\* Each step of the main thread keeps the types.
LEMMA MainTypeInv == TypeInv /\ MainStep => TypeInv'
<1> SUFFICES ASSUME TypeInv, MainStep PROVE TypeInv'
  OBVIOUS
<1> USE DEF TypeInv, TypeOK, Hands
<1>1. CASE StartResultDump
  BY <1>1 DEF StartResultDump
<1>2. CASE BindResultDump
  BY <1>2 DEF BindResultDump
<1>3. CASE BeginRound
  BY <1>3, RoundsAssumption DEF BeginRound
<1>4. ASSUME NEW r \in Relays, ResultsForRelay(r) PROVE TypeInv'
  BY <1>4 DEF ResultsForRelay
<1>5. CASE ResultsForRelayReturns
  BY <1>5 DEF ResultsForRelayReturns, ReleaseDataLock
<1>6. ASSUME NEW batch \in SUBSET Relays, Submit(batch) PROVE TypeInv'
  BY <1>6 DEF Submit
<1>7. ASSUME NEW r \in Relays, Collect(r) PROVE TypeInv'
  BY <1>7 DEF Collect, HasResult, TakeFuture
<1>8. ASSUME NEW r \in Relays, CollectException(r) PROVE TypeInv'
  BY <1>8 DEF CollectException, TakeFuture
<1>9. CASE FailureLogged
  BY <1>9 DEF FailureLogged
<1>10. CASE PutLock
  BY <1>10 DEF PutLock
<1>11. CASE PutAppend
  BY <1>11 DEF PutAppend
<1>12. CASE PutUnlock
  BY <1>12 DEF PutUnlock
<1>13. CASE EndRound
  <2>1. CASE TestingTorNetwork
    BY <1>13, <2>1 DEF EndRound
  <2>2. CASE ~TestingTorNetwork
    BY <1>13, <2>2 DEF EndRound
  <2> QED
    BY <2>1, <2>2
<1>14. CASE JoinResultDump
  BY <1>14 DEF JoinResultDump
<1>15. CASE Unwind
  BY <1>15 DEF Unwind
<1> QED
  BY <1>1, <1>2, <1>3, <1>4, <1>5, <1>6, <1>7, <1>8, <1>9, <1>10, <1>11,
     <1>12, <1>13, <1>14, <1>15 DEF MainStep

\* So does each step of a measurer thread...
LEMMA WorkerTypeInv ==
  ASSUME NEW r \in Relays, TypeInv, WorkerStep(r)
  PROVE  TypeInv'
<1> USE DEF TypeInv, TypeOK, Hands, WorkerLeaves, mainVars, rdVars, historyVars
<1>1. CASE Dispatch(r)
  BY <1>1 DEF Dispatch
<1>2. ASSUME NEW outcome \in Outcomes, Measured(r, outcome) PROVE TypeInv'
  BY <1>2 DEF Measured
<1> QED
  BY <1>1, <1>2 DEF WorkerStep

\* ...each step of the ResultDump thread...
LEMMA ResultDumpTypeInv == TypeInv /\ ResultDumpStep => TypeInv'
<1> SUFFICES ASSUME TypeInv, ResultDumpStep PROVE TypeInv'
  OBVIOUS
<1> USE DEF TypeInv, TypeOK, Hands, mainVars
<1>1. CASE LoadStart
  BY <1>1 DEF LoadStart
<1>2. CASE Load
  BY <1>2 DEF Load, TrimResults, ReleaseDataLock
<1>3. CASE LoadRaises
  BY <1>3 DEF LoadRaises, ReleaseDataLock
<1>4. CASE CheckEndEvent
  BY <1>4 DEF CheckEndEvent
<1>5. CASE CheckEmpty
  BY <1>5 DEF CheckEmpty
<1>6. CASE Get
  <2>1. Head(queue) \in Item /\ queue' \in Seq(Item)
    <3>1. queue \in Seq(Item) /\ queue # <<>> /\ queue' = Tail(queue)
      BY <1>6 DEF Get, Dequeue
    <3> HIDE DEF Item
    <3> QED
      BY <3>1, HeadTailType
  <2>2. CASE Head(queue).kind = "nothing"
    BY <1>6, <2>1, <2>2 DEF Get
  <2>3. CASE Head(queue).kind # "nothing"
    BY <1>6, <2>1, <2>3 DEF Get
  <2> QED
    BY <2>2, <2>3
<1>7. CASE GetTimeout
  BY <1>7 DEF GetTimeout
<1>8. CASE IgnoreError
  BY <1>8 DEF IgnoreError
<1>9. CASE KeepResult
  BY <1>9 DEF KeepResult
<1>10. CASE StoreResult
  BY <1>10 DEF StoreResult, TrimResults
<1>11. ASSUME NEW written \in BOOLEAN, WriteResult(written) PROVE TypeInv'
  BY <1>11 DEF WriteResult
<1>12. CASE ReportResult
  BY <1>12 DEF ReportResult
<1> QED
  BY <1>1, <1>2, <1>3, <1>4, <1>5, <1>6, <1>7, <1>8, <1>9, <1>10, <1>11,
     <1>12 DEF ResultDumpStep

\* ...and a signal, the passing of days or a stutter.
LEMMA OtherTypeInv == TypeInv /\ (Sigterm \/ Age \/ UNCHANGED vars) => TypeInv'
<1> USE DEF TypeInv, TypeOK, Hands
<1>1. TypeInv /\ Sigterm => TypeInv'
  BY DEF Sigterm
<1>2. TypeInv /\ Age => TypeInv'
  <2> SUFFICES ASSUME TypeInv, Age PROVE TypeInv'
    OBVIOUS
  <2>1. oldest' \in 0..MaxRounds
    BY RoundsAssumption DEF Age
  <2> QED
    BY <2>1 DEF Age, mainVars, rdVars, historyVars
<1>3. TypeInv /\ UNCHANGED vars => TypeInv'
  BY DEF vars, mainVars, rdVars, historyVars
<1> QED
  BY <1>1, <1>2, <1>3

\* The initial states have the types.
LEMMA InitTypeInv == Init => TypeInv
<1> SUFFICES ASSUME Init PROVE TypeInv
  OBVIOUS
<1>1. 0 \in 0..MaxRounds
  BY RoundsAssumption
<1>2. disk \in SUBSET Result
  BY <1>1 DEF Init
<1>3. queue \in Seq(Item)
  BY DEF Init
<1> QED
  BY <1>1, <1>2, <1>3 DEF Init, TypeInv, TypeOK, Hands

\* Every variable keeps its type, and neither thread ever carries something
\* that is not a result where the code expects one.
THEOREM TypeCorrect == Spec => []TypeInv
<1>1. Init => TypeInv
  BY InitTypeInv
<1>2. TypeInv /\ [Next]_vars => TypeInv'
  BY MainTypeInv, WorkerTypeInv, ResultDumpTypeInv, OtherTypeInv DEF Next
<1> QED
  BY <1>1, <1>2, PTL DEF Spec

\* The theorem for the invariant that the run scanner_round checks.
THEOREM TypeOKHolds == Spec => []TypeOK
<1>1. TypeInv => TypeOK
  BY DEF TypeInv
<1> QED
  BY <1>1, TypeCorrect, PTL

-----------------------------------------------------------------------------
(***************************************************************************)
(* No success that was queued is lost. The argument: end_event is only     *)
(* ever set by the main thread, which from then on appends nothing; the    *)
(* ResultDump thread ends on an empty queue it looks at after it has seen  *)
(* end_event; and all along an accepted result is in one of the places     *)
(* where it is looked for.                                                 *)
(***************************************************************************)
StopFreezesMain == endEvent => mainPc \in {"join", "exiting", "exited"}

EndsDrained ==
  /\ rdPc = "empty" => endEvent
  /\ rdPc = "exited" /\ ~loadFailed => endEvent /\ queue = <<>>

AcceptedSomewhere ==
  \A r \in accepted : r \in Queued \cup InHand \cup ignored \cup unwritten \cup disk

OnlyErrorsIgnored == \A r \in ignored : r.kind \in ErrorKinds

DrainInv == TypeInv /\ StopFreezesMain /\ EndsDrained /\ AcceptedSomewhere
              /\ OnlyErrorsIgnored

\* A result in the queue stays there when something is appended...
LEMMA AppendKeepsQueued ==
  ASSUME NEW S, NEW q \in Seq(S), NEW x \in S, NEW i \in DOMAIN q
  PROVE  i \in DOMAIN Append(q, x) /\ Append(q, x)[i] = q[i]
OBVIOUS

\* ...and what is appended is in it.
LEMMA AppendQueues ==
  ASSUME NEW S, NEW q \in Seq(S), NEW x \in S
  PROVE  \E i \in DOMAIN Append(q, x) : Append(q, x)[i] = x
<1>1. Len(q) + 1 \in DOMAIN Append(q, x) /\ Append(q, x)[Len(q) + 1] = x
  OBVIOUS
<1> QED
  BY <1>1

\* What is in the queue stays there when something else is taken.
LEMMA TailKeepsQueued ==
  ASSUME NEW S, NEW q \in Seq(S), q # <<>>, NEW i \in DOMAIN q
  PROVE  q[i] = Head(q) \/ \E j \in DOMAIN Tail(q) : Tail(q)[j] = q[i]
<1>1. CASE i = 1
  BY <1>1
<1>2. CASE i # 1
  <2>1. i - 1 \in DOMAIN Tail(q) /\ Tail(q)[i - 1] = q[i]
    BY <1>2
  <2> QED
    BY <2>1
<1> QED
  BY <1>1, <1>2

\* A step that leaves the queue, the hands and the outcomes alone.
LEMMA OutcomesUnchanged ==
  ASSUME AcceptedSomewhere, OnlyErrorsIgnored,
         UNCHANGED <<accepted, queue, rdItem, ignored, unwritten, disk>>,
         rdPc \in {"filter", "store", "write"} => rdPc' \in {"filter", "store", "write"}
  PROVE  AcceptedSomewhere' /\ OnlyErrorsIgnored'
BY DEF AcceptedSomewhere, OnlyErrorsIgnored, Queued, InHand

\* Every step of the main thread but PutAppend leaves what was accepted.
MainElsewhere ==
  \/ StartResultDump \/ BindResultDump \/ BeginRound
  \/ \E r \in Relays : ResultsForRelay(r)
  \/ ResultsForRelayReturns
  \/ \E batch \in SUBSET Relays : Submit(batch)
  \/ \E r \in Relays : Collect(r) \/ CollectException(r)
  \/ FailureLogged \/ PutLock \/ PutUnlock \/ EndRound
  \/ JoinResultDump \/ Unwind \/ Sigterm

\* All but one step of the main thread leave the queue and the results alone.
LEMMA MainElsewhereFrame ==
  ASSUME MainElsewhere
  PROVE  /\ UNCHANGED <<accepted, queue, rdItem, ignored, unwritten, disk, loadFailed>>
         /\ \/ rdPc' = rdPc
            \/ rdPc' = "start" /\ mainPc = "start"
BY DEF MainElsewhere, StartResultDump, BindResultDump, BeginRound,
       ResultsForRelay, ResultsForRelayReturns, Submit, Collect,
       CollectException, FailureLogged, PutLock, PutUnlock, EndRound,
       JoinResultDump, Unwind, Sigterm

\* Once stopping, the main thread can only join, unwind and exit.
LEMMA MainStopFreezes ==
  ASSUME StopFreezesMain, MainElsewhere
  PROVE  StopFreezesMain' /\ (endEvent => endEvent')
BY DEF StopFreezesMain, MainElsewhere, StartResultDump, BindResultDump,
       BeginRound, ResultsForRelay, ResultsForRelayReturns, Submit, Collect,
       CollectException, FailureLogged, PutLock, PutUnlock, EndRound,
       JoinResultDump, Unwind, Sigterm

\* The thread is not born before the main thread starts it.
BornByMain == mainPc = "start" => rdPc = "unborn"

\* Each step of the main thread keeps the invariant; but for PutAppend it moves
\* no result.
LEMMA MainDrainInv ==
  ASSUME DrainInv, BornByMain, MainElsewhere
  PROVE  DrainInv'
<1>1. TypeInv'
  BY MainTypeInv, OtherTypeInv DEF DrainInv, MainElsewhere, MainStep
<1>2. StopFreezesMain' /\ (endEvent => endEvent')
  BY MainStopFreezes DEF DrainInv
<1>3. EndsDrained'
  BY <1>2, MainElsewhereFrame DEF DrainInv, EndsDrained
<1>4. AcceptedSomewhere' /\ OnlyErrorsIgnored'
  BY MainElsewhereFrame, OutcomesUnchanged DEF DrainInv, BornByMain
<1> QED
  BY <1>1, <1>2, <1>3, <1>4 DEF DrainInv

\* PutAppend accepts a result and queues it, before the stop.
LEMMA PutAppendDrainInv ==
  ASSUME DrainInv, PutAppend
  PROVE  DrainInv'
<1> USE DEF DrainInv
<1>1. TypeInv'
  BY MainTypeInv DEF MainStep
<1>2. ~endEvent /\ ~endEvent'
  BY DEF PutAppend, StopFreezesMain
<1>3. StopFreezesMain' /\ EndsDrained'
  BY <1>2 DEF PutAppend, StopFreezesMain, EndsDrained
<1>4. queue \in Seq(Item) /\ current \in Item
  BY DEF PutAppend, TypeInv, TypeOK, Hands
<1>5. AcceptedSomewhere'
  <2> SUFFICES ASSUME NEW r \in accepted'
               PROVE  r \in Queued' \cup InHand' \cup ignored' \cup unwritten' \cup disk'
    BY DEF AcceptedSomewhere
  <2>1. InHand' = InHand /\ UNCHANGED <<ignored, unwritten, disk>>
    BY DEF PutAppend, InHand
  <2>2. queue' = Append(queue, current)
    BY DEF PutAppend
  <2>3. CASE r \in Queued
    <3>1. PICK i \in DOMAIN queue : queue[i] = r /\ r.kind # "nothing"
      BY <2>3 DEF Queued
    <3>2. i \in DOMAIN queue' /\ queue'[i] = r
      BY <1>4, <2>2, <3>1, AppendKeepsQueued
    <3> QED
      BY <3>1, <3>2 DEF Queued
  <2>4. CASE r \in accepted /\ r \notin Queued
    BY <2>1, <2>4 DEF AcceptedSomewhere
  <2>5. CASE r \notin accepted
    <3>1. r = current /\ r.kind # "nothing"
      BY <2>5 DEF PutAppend
    <3>2. PICK i \in DOMAIN queue' : queue'[i] = r
      BY <1>4, <2>2, <3>1, AppendQueues
    <3> QED
      BY <3>1, <3>2 DEF Queued
  <2> QED
    BY <2>3, <2>4, <2>5
<1>6. OnlyErrorsIgnored'
  BY DEF PutAppend, OnlyErrorsIgnored
<1> QED
  BY <1>1, <1>3, <1>5, <1>6

\* A measurer thread touches nothing the invariant speaks of.
LEMMA WorkerDrainInv ==
  ASSUME DrainInv, NEW r \in Relays, WorkerStep(r)
  PROVE  DrainInv'
<1> USE DEF DrainInv
<1>1. TypeInv'
  BY WorkerTypeInv
<1>2. WorkerLeaves
  BY DEF WorkerStep, Dispatch, Measured
<1>3. UNCHANGED <<endEvent, mainPc, queue, rdPc, rdItem, disk, accepted,
                  ignored, unwritten, loadFailed>>
  BY <1>2 DEF WorkerLeaves, mainVars, rdVars, historyVars
<1>4. StopFreezesMain' /\ EndsDrained'
  BY <1>3 DEF StopFreezesMain, EndsDrained
<1>5. AcceptedSomewhere' /\ OnlyErrorsIgnored'
  BY <1>3, OutcomesUnchanged
<1> QED
  BY <1>1, <1>4, <1>5

\* The ResultDump thread moves results from the queue to its hand and from there
\* to the datadir, and ends only with the queue empty.
LEMMA ResultDumpDrainInv ==
  ASSUME DrainInv, ResultDumpStep
  PROVE  DrainInv'
<1> USE DEF DrainInv
<1>1. TypeInv'
  BY ResultDumpTypeInv
<1>2. UNCHANGED <<mainPc, accepted>>
  BY DEF ResultDumpStep, LoadStart, Load, LoadRaises, CheckEndEvent, CheckEmpty,
         Get, GetTimeout, IgnoreError, KeepResult, StoreResult, WriteResult,
         ReportResult, mainVars
<1>3. endEvent' = endEvent
  <2>1. CASE ReportResult
    <3>1. rdItem.kind \in Kinds
      BY <2>1 DEF ReportResult, TypeInv, Hands
    <3>2. ResultType(rdItem) # "error-destination"
      BY <3>1 DEF ResultType
    <3> QED
      BY <2>1, <3>2 DEF ReportResult, TypeInv, TypeOK
  <2>2. CASE ~ReportResult
    BY <2>2 DEF ResultDumpStep, LoadStart, Load, LoadRaises, CheckEndEvent,
                CheckEmpty, Get, GetTimeout, IgnoreError, KeepResult,
                StoreResult, WriteResult
  <2> QED
    BY <2>1, <2>2
<1>4. StopFreezesMain'
  BY <1>2, <1>3 DEF StopFreezesMain
<1>5. EndsDrained'
  <2>1. CASE LoadStart \/ Load \/ LoadRaises
    BY <1>3, <2>1 DEF LoadStart, Load, LoadRaises, EndsDrained
  <2>2. CASE CheckEndEvent
    BY <1>3, <2>2 DEF CheckEndEvent, EndsDrained
  <2>3. CASE CheckEmpty
    BY <1>3, <2>3 DEF CheckEmpty, EndsDrained
  <2>4. CASE Get \/ GetTimeout
    BY <1>3, <2>4 DEF Get, GetTimeout, EndsDrained
  <2>5. CASE IgnoreError \/ KeepResult \/ StoreResult
    BY <1>3, <2>5 DEF IgnoreError, KeepResult, StoreResult, EndsDrained
  <2>6. CASE \E written \in BOOLEAN : WriteResult(written)
    BY <1>3, <2>6 DEF WriteResult, EndsDrained
  <2>7. CASE ReportResult
    BY <1>3, <2>7 DEF ReportResult, EndsDrained
  <2> QED
    BY <2>1, <2>2, <2>3, <2>4, <2>5, <2>6, <2>7 DEF ResultDumpStep
<1>6. AcceptedSomewhere' /\ OnlyErrorsIgnored'
  <2>1. CASE LoadStart \/ Load \/ LoadRaises \/ CheckEndEvent \/ CheckEmpty \/ GetTimeout
    BY <1>2, <2>1, OutcomesUnchanged
       DEF LoadStart, Load, LoadRaises, CheckEndEvent, CheckEmpty, GetTimeout
  <2>2. CASE KeepResult \/ StoreResult
    BY <1>2, <2>2, OutcomesUnchanged DEF KeepResult, StoreResult
  <2>3. CASE Get
    <3>1. queue \in Seq(Item) /\ queue # <<>> /\ queue' = Tail(queue)
      BY <2>3 DEF Get, Dequeue, TypeInv, TypeOK
    <3>2. UNCHANGED <<ignored, unwritten, disk>> /\ InHand = {}
      BY <2>3 DEF Get, InHand
    <3>3. ASSUME NEW r \in Queued PROVE r \in Queued' \cup InHand'
      <4>1. PICK i \in DOMAIN queue : queue[i] = r /\ r.kind # "nothing"
        BY DEF Queued
      <4>2. CASE r = Head(queue)
        BY <2>3, <4>1, <4>2 DEF Get, InHand
      <4>3. CASE r # Head(queue)
        <5>1. PICK j \in DOMAIN queue' : queue'[j] = r
          BY <3>1, <4>1, <4>3, TailKeepsQueued
        <5> QED
          BY <4>1, <5>1 DEF Queued
      <4> QED
        BY <4>2, <4>3
    <3> QED
      BY <1>2, <3>2, <3>3 DEF AcceptedSomewhere, OnlyErrorsIgnored
  <2>4. CASE IgnoreError
    <3>1. InHand = {rdItem} /\ InHand' = {} /\ Queued' = Queued
      BY <2>4 DEF IgnoreError, InHand, Queued
    <3> QED
      BY <1>2, <2>4, <3>1
         DEF IgnoreError, IsIgnored, AcceptedSomewhere, OnlyErrorsIgnored
  <2>5. ASSUME NEW written \in BOOLEAN, WriteResult(written)
        PROVE  AcceptedSomewhere' /\ OnlyErrorsIgnored'
    <3>1. InHand = {rdItem} /\ InHand' = {} /\ Queued' = Queued
      BY <2>5 DEF WriteResult, InHand, Queued
    <3>2. rdItem \in disk' \cup unwritten' /\ disk \subseteq disk' /\ unwritten \subseteq unwritten'
      BY <2>5 DEF WriteResult
    <3> QED
      BY <1>2, <2>5, <3>1, <3>2 DEF WriteResult, AcceptedSomewhere, OnlyErrorsIgnored
  <2>6. CASE ReportResult
    <3>1. InHand = {} /\ InHand' = {} /\ Queued' = Queued
      BY <2>6 DEF ReportResult, InHand, Queued
    <3> QED
      BY <1>2, <2>6, <3>1 DEF ReportResult, AcceptedSomewhere, OnlyErrorsIgnored
  <2> QED
    BY <2>1, <2>2, <2>3, <2>4, <2>5, <2>6 DEF ResultDumpStep
<1> QED
  BY <1>1, <1>4, <1>5, <1>6

\* The passing of days and stutters keep the invariant.
LEMMA OtherDrainInv ==
  ASSUME DrainInv, Age \/ UNCHANGED vars
  PROVE  DrainInv'
<1>1. TypeInv'
  BY OtherTypeInv DEF DrainInv
<1>2. UNCHANGED <<endEvent, mainPc, queue, rdPc, rdItem, disk, accepted,
                  ignored, unwritten, loadFailed>>
  BY DEF Age, vars, mainVars, rdVars, historyVars
<1>3. StopFreezesMain' /\ EndsDrained'
  BY <1>2 DEF DrainInv, StopFreezesMain, EndsDrained
<1>4. AcceptedSomewhere' /\ OnlyErrorsIgnored'
  BY <1>2, OutcomesUnchanged DEF DrainInv
<1> QED
  BY <1>1, <1>3, <1>4 DEF DrainInv

\* The ResultDump thread does not exist before the main thread starts it.
LEMMA BornByMainHolds == Spec => []BornByMain
<1>1. Init => BornByMain
  BY DEF Init, BornByMain
<1>2. BornByMain /\ [Next]_vars => BornByMain'
  <2> SUFFICES ASSUME BornByMain, [Next]_vars PROVE BornByMain'
    OBVIOUS
  <2>1. CASE MainElsewhere \/ PutAppend
    BY <2>1 DEF BornByMain, MainElsewhere, PutAppend, StartResultDump,
       BindResultDump, BeginRound, ResultsForRelay, ResultsForRelayReturns,
       Submit, Collect, CollectException, FailureLogged, PutLock, PutUnlock,
       EndRound, JoinResultDump, Unwind, Sigterm
  <2>2. CASE \E r \in Relays : WorkerStep(r)
    BY <2>2 DEF BornByMain, WorkerStep, Dispatch, Measured, WorkerLeaves,
       mainVars, rdVars
  <2>3. CASE ResultDumpStep
    BY <2>3 DEF BornByMain, ResultDumpStep, LoadStart, Load, LoadRaises,
       CheckEndEvent, CheckEmpty, Get, GetTimeout, IgnoreError, KeepResult,
       StoreResult, WriteResult, ReportResult, mainVars
  <2>4. CASE Age \/ UNCHANGED vars
    BY <2>4 DEF BornByMain, Age, vars, mainVars, rdVars
  <2> QED
    BY <2>1, <2>2, <2>3, <2>4 DEF Next, MainStep, MainElsewhere
<1> QED
  BY <1>1, <1>2, PTL DEF Spec

\* The inductive invariant behind the theorem below.
THEOREM DrainInvariant == Spec => []DrainInv
<1>1. Init => DrainInv
  <2> SUFFICES ASSUME Init PROVE DrainInv
    OBVIOUS
  <2>1. TypeInv
    BY InitTypeInv
  <2> QED
    BY <2>1 DEF Init, DrainInv, StopFreezesMain, EndsDrained,
                AcceptedSomewhere, OnlyErrorsIgnored
<1>2. DrainInv /\ BornByMain /\ [Next]_vars => DrainInv'
  BY MainDrainInv, PutAppendDrainInv, WorkerDrainInv, ResultDumpDrainInv,
     OtherDrainInv DEF Next, MainStep, MainElsewhere
<1> QED
  BY <1>1, <1>2, BornByMainHolds, PTL DEF Spec

\* The shutdown sequence loses no success that was put in the queue, however
\* the three kinds of threads interleave and wherever SIGTERM strikes.
THEOREM QueuedSuccessesSurvive == Spec => []NoQueuedSuccessLost
<1>1. DrainInv => NoQueuedSuccessLost
  <2> SUFFICES ASSUME DrainInv, rdPc = "exited", ~loadFailed,
                      NEW r \in accepted, r.kind = "success"
               PROVE  r \in disk \cup unwritten
    BY DEF NoQueuedSuccessLost
  <2>1. Queued = {} /\ InHand = {}
    BY DEF DrainInv, EndsDrained, Queued, InHand
  <2>2. r \notin ignored
    BY DEF DrainInv, OnlyErrorsIgnored
  <2> QED
    BY <2>1, <2>2 DEF DrainInv, AcceptedSomewhere
<1> QED
  BY <1>1, DrainInvariant, PTL

-----------------------------------------------------------------------------
(***************************************************************************)
(* What becomes of every result between its future and the datadir, and    *)
(* that Scanner implements MeasurementLog.                                 *)
(***************************************************************************)

(***************************************************************************)
(* The invariant.  Every attempt belongs to a round that has begun, a      *)
(* future that is under way stands for an attempt of this round nothing of *)
(* which was handed to the ResultDump thread yet, and so does the item the *)
(* main thread is about to put in the queue.                               *)
(***************************************************************************)
QueuedAttempts   == {AttemptOf(queue[i]) : i \in DOMAIN queue}
AcceptedAttempts == {AttemptOf(a) : a \in accepted}

\* Nothing was handed over for this attempt.
Unused(attempt) ==
  attempt \in launched /\ attempt \notin QueuedAttempts \cup AcceptedAttempts

RoundsBegun ==
  /\ \A a \in launched : a.round \in 1..round
  /\ mainPc \in {"rank", "ranking"} =>
        round > 0 /\ \A a \in launched : a.round # round

FuturesIdle ==
  mainPc \in {"start", "construct", "loop", "rank", "ranking"} =>
     \A r \in Relays : future[r] = "idle"

FuturesUnused ==
  \A r \in Relays : future[r] \notin {"idle", "taken"} =>
     Unused([relay |-> r, round |-> round])

CurrentUnused ==
  mainPc \in {"put", "putting"} =>
     /\ Unused(AttemptOf(current))
     /\ current.round = round
     /\ future[current.relay] = "taken"

HandedOverLaunched == QueuedAttempts \cup AcceptedAttempts \subseteq launched

AcceptedOnce ==
  \A a, b \in accepted : AttemptOf(a) = AttemptOf(b) => a = b

OrderInv == RoundsBegun /\ FuturesIdle /\ FuturesUnused /\ CurrentUnused
              /\ HandedOverLaunched /\ AcceptedOnce

AccountInv == TypeInv /\ BornByMain /\ OrderInv /\ EachResultAccountedFor

\* At most one error is past the check of end_event when it is set.
OneLateError ==
  lateError =>
     endEvent /\ (rdPc \in {"store", "write"} => rdItem.kind = "success")

\* What is in memory, once the datadir was read.
MemoryInv ==
  rdPc \notin {"unborn", "start", "loading"} /\ ~loadFailed =>
     /\ \A r \in disk : r.round >= oldest => r \in data
     /\ rdPc = "write" => (rdItem.round >= oldest => rdItem \in data)
     /\ data \subseteq disk \cup unwritten \cup (IF rdPc = "write" THEN {rdItem} ELSE {})

-----------------------------------------------------------------------------
\* The items of a queue something was appended to.
LEMMA AppendItems ==
  ASSUME NEW S, NEW q \in Seq(S), NEW x \in S, NEW i \in DOMAIN Append(q, x)
  PROVE  \/ i \in DOMAIN q /\ Append(q, x)[i] = q[i]
         \/ i \notin DOMAIN q /\ i = Len(q) + 1 /\ Append(q, x)[i] = x
OBVIOUS

\* The items of a queue whose head was taken.
LEMMA TailItems ==
  ASSUME NEW S, NEW q \in Seq(S), q # <<>>
  PROVE  /\ 1 \in DOMAIN q /\ q[1] = Head(q)
         /\ \A i \in DOMAIN Tail(q) : i + 1 \in DOMAIN q /\ i + 1 # 1 /\ Tail(q)[i] = q[i + 1]
         /\ \A i, j \in DOMAIN Tail(q) : i # j => i + 1 # j + 1
OBVIOUS

\* Appending hands over one more attempt...
LEMMA AppendQueuedAttempts ==
  ASSUME TypeInv, current \in Item, queue' = Append(queue, current)
  PROVE  QueuedAttempts' = QueuedAttempts \cup {AttemptOf(current)}
<1>1. queue \in Seq(Item)
  BY DEF TypeInv, TypeOK
<1>2. QueuedAttempts' \subseteq QueuedAttempts \cup {AttemptOf(current)}
  BY <1>1, AppendItems DEF QueuedAttempts
<1>3. QueuedAttempts \subseteq QueuedAttempts'
  BY <1>1, AppendKeepsQueued DEF QueuedAttempts
<1>4. AttemptOf(current) \in QueuedAttempts'
  BY <1>1, AppendQueues DEF QueuedAttempts
<1> QED
  BY <1>2, <1>3, <1>4

\* ...and taking one adds none.
LEMMA TailQueuedAttempts ==
  ASSUME TypeInv, queue # <<>>, queue' = Tail(queue)
  PROVE  QueuedAttempts' \subseteq QueuedAttempts
<1>1. queue \in Seq(Item)
  BY DEF TypeInv, TypeOK
<1> QED
  BY <1>1, TailItems DEF QueuedAttempts

\* A step that neither launches nor hands over, starts no round and moves no
\* future keeps the order.
LEMMA OrderUnchanged ==
  ASSUME OrderInv, UNCHANGED <<queue, accepted, launched, round, future, current>>,
         mainPc' \in {"rank", "ranking"} => mainPc \in {"rank", "ranking"},
         mainPc' \in {"start", "construct", "loop", "rank", "ranking"} =>
            mainPc \in {"start", "construct", "loop", "rank", "ranking"},
         mainPc' \in {"put", "putting"} => mainPc \in {"put", "putting"}
  PROVE  OrderInv'
<1>1. UNCHANGED <<QueuedAttempts, AcceptedAttempts>>
  BY DEF QueuedAttempts, AcceptedAttempts
<1>2. RoundsBegun' /\ FuturesIdle'
  BY DEF OrderInv, RoundsBegun, FuturesIdle
<1>3. FuturesUnused' /\ CurrentUnused'
  BY <1>1 DEF OrderInv, FuturesUnused, CurrentUnused, Unused
<1>4. HandedOverLaunched' /\ AcceptedOnce'
  BY <1>1 DEF OrderInv, HandedOverLaunched, AcceptedOnce
<1> QED
  BY <1>2, <1>3, <1>4 DEF OrderInv

\* Such are these steps of the main thread...
LEMMA MainQuietOrder ==
  ASSUME OrderInv,
         \/ StartResultDump \/ BindResultDump \/ ResultsForRelayReturns
         \/ \E r \in Relays : ResultsForRelay(r)
         \/ FailureLogged \/ PutLock \/ PutUnlock \/ JoinResultDump \/ Unwind
         \/ Sigterm
  PROVE  OrderInv'
<1>1. CASE StartResultDump \/ BindResultDump \/ ResultsForRelayReturns
  BY <1>1, OrderUnchanged DEF StartResultDump, BindResultDump, ResultsForRelayReturns, MainGoes
<1>2. CASE \E r \in Relays : ResultsForRelay(r)
  BY <1>2, OrderUnchanged DEF ResultsForRelay, MainGoes
<1>3. CASE FailureLogged \/ PutLock \/ PutUnlock
  BY <1>3, OrderUnchanged DEF FailureLogged, PutLock, PutUnlock, MainGoes
<1>4. CASE JoinResultDump \/ Unwind
  BY <1>4, OrderUnchanged DEF JoinResultDump, Unwind, MainGoes
<1>5. CASE Sigterm
  BY <1>5, OrderUnchanged DEF Sigterm
<1> QED
  BY <1>1, <1>2, <1>3, <1>4, <1>5

\* A round begins with nothing launched in it and every future idle.
LEMMA BeginRoundOrder ==
  ASSUME TypeInv, OrderInv, BeginRound
  PROVE  OrderInv'
<1>1. CASE endEvent
  BY <1>1, OrderUnchanged DEF BeginRound, MainGoes
<1>2. CASE ~endEvent
  <2>1. /\ mainPc = "loop" /\ mainPc' = "rank" /\ round' = round + 1
        /\ UNCHANGED <<queue, accepted, launched, future, current>>
    BY <1>2 DEF BeginRound, MainGoes
  <2>2. round \in Nat /\ \A a \in launched : a.round \in 1..round
    BY RoundsAssumption DEF TypeInv, TypeOK, OrderInv, RoundsBegun
  <2>3. RoundsBegun'
    <3>1. \A a \in launched : a.round \in 1..(round + 1) /\ a.round # round + 1
      BY <2>2
    <3> QED
      BY <2>1, <2>2, <3>1 DEF RoundsBegun
  <2>4. FuturesIdle' /\ FuturesUnused' /\ CurrentUnused'
    BY <2>1 DEF OrderInv, FuturesIdle, FuturesUnused, CurrentUnused
  <2>5. HandedOverLaunched' /\ AcceptedOnce'
    BY <2>1 DEF OrderInv, HandedOverLaunched, AcceptedOnce, QueuedAttempts, AcceptedAttempts
  <2> QED
    BY <2>3, <2>4, <2>5 DEF OrderInv
<1> QED
  BY <1>1, <1>2

\* What is submitted are attempts of a round that launched none before.
LEMMA SubmitOrder ==
  ASSUME TypeInv, OrderInv, NEW batch \in SUBSET Relays, Submit(batch)
  PROVE  OrderInv'
<1>1. /\ mainPc = "rank" /\ mainPc' = "collect"
      /\ future' = [r \in Relays |-> IF r \in batch THEN "pending" ELSE "idle"]
      /\ launched' = launched \cup [relay : batch, round : {round}]
      /\ UNCHANGED <<queue, accepted, round, current>>
  BY DEF Submit, MainGoes
<1>2. /\ round \in Nat /\ round > 0
      /\ \A a \in launched : a.round \in 1..round /\ a.round # round
  BY <1>1, RoundsAssumption DEF TypeInv, TypeOK, OrderInv, RoundsBegun
<1>3. UNCHANGED <<QueuedAttempts, AcceptedAttempts>>
  BY <1>1 DEF QueuedAttempts, AcceptedAttempts
<1>4. RoundsBegun'
  <2>1. \A a \in launched' : a.round \in 1..round
    BY <1>1, <1>2
  <2> QED
    BY <1>1, <2>1 DEF RoundsBegun
<1>5. FuturesUnused'
  <2> SUFFICES ASSUME NEW r \in Relays, future'[r] \notin {"idle", "taken"}
               PROVE  Unused([relay |-> r, round |-> round])'
    BY <1>1 DEF FuturesUnused
  <2> DEFINE a == [relay |-> r, round |-> round]
  <2>1. a \in launched' /\ a.round = round
    BY <1>1
  <2>2. a \notin launched
    BY <1>2, <2>1
  <2>3. a \notin QueuedAttempts \cup AcceptedAttempts
    BY <2>2 DEF OrderInv, HandedOverLaunched
  <2> QED
    BY <1>1, <1>3, <2>1, <2>3 DEF Unused
<1>6. FuturesIdle' /\ CurrentUnused'
  BY <1>1 DEF FuturesIdle, CurrentUnused
<1>7. HandedOverLaunched' /\ AcceptedOnce'
  BY <1>1, <1>3 DEF OrderInv, HandedOverLaunched, AcceptedOnce
<1> QED
  BY <1>4, <1>5, <1>6, <1>7 DEF OrderInv

\* The result that is collected is of an unused attempt, whose future is
\* not yielded again.
LEMMA CollectOrder ==
  ASSUME TypeInv, OrderInv, NEW r \in Relays, Collect(r) \/ CollectException(r)
  PROVE  OrderInv'
<1>1. /\ mainPc = "collect" /\ mainPc' \in {"put", "collect", "failing"}
      /\ future' = [future EXCEPT ![r] = "taken"]
      /\ UNCHANGED <<queue, accepted, launched, round>>
  BY DEF Collect, CollectException, MainGoes, TakeFuture
<1>2. UNCHANGED <<QueuedAttempts, AcceptedAttempts>>
  BY <1>1 DEF QueuedAttempts, AcceptedAttempts
<1>3. RoundsBegun' /\ FuturesIdle'
  BY <1>1 DEF OrderInv, RoundsBegun, FuturesIdle
<1>4. future \in [Relays -> FutureStates]
  BY DEF TypeInv, TypeOK
<1>5. FuturesUnused'
  BY <1>1, <1>2, <1>4 DEF OrderInv, FuturesUnused, Unused
<1>6. CurrentUnused'
  <2>1. CASE Collect(r)
    <3>1. /\ current' = [relay |-> r, round |-> round, kind |-> future[r]]
          /\ future[r] \notin {"idle", "taken"}
      BY <2>1 DEF Collect, HasResult, Outcomes, Kinds, ErrorKinds
    <3>2. current'.relay = r /\ current'.round = round
      BY <3>1
    <3>3. Unused([relay |-> r, round |-> round])
      BY <3>1 DEF OrderInv, FuturesUnused
    <3>4. AttemptOf(current)' = [relay |-> r, round |-> round]
      BY <3>2 DEF AttemptOf
    <3>5. future'[r] = "taken"
      BY <1>1, <1>4
    <3> QED
      BY <1>1, <1>2, <3>2, <3>3, <3>4, <3>5 DEF CurrentUnused, Unused
  <2>2. CASE CollectException(r)
    <3>1. mainPc' \in {"collect", "failing"}
      BY <2>2 DEF CollectException, MainGoes
    <3> QED
      BY <3>1 DEF CurrentUnused
  <2> QED
    BY <2>1, <2>2
<1>7. HandedOverLaunched' /\ AcceptedOnce'
  BY <1>1, <1>2 DEF OrderInv, HandedOverLaunched, AcceptedOnce
<1> QED
  BY <1>3, <1>5, <1>6, <1>7 DEF OrderInv

\* The item that is put in the queue uses its attempt.
LEMMA PutAppendOrder ==
  ASSUME TypeInv, OrderInv, PutAppend
  PROVE  OrderInv'
<1> DEFINE mine == AttemptOf(current)
<1>1. /\ mainPc = "putting" /\ mainPc' = "put_done"
      /\ queue' = Append(queue, current)
      /\ accepted' = accepted \cup {i \in {current} : i.kind # "nothing"}
      /\ UNCHANGED <<future, launched, round>>
  BY DEF PutAppend, MainGoes, MainLeaves
<1>2. current \in Item /\ current.relay \in Relays
  BY <1>1 DEF TypeInv, Hands, Item
<1>3. /\ mine \in launched /\ mine \notin QueuedAttempts \cup AcceptedAttempts
      /\ future[current.relay] = "taken"
  BY <1>1 DEF OrderInv, CurrentUnused, Unused
<1>4. QueuedAttempts' = QueuedAttempts \cup {mine}
  BY <1>1, <1>2, AppendQueuedAttempts
<1>5. AcceptedAttempts' \subseteq AcceptedAttempts \cup {mine}
  BY <1>1 DEF AcceptedAttempts
<1>6. RoundsBegun' /\ FuturesIdle' /\ CurrentUnused'
  BY <1>1 DEF OrderInv, RoundsBegun, FuturesIdle, CurrentUnused
<1>7. FuturesUnused'
  <2> SUFFICES ASSUME NEW r \in Relays, future[r] \notin {"idle", "taken"}
               PROVE  Unused([relay |-> r, round |-> round])'
    BY <1>1 DEF FuturesUnused
  <2>1. r # current.relay
    BY <1>3
  <2>2. [relay |-> r, round |-> round] # mine
    BY <2>1 DEF AttemptOf
  <2>3. Unused([relay |-> r, round |-> round])
    BY DEF OrderInv, FuturesUnused
  <2> QED
    BY <1>1, <1>4, <1>5, <2>2, <2>3 DEF Unused
<1>8. HandedOverLaunched'
  BY <1>1, <1>3, <1>4, <1>5 DEF OrderInv, HandedOverLaunched
<1>9. AcceptedOnce'
  <2> SUFFICES ASSUME NEW a \in accepted', NEW b \in accepted',
                      AttemptOf(a) = AttemptOf(b)
               PROVE  a = b
    BY DEF AcceptedOnce
  <2>1. \A c \in accepted : AttemptOf(c) # mine
    BY <1>3 DEF AcceptedAttempts
  <2> QED
    BY <1>1, <2>1 DEF OrderInv, AcceptedOnce
<1> QED
  BY <1>6, <1>7, <1>8, <1>9 DEF OrderInv

\* At the end of a round no future is under way.
LEMMA EndRoundOrder ==
  ASSUME TypeInv, OrderInv, EndRound
  PROVE  OrderInv'
<1>1. /\ mainPc' \in {"join", "loop"}
      /\ future' = [r \in Relays |-> "idle"]
      /\ UNCHANGED <<queue, accepted, launched, round>>
  BY DEF EndRound, MainGoes
<1>2. RoundsBegun' /\ FuturesIdle' /\ FuturesUnused' /\ CurrentUnused'
  BY <1>1 DEF OrderInv, RoundsBegun, FuturesIdle, FuturesUnused, CurrentUnused
<1>3. HandedOverLaunched' /\ AcceptedOnce'
  BY <1>1 DEF OrderInv, HandedOverLaunched, AcceptedOnce, QueuedAttempts, AcceptedAttempts
<1> QED
  BY <1>2, <1>3 DEF OrderInv

\* A measurer thread moves a future that is under way.
LEMMA WorkerOrder ==
  ASSUME TypeInv, OrderInv, NEW r \in Relays, WorkerStep(r)
  PROVE  OrderInv'
<1>1. /\ future[r] \in {"pending", "running"}
      /\ \E f : future' = [future EXCEPT ![r] = f]
      /\ UNCHANGED <<queue, accepted, launched, round, mainPc, current>>
  BY DEF WorkerStep, Dispatch, Measured, WorkerLeaves, mainVars, historyVars
<1>2. future \in [Relays -> FutureStates]
  BY DEF TypeInv, TypeOK
<1>3. future[r] \notin {"idle", "taken"} /\ \A s \in Relays \ {r} : future'[s] = future[s]
  BY <1>1, <1>2
<1>4. UNCHANGED <<QueuedAttempts, AcceptedAttempts>>
  BY <1>1 DEF QueuedAttempts, AcceptedAttempts
<1>5. RoundsBegun' /\ FuturesIdle'
  BY <1>1, <1>3 DEF OrderInv, RoundsBegun, FuturesIdle
<1>6. FuturesUnused'
  BY <1>1, <1>3, <1>4 DEF OrderInv, FuturesUnused, Unused
<1>7. CurrentUnused'
  <2> SUFFICES ASSUME mainPc \in {"put", "putting"} PROVE CurrentUnused'
    BY <1>1 DEF CurrentUnused
  <2>1. current.relay \in Relays /\ future[current.relay] = "taken"
    BY DEF OrderInv, CurrentUnused, TypeInv, Hands, Item
  <2> QED
    BY <1>1, <1>3, <1>4, <2>1 DEF OrderInv, CurrentUnused, Unused
<1>8. HandedOverLaunched' /\ AcceptedOnce'
  BY <1>1, <1>4 DEF OrderInv, HandedOverLaunched, AcceptedOnce
<1> QED
  BY <1>5, <1>6, <1>7, <1>8 DEF OrderInv

\* The ResultDump thread takes items from the queue and uses no attempt.
LEMMA ResultDumpOrder ==
  ASSUME TypeInv, OrderInv, ResultDumpStep
  PROVE  OrderInv'
<1>1. CASE Get
  <2>1. /\ queue # <<>> /\ queue' = Tail(queue)
        /\ UNCHANGED <<mainPc, round, current, future, launched, accepted>>
    BY <1>1 DEF Get, Dequeue, RdLeaves, mainVars
  <2>2. QueuedAttempts' \subseteq QueuedAttempts
    BY <2>1, TailQueuedAttempts
  <2>3. AcceptedAttempts' = AcceptedAttempts
    BY <2>1 DEF AcceptedAttempts
  <2>4. RoundsBegun' /\ FuturesIdle' /\ FuturesUnused' /\ CurrentUnused'
    BY <2>1, <2>2, <2>3
       DEF OrderInv, RoundsBegun, FuturesIdle, FuturesUnused, CurrentUnused, Unused
  <2>5. HandedOverLaunched' /\ AcceptedOnce'
    BY <2>1, <2>2, <2>3 DEF OrderInv, HandedOverLaunched, AcceptedOnce
  <2> QED
    BY <2>4, <2>5 DEF OrderInv
<1>2. CASE ~Get
  <2>1. UNCHANGED <<queue, accepted, launched, round, future, current, mainPc>>
    BY <1>2 DEF ResultDumpStep, LoadStart, Load, LoadRaises, CheckEndEvent,
       CheckEmpty, GetTimeout, IgnoreError, KeepResult, StoreResult,
       WriteResult, ReportResult, RdLeaves, mainVars
  <2> QED
    BY <2>1, OrderUnchanged
<1> QED
  BY <1>1, <1>2

\* Every step keeps the order.
LEMMA OrderNext ==
  ASSUME TypeInv, OrderInv, [Next]_vars
  PROVE  OrderInv'
<1>1. CASE MainStep
  BY <1>1, MainQuietOrder, BeginRoundOrder, SubmitOrder, CollectOrder,
     PutAppendOrder, EndRoundOrder DEF MainStep
<1>2. CASE \E r \in Relays : WorkerStep(r)
  BY <1>2, WorkerOrder
<1>3. CASE ResultDumpStep
  BY <1>3, ResultDumpOrder
<1>4. CASE Sigterm
  BY <1>4, MainQuietOrder
<1>5. CASE Age \/ UNCHANGED vars
  <2>1. UNCHANGED <<queue, accepted, launched, round, future, current, mainPc>>
    BY <1>5 DEF Age, vars, mainVars, historyVars
  <2> QED
    BY <2>1, OrderUnchanged
<1> QED
  BY <1>1, <1>2, <1>3, <1>4, <1>5 DEF Next

-----------------------------------------------------------------------------
\* A step that moves no result between the queue and the datadir.
LEMMA PlacesUnchanged ==
  ASSUME EachResultAccountedFor,
         UNCHANGED <<queue, accepted, ignored, unwritten, disk, InHand>>
  PROVE  EachResultAccountedFor'
<1>1. UNCHANGED <<Queued, Settled>>
  BY DEF Queued, Settled
<1> QED
  BY <1>1 DEF EachResultAccountedFor

\* PutAppend puts one more result in the queue; it was nowhere before.
LEMMA PutAppendPlaces ==
  ASSUME AccountInv, PutAppend
  PROVE  EachResultAccountedFor'
<1> DEFINE new == {i \in {current} : i.kind # "nothing"}
<1>1. /\ mainPc = "putting" /\ queue' = Append(queue, current)
      /\ accepted' = accepted \cup new
      /\ UNCHANGED <<rdPc, rdItem, ignored, unwritten, disk>>
  BY DEF PutAppend, MainGoes, MainLeaves
<1>2. current \in Item /\ queue \in Seq(Item)
  BY <1>1 DEF AccountInv, TypeInv, TypeOK, Hands
<1>3. AttemptOf(current) \notin QueuedAttempts \cup AcceptedAttempts
  BY <1>1 DEF AccountInv, OrderInv, CurrentUnused, Unused
<1>4. current \notin accepted
  BY <1>3 DEF AcceptedAttempts
<1>5. Queued' = Queued \cup new
  <2>1. Queued' \subseteq Queued \cup new
    BY <1>1, <1>2, AppendItems DEF Queued
  <2>2. Queued \subseteq Queued'
    BY <1>1, <1>2, AppendKeepsQueued DEF Queued
  <2>3. new \subseteq Queued'
    BY <1>1, <1>2, AppendQueues DEF Queued
  <2> QED
    BY <2>1, <2>2, <2>3
<1>6. UNCHANGED <<InHand, Settled>>
  BY <1>1 DEF InHand, Settled
<1>7. \A i, j \in DOMAIN queue' :
         i # j => AttemptOf(queue'[i]) # AttemptOf(queue'[j])
  <2> SUFFICES ASSUME NEW i \in DOMAIN queue', NEW j \in DOMAIN queue', i # j
               PROVE  AttemptOf(queue'[i]) # AttemptOf(queue'[j])
    OBVIOUS
  <2>1. \A k \in DOMAIN queue : AttemptOf(queue[k]) # AttemptOf(current)
    BY <1>3 DEF QueuedAttempts
  <2>2. \/ i \in DOMAIN queue /\ queue'[i] = queue[i]
        \/ i = Len(queue) + 1 /\ queue'[i] = current
    BY <1>1, <1>2, AppendItems
  <2>3. \/ j \in DOMAIN queue /\ queue'[j] = queue[j]
        \/ j = Len(queue) + 1 /\ queue'[j] = current
    BY <1>1, <1>2, AppendItems
  <2>4. \A k, l \in DOMAIN queue : k # l => AttemptOf(queue[k]) # AttemptOf(queue[l])
    BY DEF AccountInv, EachResultAccountedFor
  <2> QED
    BY <2>1, <2>2, <2>3, <2>4
<1> QED
  BY <1>1, <1>4, <1>5, <1>6, <1>7 DEF AccountInv, EachResultAccountedFor

\* Get moves the head of the queue to the hand of the ResultDump thread.
LEMMA GetPlaces ==
  ASSUME AccountInv, Get
  PROVE  EachResultAccountedFor'
<1> DEFINE new == {i \in {Head(queue)} : i.kind # "nothing"}
<1>1. /\ queue \in Seq(Item) /\ queue # <<>> /\ queue' = Tail(queue)
      /\ UNCHANGED <<accepted, ignored, unwritten, disk>>
  BY DEF Get, Dequeue, RdLeaves, AccountInv, TypeInv, TypeOK
<1>2. InHand = {} /\ InHand' = new
  BY DEF Get, InHand, RdGoes
<1>3. \A k, l \in DOMAIN queue : k # l => AttemptOf(queue[k]) # AttemptOf(queue[l])
  BY DEF AccountInv, EachResultAccountedFor
<1>4. Queued = Queued' \cup new
  <2>1. Queued \subseteq Queued' \cup new
    BY <1>1, TailKeepsQueued DEF Queued
  <2>2. Queued' \cup new \subseteq Queued
    BY <1>1, TailItems DEF Queued
  <2> QED
    BY <2>1, <2>2
<1>5. Head(queue) \notin Queued'
  BY <1>1, <1>3, TailItems DEF Queued
<1>6. \A i, j \in DOMAIN queue' :
         i # j => AttemptOf(queue'[i]) # AttemptOf(queue'[j])
  BY <1>1, <1>3, TailItems
<1>7. Settled' = Settled
  BY <1>1 DEF Settled
<1> QED
  BY <1>1, <1>2, <1>4, <1>5, <1>6, <1>7 DEF AccountInv, EachResultAccountedFor

\* IgnoreError and WriteResult settle the result in hand, which is of a
\* round of this run.
LEMMA SettlePlaces ==
  ASSUME AccountInv, IgnoreError \/ \E written \in BOOLEAN : WriteResult(written)
  PROVE  EachResultAccountedFor'
<1>1. InHand = {rdItem} /\ InHand' = {} /\ UNCHANGED <<queue, accepted, Queued>>
  BY DEF IgnoreError, WriteResult, InHand, RdGoes, RdLeaves, Queued
<1>2. rdItem \in accepted
  BY <1>1 DEF AccountInv, EachResultAccountedFor
<1>3. AttemptOf(rdItem) \in launched
  BY <1>2 DEF AccountInv, OrderInv, HandedOverLaunched, AcceptedAttempts
<1>4. AttemptOf(rdItem).round \in 1..round /\ round \in Nat
  BY <1>3, RoundsAssumption DEF AccountInv, OrderInv, RoundsBegun, TypeInv, TypeOK
<1>5. AttemptOf(rdItem).round = rdItem.round
  BY DEF AttemptOf
<1>6. rdItem.round > 0
  BY <1>4, <1>5
<1>7. /\ ignored' \cup unwritten' \cup disk' = ignored \cup unwritten \cup disk \cup {rdItem}
      /\ \/ ignored' = ignored \cup {rdItem} /\ UNCHANGED <<unwritten, disk>>
         \/ unwritten' = unwritten \cup {rdItem} /\ UNCHANGED <<ignored, disk>>
         \/ disk' = disk \cup {rdItem} /\ UNCHANGED <<ignored, unwritten>>
  BY DEF IgnoreError, WriteResult
<1>8. Settled' = Settled \cup {rdItem}
  BY <1>6, <1>7 DEF Settled
<1>9. rdItem \notin ignored \cup unwritten \cup disk
  BY <1>1, <1>6 DEF AccountInv, EachResultAccountedFor, Settled
<1> QED
  BY <1>1, <1>7, <1>8, <1>9 DEF AccountInv, EachResultAccountedFor

\* The inductive invariant behind the two theorems below.
LEMMA AccountNext ==
  ASSUME AccountInv, BornByMain', TypeInv', [Next]_vars
  PROVE  AccountInv'
<1>1. OrderInv'
  BY OrderNext DEF AccountInv
<1>2. EachResultAccountedFor'
  <2>1. CASE MainElsewhere
    <3>1. UNCHANGED <<accepted, queue, rdItem, ignored, unwritten, disk>>
      BY <2>1, MainElsewhereFrame
    <3>2. rdPc' = rdPc \/ (rdPc = "unborn" /\ rdPc' = "start")
      BY <2>1, MainElsewhereFrame DEF AccountInv, BornByMain
    <3>3. InHand' = InHand
      BY <3>1, <3>2 DEF InHand
    <3> QED
      BY <3>1, <3>3, PlacesUnchanged DEF AccountInv
  <2>2. CASE PutAppend
    BY <2>2, PutAppendPlaces
  <2>3. CASE \E r \in Relays : WorkerStep(r)
    BY <2>3, PlacesUnchanged DEF AccountInv, WorkerStep, Dispatch, Measured,
       WorkerLeaves, rdVars, historyVars, InHand
  <2>4. CASE Get
    BY <2>4, GetPlaces
  <2>5. CASE IgnoreError \/ \E written \in BOOLEAN : WriteResult(written)
    BY <2>5, SettlePlaces
  <2>6. CASE LoadStart \/ Load \/ LoadRaises \/ CheckEndEvent \/ CheckEmpty \/ GetTimeout
    BY <2>6, PlacesUnchanged DEF AccountInv, LoadStart, Load, LoadRaises,
       CheckEndEvent, CheckEmpty, GetTimeout, RdGoes, RdLeaves, InHand
  <2>7. CASE KeepResult \/ StoreResult \/ ReportResult
    BY <2>7, PlacesUnchanged DEF AccountInv, KeepResult, StoreResult,
       ReportResult, RdGoes, RdLeaves, InHand
  <2>8. CASE Age \/ UNCHANGED vars
    BY <2>8, PlacesUnchanged DEF AccountInv, Age, vars, rdVars, historyVars, InHand
  <2> QED
    BY <2>1, <2>2, <2>3, <2>4, <2>5, <2>6, <2>7, <2>8
       DEF Next, MainStep, MainElsewhere, ResultDumpStep
<1> QED
  BY <1>1, <1>2 DEF AccountInv

\* No result is in a place before the first one is accepted.
LEMMA AccountInit == Init => AccountInv
<1> SUFFICES ASSUME Init PROVE AccountInv
  OBVIOUS
<1>1. TypeInv /\ BornByMain
  BY InitTypeInv DEF Init, BornByMain
<1>2. queue = <<>> /\ DOMAIN queue = {}
  BY DEF Init
<1>3. QueuedAttempts = {} /\ AcceptedAttempts = {} /\ Queued = {}
  BY <1>2 DEF Init, QueuedAttempts, AcceptedAttempts, Queued
<1>4. OrderInv
  BY <1>3 DEF Init, OrderInv, RoundsBegun, FuturesIdle, FuturesUnused,
              CurrentUnused, HandedOverLaunched, AcceptedOnce
<1>5. {r \in disk : r.round > 0} = {}
  <2>1. \A r \in disk : r.round = 0
    BY DEF Init
  <2> QED
    BY <2>1
<1>6. EachResultAccountedFor
  BY <1>2, <1>3, <1>5 DEF Init, EachResultAccountedFor, InHand, Settled
<1> QED
  BY <1>1, <1>4, <1>6 DEF AccountInv

\* The order in which attempts are launched, measured and handed over, and
\* the places of the results, for every interleaving of the threads.
THEOREM AccountInvariant == Spec => []AccountInv
<1>1. Init => AccountInv
  BY AccountInit
<1>2. AccountInv /\ BornByMain' /\ TypeInv' /\ [Next]_vars => AccountInv'
  BY AccountNext
<1> QED
  BY <1>1, <1>2, TypeCorrect, BornByMainHolds, PTL DEF Spec

\* No result is lost, duplicated or invented between its future and the
\* datadir, whatever the threads, the exceptions and SIGTERM do.
THEOREM EachResultAccountedForHolds == Spec => []EachResultAccountedFor
<1>1. AccountInv => EachResultAccountedFor
  BY DEF AccountInv
<1> QED
  BY <1>1, AccountInvariant, PTL

-----------------------------------------------------------------------------
(***************************************************************************)
(* Scanner implements MeasurementLog: Submit launches, WriteResult records *)
(* and SIGTERM, or the end of the round of a testing network, stops; every *)
(* other step stutters.                                                    *)
(***************************************************************************)

\* The steps of the main thread and of the workers that MeasurementLog does
\* not see.
LEMMA MainStutters ==
  ASSUME MainElsewhere, \A batch \in SUBSET Relays : ~Submit(batch), ~EndRound, ~Sigterm
  PROVE  UNCHANGED <<launched, disk, endEvent, lateError>>
BY DEF MainElsewhere, StartResultDump, BindResultDump, BeginRound,
       ResultsForRelay, ResultsForRelayReturns, Collect, CollectException,
       FailureLogged, PutLock, PutUnlock, JoinResultDump, Unwind,
       MainGoes, MainLeaves

\* ReportResult sets nothing: the type of no result is "error-destination".
LEMMA ReportSetsNothing ==
  ASSUME TypeInv, ReportResult
  PROVE  endEvent' = endEvent
<1>1. rdItem.kind \in {"success", "error", "destination"}
  BY DEF ReportResult, RdGoes, TypeInv, Hands, Result, Kinds, ErrorKinds
<1>2. ResultType(rdItem) # "error-destination"
  BY <1>1 DEF ResultType
<1>3. endEvent \in BOOLEAN
  BY DEF TypeInv, TypeOK
<1> QED
  BY <1>2, <1>3 DEF ReportResult

\* Once an error was written after the stop, the next ones are ignored.
LEMMA OneLateErrorNext ==
  ASSUME TypeInv, OneLateError, [Next]_vars
  PROVE  OneLateError'
<1>1. lateError \in BOOLEAN /\ endEvent \in BOOLEAN
  BY DEF TypeInv, TypeOK
<1>2. CASE MainElsewhere \/ PutAppend
  <2>1. endEvent => endEvent'
    BY <1>2 DEF MainElsewhere, PutAppend, StartResultDump, BindResultDump,
       BeginRound, ResultsForRelay, ResultsForRelayReturns, Submit, Collect,
       CollectException, FailureLogged, PutLock, PutUnlock, EndRound,
       JoinResultDump, Unwind, Sigterm, MainGoes
  <2>2. UNCHANGED <<lateError, rdItem>> /\ (rdPc' = rdPc \/ rdPc' = "start")
    BY <1>2 DEF MainElsewhere, PutAppend, StartResultDump, BindResultDump,
       BeginRound, ResultsForRelay, ResultsForRelayReturns, Submit, Collect,
       CollectException, FailureLogged, PutLock, PutUnlock, EndRound,
       JoinResultDump, Unwind, Sigterm, MainLeaves
  <2> QED
    BY <2>1, <2>2 DEF OneLateError
<1>3. CASE \E r \in Relays : WorkerStep(r)
  <2>1. UNCHANGED <<endEvent, rdPc, rdItem, lateError>>
    BY <1>3 DEF WorkerStep, Dispatch, Measured, WorkerLeaves, rdVars, historyVars
  <2> QED
    BY <2>1 DEF OneLateError
<1>4. CASE LoadStart \/ Load \/ LoadRaises \/ CheckEndEvent \/ CheckEmpty
             \/ Get \/ GetTimeout \/ IgnoreError
  BY <1>4 DEF OneLateError, LoadStart, Load, LoadRaises, CheckEndEvent,
     CheckEmpty, Get, GetTimeout, IgnoreError, RdGoes
<1>5. CASE KeepResult
  <2>1. endEvent => rdItem.kind \notin ErrorKinds
    BY <1>5 DEF KeepResult, IsIgnored
  <2>2. rdItem.kind \in Kinds
    BY <1>5 DEF KeepResult, RdGoes, TypeInv, Hands, Result
  <2> QED
    BY <1>5, <2>1, <2>2 DEF KeepResult, OneLateError, Kinds, ErrorKinds
<1>6. CASE StoreResult
  BY <1>6 DEF StoreResult, OneLateError, RdGoes
<1>7. ASSUME NEW written \in BOOLEAN, WriteResult(written)
      PROVE  OneLateError'
  BY <1>1, <1>7 DEF WriteResult, OneLateError, RdGoes, IsIgnored
<1>8. CASE ReportResult
  <2>1. endEvent' = endEvent
    BY <1>8, ReportSetsNothing
  <2> QED
    BY <1>8, <2>1 DEF ReportResult, OneLateError, RdGoes
<1>9. CASE Age \/ UNCHANGED vars
  BY <1>9 DEF OneLateError, Age, vars, rdVars, historyVars
<1> QED
  BY <1>2, <1>3, <1>4, <1>5, <1>6, <1>7, <1>8, <1>9
     DEF Next, MainStep, MainElsewhere, ResultDumpStep

LogInv == DrainInv /\ AccountInv /\ OneLateError

\* What is submitted is a launch of MeasurementLog: of a later round than any
\* attempt so far, before the stop.
LEMMA SubmitLaunches ==
  ASSUME LogInv, NEW batch \in SUBSET Relays, Submit(batch)
  PROVE  Log!Next
<1>1. /\ mainPc = "rank"
      /\ launched' = launched \cup [relay : batch, round : {round}]
      /\ UNCHANGED <<disk, endEvent, lateError>>
  BY DEF Submit, MainGoes, MainLeaves
<1>2. ~endEvent
  BY <1>1 DEF LogInv, DrainInv, StopFreezesMain
<1>3. round \in 1..MaxRounds /\ \A a \in launched : a.round < round
  <2>1. /\ round \in 0..MaxRounds /\ round > 0
        /\ \A a \in launched : a.round \in 1..round /\ a.round # round
    BY <1>1 DEF LogInv, AccountInv, OrderInv, RoundsBegun, TypeInv, TypeOK
  <2> QED
    BY <2>1, RoundsAssumption
<1>4. Log!Launch(batch, round)
  BY <1>1, <1>2, <1>3 DEF Log!Launch
<1> QED
  BY <1>3, <1>4 DEF Log!Next

\* What is written is the first result of an attempt that was launched.
LEMMA WriteRecords ==
  ASSUME LogInv, NEW written \in BOOLEAN, WriteResult(written)
  PROVE  Log!Next \/ UNCHANGED <<launched, disk, endEvent, lateError>>
<1>1. /\ rdPc = "write"
      /\ disk' = IF written THEN disk \cup {rdItem} ELSE disk
      /\ lateError' = (lateError \/ (written /\ IsIgnored))
      /\ UNCHANGED <<launched, endEvent>>
  BY DEF WriteResult, RdGoes, RdLeaves
<1>2. lateError \in BOOLEAN
  BY DEF LogInv, AccountInv, TypeInv, TypeOK
<1>3. CASE ~written
  BY <1>1, <1>2, <1>3
<1>4. CASE written
  <2>1. InHand = {rdItem} /\ rdItem \in accepted
    BY <1>1 DEF InHand, LogInv, AccountInv, EachResultAccountedFor
  <2>2. AttemptOf(rdItem) \in launched
    BY <2>1 DEF LogInv, AccountInv, OrderInv, HandedOverLaunched, AcceptedAttempts
  <2>3. rdItem \in Result /\ round \in 0..MaxRounds
    BY <1>1 DEF LogInv, AccountInv, TypeInv, TypeOK, Hands
  <2>4. rdItem.round \in 1..round
    BY <2>2 DEF LogInv, AccountInv, OrderInv, RoundsBegun, AttemptOf
  <2>5. \A other \in disk : AttemptOf(other) # AttemptOf(rdItem)
    <3> SUFFICES ASSUME NEW other \in disk, AttemptOf(other) = AttemptOf(rdItem)
                 PROVE  FALSE
      OBVIOUS
    <3>1. other.round = rdItem.round
      BY DEF AttemptOf
    <3>2. other.round > 0
      BY <2>4, <3>1
    <3>3. other \in Settled /\ other \in accepted
      BY <3>2 DEF Settled, LogInv, AccountInv, EachResultAccountedFor
    <3>4. other = rdItem
      BY <2>1, <3>3 DEF LogInv, AccountInv, OrderInv, AcceptedOnce
    <3> QED
      BY <2>1, <3>3, <3>4 DEF LogInv, AccountInv, EachResultAccountedFor
  <2>6. rdItem.kind \in {"success", "error", "destination"}
    BY <2>3 DEF Result, Kinds, ErrorKinds
  <2>7. IsIgnored <=> (endEvent /\ rdItem.kind # "success")
    BY <2>6 DEF IsIgnored, ErrorKinds
  <2>8. (endEvent /\ rdItem.kind # "success") => ~lateError
    BY <1>1 DEF LogInv, OneLateError
  <2>9. Log!Record(rdItem)
    BY <1>1, <1>4, <2>2, <2>5, <2>7, <2>8 DEF Log!Record, AttemptOf, Log!AttemptOf
  <2>10. rdItem \in [relay : Relays, round : 1..MaxRounds,
                      kind : {"success", "error", "destination"}]
    BY <2>3, <2>4, RoundsAssumption DEF Result, Kinds, ErrorKinds
  <2> QED
    BY <2>9, <2>10 DEF Log!Next
<1> QED
  BY <1>3, <1>4

\* Every step of Scanner is a step of MeasurementLog or a stutter of it.
LEMMA StepsImplement ==
  ASSUME LogInv, [Next]_vars
  PROVE  Log!Next \/ UNCHANGED <<launched, disk, endEvent, lateError>>
<1>1. CASE \E batch \in SUBSET Relays : Submit(batch)
  BY <1>1, SubmitLaunches
<1>2. CASE EndRound \/ Sigterm
  <2>1. UNCHANGED <<launched, disk, lateError>> /\ (endEvent' = endEvent \/ endEvent' = TRUE)
    BY <1>2 DEF EndRound, Sigterm, MainGoes, MainLeaves
  <2>2. endEvent \in BOOLEAN
    BY DEF LogInv, AccountInv, TypeInv, TypeOK
  <2> QED
    BY <2>1, <2>2 DEF Log!Next, Log!Stop
<1>3. CASE MainElsewhere /\ ~EndRound /\ ~Sigterm
             /\ \A batch \in SUBSET Relays : ~Submit(batch)
  BY <1>3, MainStutters
<1>4. CASE PutAppend
  BY <1>4 DEF PutAppend, MainGoes, MainLeaves
<1>5. CASE \E r \in Relays : WorkerStep(r)
  BY <1>5 DEF WorkerStep, Dispatch, Measured, WorkerLeaves, rdVars, historyVars
<1>6. CASE \E written \in BOOLEAN : WriteResult(written)
  BY <1>6, WriteRecords
<1>7. CASE ReportResult
  <2>1. endEvent' = endEvent
    BY <1>7, ReportSetsNothing DEF LogInv, AccountInv
  <2> QED
    BY <1>7, <2>1 DEF ReportResult, RdLeaves
<1>8. CASE LoadStart \/ Load \/ LoadRaises \/ CheckEndEvent \/ CheckEmpty \/ Get
             \/ GetTimeout \/ IgnoreError \/ KeepResult \/ StoreResult
  BY <1>8 DEF LoadStart, Load, LoadRaises, CheckEndEvent, CheckEmpty, Get,
     GetTimeout, IgnoreError, KeepResult, StoreResult, RdLeaves
<1>9. CASE Age \/ UNCHANGED vars
  BY <1>9 DEF Age, vars, rdVars, historyVars
<1> QED
  BY <1>1, <1>2, <1>3, <1>4, <1>5, <1>6, <1>7, <1>8, <1>9
     DEF Next, MainStep, MainElsewhere, ResultDumpStep

\* The scanner keeps what MeasurementLog promises: each attempt leaves at most
\* one result in the datadir, nothing is launched once it is stopping, and
\* from then on only successes, and one error at most, are recorded.
THEOREM ScannerImplementsLog == Spec => ImplementsMeasurementLog
<1>1. Init => Log!Init
  BY RoundsAssumption DEF Init, Log!Init, Log!EarlierResults
<1>2. Init => OneLateError
  BY DEF Init, OneLateError
<1>3. TypeInv /\ OneLateError /\ [Next]_vars => OneLateError'
  BY OneLateErrorNext
<1>4. DrainInv => TypeInv
  BY DEF DrainInv
<1>5. DrainInv /\ AccountInv /\ OneLateError => LogInv
  BY DEF LogInv
<1>6. LogInv /\ [Next]_vars => [Log!Next]_(Log!absVars)
  BY StepsImplement DEF Log!absVars
<1> QED
  BY <1>1, <1>2, <1>3, <1>4, <1>5, <1>6, DrainInvariant, AccountInvariant, PTL
     DEF Spec, ImplementsMeasurementLog, Log!Spec

-----------------------------------------------------------------------------
\* The ResultDump thread stores a result before it writes it.
LEMMA MemoryNext ==
  ASSUME TypeInv, BornByMain, MemoryInv, [Next]_vars
  PROVE  MemoryInv'
<1>1. CASE MainElsewhere \/ PutAppend
  <2>1. /\ UNCHANGED <<data, disk, unwritten, oldest, rdItem, loadFailed>>
        /\ rdPc' = rdPc \/ rdPc' = "start"
    BY <1>1 DEF MainElsewhere, PutAppend, StartResultDump, BindResultDump,
       BeginRound, ResultsForRelay, ResultsForRelayReturns, Submit, Collect,
       CollectException, FailureLogged, PutLock, PutUnlock, EndRound,
       JoinResultDump, Unwind, Sigterm, MainLeaves
  <2> QED
    BY <2>1 DEF MemoryInv
<1>2. CASE \E r \in Relays : WorkerStep(r)
  <2>1. UNCHANGED <<data, disk, unwritten, oldest, rdPc, rdItem, loadFailed>>
    BY <1>2 DEF WorkerStep, Dispatch, Measured, WorkerLeaves, rdVars, historyVars
  <2> QED
    BY <2>1 DEF MemoryInv
<1>3. CASE Load
  BY <1>3 DEF Load, TrimResults, RdGoes, RdLeaves, MemoryInv
<1>4. CASE LoadStart \/ LoadRaises
  BY <1>4 DEF LoadStart, LoadRaises, RdGoes, MemoryInv
<1>5. CASE CheckEndEvent \/ CheckEmpty \/ Get \/ GetTimeout
  BY <1>5 DEF CheckEndEvent, CheckEmpty, Get, GetTimeout, RdGoes, RdLeaves, MemoryInv
<1>6. CASE IgnoreError \/ KeepResult \/ ReportResult
  BY <1>6 DEF IgnoreError, KeepResult, ReportResult, RdGoes, RdLeaves, MemoryInv
<1>7. CASE StoreResult
  BY <1>7 DEF StoreResult, TrimResults, RdGoes, RdLeaves, MemoryInv
<1>8. ASSUME NEW written \in BOOLEAN, WriteResult(written)
      PROVE  MemoryInv'
  BY <1>8 DEF WriteResult, RdGoes, RdLeaves, MemoryInv
<1>9. CASE Age
  <2>1. /\ oldest' = oldest + 1 /\ oldest \in Nat
        /\ UNCHANGED <<data, disk, unwritten, rdPc, rdItem, loadFailed>>
    BY <1>9, RoundsAssumption DEF Age, rdVars, historyVars, TypeInv, TypeOK
  <2>2. \A r \in disk : r.round \in Nat
    BY RoundsAssumption DEF TypeInv, TypeOK, Result
  <2>3. rdPc = "write" => rdItem.round \in Nat
    BY RoundsAssumption DEF TypeInv, Hands, Result
  <2>4. \A n \in Nat : n >= oldest + 1 => n >= oldest
    BY <2>1
  <2> QED
    BY <2>1, <2>2, <2>3, <2>4 DEF MemoryInv
<1>10. CASE UNCHANGED vars
  BY <1>10 DEF MemoryInv, vars, rdVars, historyVars
<1> QED
  BY <1>1, <1>2, <1>3, <1>4, <1>5, <1>6, <1>7, <1>8, <1>9, <1>10
     DEF Next, MainStep, MainElsewhere, ResultDumpStep

\* What best_priority sees agrees with the datadir, whatever fails to be
\* written and however many days pass.
THEOREM MemoryMatchesDatadirHolds == Spec => []MemoryMatchesDatadir
<1>1. Init => MemoryInv
  BY DEF Init, MemoryInv
<1>2. TypeInv /\ BornByMain /\ MemoryInv /\ [Next]_vars => MemoryInv'
  BY MemoryNext
<1>3. MemoryInv => MemoryMatchesDatadir
  BY DEF MemoryInv, MemoryMatchesDatadir, InHand
<1> QED
  BY <1>1, <1>2, <1>3, TypeCorrect, BornByMainHolds, PTL DEF Spec
=============================================================================
