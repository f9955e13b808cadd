---------------------------- MODULE Destination ----------------------------
(***************************************************************************)
(* The Web servers the scanner downloads from, shared with no lock by the  *)
(* measurer threads. Before each measurement a thread lists the functional *)
(* destinations three times (in dispatch_worker_thread, in the condition   *)
(* of DestinationList.next and in the argument of its random.choice), and  *)
(* is_functional is not a pure question: it raises and resets the time to  *)
(* wait before a failing destination is retried.                           *)
(***************************************************************************)
EXTENDS Naturals, Sequences, FiniteSets

CONSTANTS
  NumDests,           \* number of enabled destinations in the configuration
  Threads,            \* the measurer threads
  FailuresOption,     \* option max_num_failures of a destination
  NumAttemptsStored,  \* NUM_DESTINATION_ATTEMPTS_STORED, maxlen of the deque
  DefaultDelta,       \* DELTA_SECONDS_RETRY_DESTINATION
  MaxDelta,           \* MAX_SECONDS_RETRY_DESTINATION
  Factor,             \* FACTOR_INCREMENT_DESTINATION_RETRY
  MaxAgo,             \* bound: time that passes without an attempt
  MaxOvershoot        \* bound: a delta above it is clamped before it is read

ASSUME DestsAssumption    == NumDests \in Nat \ {0}
ASSUME FailuresAssumption == FailuresOption \in Nat \ {0}
ASSUME StoredAssumption   == NumAttemptsStored \in Nat \ {0}
ASSUME DeltaAssumption    == /\ DefaultDelta \in Nat \ {0}
                             /\ MaxDelta \in Nat
                             /\ DefaultDelta <= MaxDelta
ASSUME FactorAssumption   == Factor \in Nat \ {0}
ASSUME AgoAssumption      == MaxAgo \in Nat
ASSUME OvershootAssumption == MaxOvershoot \in Nat /\ MaxDelta <= MaxOvershoot
ASSUME ThreadsAssumption  == IsFiniteSet(Threads) /\ Threads # {}

\* The order of _all_dests, that of the configuration.
Dests == 1..NumDests

\* from_config multiplies the option by the number of threads, because they
\* fail together.
MaxNumFailures == FailuresOption * Cardinality(Threads)

VARIABLES
  attempts,  \* _attempts, whether each of the last attempts succeeded
  ago,       \* time since the last of them
  delta,     \* _delta_seconds_retry
  pc,        \* per thread, where it is
  call,      \* which of the three listings it is at
  dest,      \* the destination it is evaluating, or measures with
  listed,    \* the functional ones it has found so far in this listing
  read,      \* the value of delta it has read and is about to multiply
  \* History
  streak,    \* failures of each destination since its last success
  suspect    \* destinations that ever failed MaxNumFailures times in a row

destVars    == <<attempts, ago, delta>>
threadVars  == <<pc, call, dest, listed, read>>
historyVars == <<streak, suspect>>
vars == <<destVars, threadVars, historyVars>>

Calls == {"dispatch", "condition", "choice"}
Pcs   == {"idle", "failing", "old", "increment", "store", "cap", "clamp",
          "listed", "session", "connect", "again"}

\* Mutant of LastOf: a deque without maxlen.
WholeDeque(n, s) == s

\* A bounded deque keeps its last n elements.
LastOf(n, s) == IF Len(s) <= n THEN s ELSE SubSeq(s, Len(s) - n + 1, Len(s))

\* Mutant of AreLastAttemptsFailures: all the stored attempts are counted.
AnyAttemptsFailures(d) ==
  Cardinality({i \in DOMAIN attempts[d] : ~attempts[d][i]}) >= MaxNumFailures

\* _are_last_attempts_failures()
AreLastAttemptsFailures(d) ==
  LET last == LastOf(MaxNumFailures, attempts[d])
  IN  Cardinality({i \in DOMAIN last : ~last[i]}) >= MaxNumFailures

\* _is_last_try_old_enough()
IsLastTryOldEnough(d) == ago[d] > delta[d]

\* "Initialize it as if it never failed."
Init ==
  /\ attempts = [d \in Dests |-> <<TRUE>>]
  /\ ago = [d \in Dests |-> 0]
  /\ delta = [d \in Dests |-> DefaultDelta]
  /\ pc = [t \in Threads |-> "idle"]
  /\ call = [t \in Threads |-> "dispatch"]
  /\ dest = [t \in Threads |-> 1]
  /\ listed = [t \in Threads |-> {}]
  /\ read = [t \in Threads |-> 0]
  /\ streak = [d \in Dests |-> 0]
  /\ suspect = {}

-----------------------------------------------------------------------------
Goes(t, from, to) == pc[t] = from /\ pc' = [pc EXCEPT ![t] = to]

\* A listing begins with the first destination.
List(t, which) ==
  /\ call' = [call EXCEPT ![t] = which]
  /\ dest' = [dest EXCEPT ![t] = 1]
  /\ listed' = [listed EXCEPT ![t] = {}]

\* The thread's task is over.
Done(t) == List(t, "dispatch")

\* is_functional returns, and the list comprehension goes on to the next one.
Returns(t, from, isFunctional) ==
  /\ Goes(t, from, IF dest[t] < NumDests THEN "failing" ELSE "listed")
  /\ dest' = [dest EXCEPT ![t] = IF @ < NumDests THEN @ + 1 ELSE 1]
  /\ listed' = IF isFunctional THEN [listed EXCEPT ![t] = @ \cup {dest[t]}]
                               ELSE listed
  /\ UNCHANGED <<attempts, ago, call, historyVars>>

\* A measurer thread takes a relay: dispatch_worker_thread lists.
Dispatch(t) ==
  /\ Goes(t, "idle", "failing")
  /\ UNCHANGED <<destVars, call, dest, listed, read, historyVars>>

\* is_functional of a destination whose last attempts were not all failures
\* resets the time to wait.
NotFailing(t) ==
  /\ ~AreLastAttemptsFailures(dest[t])
  /\ delta' = [delta EXCEPT ![dest[t]] = DefaultDelta]
  /\ Returns(t, "failing", TRUE)
  /\ UNCHANGED read

Failing(t) ==
  /\ Goes(t, "failing", "old")
  /\ AreLastAttemptsFailures(dest[t])
  /\ UNCHANGED <<destVars, call, dest, listed, read, historyVars>>

NotOldEnough(t) ==
  /\ ~IsLastTryOldEnough(dest[t])
  /\ Returns(t, "old", FALSE)
  /\ UNCHANGED <<delta, read>>

OldEnough(t) ==
  /\ Goes(t, "old", "increment")
  /\ IsLastTryOldEnough(dest[t])
  /\ UNCHANGED <<destVars, call, dest, listed, read, historyVars>>

\* _increment_time_to_retry: delta is read, multiplied and stored. Two threads
\* that do so in turns can raise it without end before either clamps it, which
\* MaxOvershoot cuts...
Increment(t) ==
  /\ Goes(t, "increment", "store")
  /\ delta[dest[t]] <= MaxOvershoot
  /\ read' = [read EXCEPT ![t] = delta[dest[t]]]
  /\ UNCHANGED <<destVars, call, dest, listed, historyVars>>

Store(t) ==
  /\ Goes(t, "store", "cap")
  /\ delta' = [delta EXCEPT ![dest[t]] = read[t] * Factor]
  /\ read' = [read EXCEPT ![t] = 0]
  /\ UNCHANGED <<attempts, ago, call, dest, listed, historyVars>>

\* Mutants of OverCap: the comparison the wrong way, and none.
UnderCap(d) == delta[d] < MaxDelta
NotCapped(d) == FALSE

OverCap(d) == delta[d] > MaxDelta

\* ...and compared with the cap...
UnderTheCap(t) ==
  /\ ~OverCap(dest[t])
  /\ Returns(t, "cap", TRUE)
  /\ UNCHANGED <<delta, read>>

OverTheCap(t) ==
  /\ Goes(t, "cap", "clamp")
  /\ OverCap(dest[t])
  /\ UNCHANGED <<destVars, call, dest, listed, read, historyVars>>

\* ...which it does not exceed.
Clamp(t) ==
  /\ delta' = [delta EXCEPT ![dest[t]] = MaxDelta]
  /\ Returns(t, "clamp", TRUE)
  /\ UNCHANGED read

-----------------------------------------------------------------------------
\* dispatch_worker_thread returns None, or DestinationList.next does and
\* measure_relay returns a ResultErrorDestination.
NoneFunctional(t) ==
  /\ Goes(t, "listed", "idle")
  /\ call[t] \in {"dispatch", "condition"}
  /\ listed[t] = {}
  /\ Done(t)
  /\ UNCHANGED <<destVars, read, historyVars>>

\* measure_relay makes the session...
Dispatched(t) ==
  /\ Goes(t, "listed", "session")
  /\ call[t] = "dispatch"
  /\ listed[t] # {}
  /\ UNCHANGED <<destVars, call, dest, listed, read, historyVars>>

NoSession(t) ==
  /\ Goes(t, "session", "idle")
  /\ Done(t)
  /\ UNCHANGED <<destVars, read, historyVars>>

\* ...and calls DestinationList.next, whose condition lists again...
NextCondition(t) ==
  /\ Goes(t, "session", "failing")
  /\ List(t, "condition")
  /\ UNCHANGED <<destVars, read, historyVars>>

\* ...and the argument of random.choice once more.
NextChoice(t) ==
  /\ Goes(t, "listed", "failing")
  /\ call[t] = "condition"
  /\ listed[t] # {}
  /\ List(t, "choice")
  /\ UNCHANGED <<destVars, read, historyVars>>

Choose(t, d) ==
  /\ Goes(t, "listed", "connect")
  /\ call[t] = "choice"
  /\ d \in listed[t]
  /\ dest' = [dest EXCEPT ![t] = d]
  /\ listed' = [listed EXCEPT ![t] = {}]
  /\ UNCHANGED <<destVars, call, read, historyVars>>

\* random.choice raises IndexError, which leaves measure_relay.
ChooseRaises(t) ==
  /\ Goes(t, "listed", "idle")
  /\ call[t] = "choice"
  /\ listed[t] = {}
  /\ Done(t)
  /\ UNCHANGED <<destVars, read, historyVars>>

-----------------------------------------------------------------------------
\* add_success and add_failure append to the deque.
Record(d, succeeded) ==
  /\ attempts' = [attempts EXCEPT ![d] = LastOf(NumAttemptsStored, Append(@, succeeded))]
  /\ ago' = [ago EXCEPT ![d] = 0]
  /\ streak' = [streak EXCEPT ![d] =
                  IF succeeded THEN 0
                  ELSE IF @ < MaxNumFailures THEN @ + 1 ELSE @]
  /\ suspect' = IF streak'[d] = MaxNumFailures THEN suspect \cup {d} ELSE suspect
  /\ UNCHANGED delta

\* connect_to_destination_over_circuit or upload_data succeeds or fails; the
\* measurement goes on with no further effect on the destination.
Connect(t, succeeded) ==
  /\ pc[t] \in {"connect", "again"}
  /\ pc' = [pc EXCEPT ![t] = "idle"]
  /\ Record(dest[t], succeeded)
  /\ Done(t)
  /\ UNCHANGED read

\* An exit that could not connect is tried again as entry, with the same
\* destination: a second failure from the same measurement.
ConnectFailsAsExit(t) ==
  /\ Goes(t, "connect", "again")
  /\ Record(dest[t], FALSE)
  /\ UNCHANGED <<call, dest, listed, read>>

\* No helper or no circuit, an exception, or the scanner is stopping: there
\* is no attempt.
NoAttempt(t) ==
  /\ pc[t] \in {"connect", "again"}
  /\ pc' = [pc EXCEPT ![t] = "idle"]
  /\ Done(t)
  /\ UNCHANGED <<destVars, read, historyVars>>

-----------------------------------------------------------------------------
\* Time passes for every destination, up to MaxAgo.
Tick ==
  /\ \E d \in Dests : ago[d] < MaxAgo
  /\ ago' = [d \in Dests |-> IF ago[d] < MaxAgo THEN ago[d] + 1 ELSE ago[d]]
  /\ UNCHANGED <<attempts, delta, threadVars, historyVars>>

IsFunctional(t) ==
  \/ NotFailing(t) \/ Failing(t)
  \/ NotOldEnough(t) \/ OldEnough(t)
  \/ Increment(t) \/ Store(t)
  \/ UnderTheCap(t) \/ OverTheCap(t) \/ Clamp(t)

Measure(t) ==
  \/ Dispatch(t) \/ NoneFunctional(t) \/ Dispatched(t)
  \/ NoSession(t) \/ NextCondition(t) \/ NextChoice(t)
  \/ \E d \in Dests : Choose(t, d)
  \/ ChooseRaises(t)
  \/ \E succeeded \in BOOLEAN : Connect(t, succeeded)
  \/ ConnectFailsAsExit(t)
  \/ NoAttempt(t)

Next ==
  \/ \E t \in Threads : IsFunctional(t) \/ Measure(t)
  \/ Tick

\* The threads are scheduled and always find relays to measure, since
\* main_loop begins again; time passes. A thread that is given sessions again
\* and again goes past that point, random.choice is fair to each destination
\* it can return.
Fairness ==
  /\ WF_vars(Tick)
  /\ \A t \in Threads :
        /\ WF_vars(IsFunctional(t) \/ Measure(t))
        /\ SF_vars(NextCondition(t))
        /\ \A d \in Dests : SF_vars(Choose(t, d))

Spec == Init /\ [][Next]_vars /\ Fairness

-----------------------------------------------------------------------------
(***************************************************************************)
(* Properties.                                                             *)
(***************************************************************************)

\* The type of every variable.
TypeOK ==
  /\ attempts \in [Dests -> Seq(BOOLEAN)]
  /\ \A d \in Dests : Len(attempts[d]) \in 1..NumAttemptsStored
  /\ ago \in [Dests -> 0..MaxAgo]
  /\ delta \in [Dests -> Nat]
  /\ pc \in [Threads -> Pcs]
  /\ call \in [Threads -> Calls]
  /\ dest \in [Threads -> Dests]
  /\ listed \in [Threads -> SUBSET Dests]
  /\ read \in [Threads -> Nat]
  /\ streak \in [Dests -> 0..MaxNumFailures]
  /\ suspect \in SUBSET Dests

\* The docstring of is_functional: a destination is failing when its last
\* max_num_failures attempts failed consecutively, whatever the order in which
\* the threads recorded them and however many attempts the deque has dropped.
VerdictMatchesStreak ==
  \A d \in Dests : AreLastAttemptsFailures(d) <=> streak[d] = MaxNumFailures

\* The cap on the time between retries holds although the threads multiply
\* and clamp it without a lock: it is exceeded only while some thread stands
\* between the multiplication and the comparison that clamps it.
Capping(d) == \E t \in Threads : pc[t] \in {"cap", "clamp"} /\ dest[t] = d
CappedAtRest ==
  \A d \in Dests : delta[d] > MaxDelta => Capping(d)

\* One failing destination does not hide a working one: every listing holds
\* all the destinations that have never failed max_num_failures times in a
\* row. So None, and the IndexError of random.choice, need that of all.
WorkingDestinationsListed ==
  \A t \in Threads : pc[t] = "listed" => Dests \ suspect \subseteq listed[t]

\* A failing destination is not abandoned: whatever the threads do with the
\* time to wait, each destination is chosen again.
EachDestinationRetried ==
  \A d \in Dests :
     []<>(\E t \in Threads : pc[t] = "connect" /\ dest[t] = d)

=============================================================================
