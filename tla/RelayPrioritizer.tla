-------------------------- MODULE RelayPrioritizer --------------------------
(***************************************************************************)
(* The rounds of the scanner as relays see them: best_priority ranks the   *)
(* relays of the list by the results that the ResultDump thread has        *)
(* stored, the first of them are measured, and their results are stored    *)
(* some time after. The process may be killed and started again: what it   *)
(* has stored stays, in the datadir and in the state file.                 *)
(*                                                                         *)
(* A refresh of the list is one step here, RelayList has them all; so is a *)
(* measurement, see Scanner and MeasureRelay. Timestamps are ages, as in   *)
(* RelayList.                                                              *)
(***************************************************************************)
EXTENDS Naturals, Sequences, FiniteSets, SequencesExt

CONSTANTS
  Fingerprints,        \* relays that may be in a consensus
  Exits,               \* ...those with the flag Exit
  Authorities,         \* ...and with the flag Authority
  Consensuses,         \* the sets of relays a consensus may be of
  MeasureAuthorities,  \* options measure_authorities, min_relays...
  MinRelays,
  Fraction,            \* ...and fraction_relays, <<1, 20>> by default
  Period,              \* ticks in MEASUREMENTS_PERIOD and data_period
  MaxWait,             \* see NoRelayStarves
  MaxRestarts          \* bound: how often the process is started again

ASSUME OptionsAssumption ==
  /\ MeasureAuthorities \in BOOLEAN /\ MinRelays \in Nat \ {0}
  /\ Fraction \in Nat \X (Nat \ {0}) /\ Fraction[1] <= Fraction[2]
ASSUME RelaysAssumption ==
  \A c \in Consensuses : c \subseteq Fingerprints /\ IsFiniteSet(c)
ASSUME BoundsAssumption ==
  Period \in Nat \ {0} /\ MaxWait \in Nat /\ MaxRestarts \in Nat

VARIABLES
  at,         \* where the main thread is in main_loop and best_priority
  list,       \* the relays of RelayList
  copies,     \* those that best_priority has copied, less the authorities
  priority,   \* the priority of those it has ranked
  targets,    \* measurements submitted that have not ended
  queue,      \* results that are not stored yet
  stored,     \* per relay, the ages of the results in ResultDump.data
  recentPriorityRelay,  \* _recent_priority_relay: when and how many, oldest first
  stateFile,  \* the same key in the state file
  \* History
  waited,     \* rounds that a relay has been in the list and not among the first
  lists,      \* what recentPriorityRelay would be, had the process never stopped
  restarts,
  sinceStart  \* ticks since the process was started

roundVars   == <<copies, priority, targets, waited>>
countVars   == <<recentPriorityRelay, stateFile, lists>>
restartVars == <<restarts, sinceStart>>
vars == <<at, list, roundVars, queue, stored, countVars, restartVars>>

-----------------------------------------------------------------------------
Min2(a, b) == IF a < b THEN a ELSE b
Max2(a, b) == IF a < b THEN b ELSE a

IsOld(age) == age > Period
Older(age) == Min2(age + 1, Period + 1)

\* Mutant of UpdatedSeq: old items are kept.
AppendedSeq(seq, item) == Append(seq, item)

\* The items of a sequence, the ages of which are these, that are not old: a
\* filter, as a function, for the proofs.
NotOld(seq, ages) ==
  LET kept[n \in 0..Len(seq)] ==
        IF n = 0 THEN << >>
        ELSE IF IsOld(ages[n]) THEN kept[n - 1] ELSE Append(kept[n - 1], seq[n])
  IN  kept[Len(seq)]

AgesOf(seq) == [i \in DOMAIN seq |-> seq[i].age]

\* DateTimeIntSeq.update
UpdatedSeq(seq, item) == Append(NotOld(seq, AgesOf(seq)), item)

\* DateTimeIntSeq.__len__, and State.count of what is in the file
Count(seq) ==
  LET sum[n \in 0..Len(seq)] == IF n = 0 THEN 0 ELSE sum[n - 1] + seq[n].number
  IN  sum[Len(seq)]

OlderSeq(seq) == [i \in DOMAIN seq |-> [seq[i] EXCEPT !.age = Older(@)]]

\* The priority of a relay, the sum of the freshness of its results. A result
\* older than fresh_seconds is ignored. main_loop does not prioritize errors.
Freshness(age) == IF IsOld(age) THEN 0 ELSE Period - age
Priority(fp) ==
  LET sum[n \in 0..Len(stored[fp])] ==
        IF n = 0 THEN 0 ELSE sum[n - 1] + Freshness(stored[fp][n])
  IN  sum[Len(stored[fp])]

\* cutoff, and the length of relays[0:upper_limit]
UpperLimit(n) == Min2(n, Max2((n * Fraction[1]) \div Fraction[2], MinRelays))

\* relays.difference(set(authorities)). Relay has no __eq__: an object is equal
\* to itself only, and these relays are copies.
Difference(fps, authorities) ==
  {relay[1] : relay \in (fps \X {"copy"}) \ (authorities \X {"list"})}

-----------------------------------------------------------------------------
Init ==
  /\ at = "loop"
  /\ list \in {c \in Consensuses : c \cap Exits # {}}
  /\ copies = {} /\ priority = << >> /\ targets = {}
  /\ queue = << >> /\ stored = [fp \in Fingerprints |-> << >>]
  /\ recentPriorityRelay = << >> /\ stateFile = << >> /\ lists = << >>
  /\ restarts = 0 /\ sinceStart = 0
  /\ waited = [fp \in Fingerprints |-> 0]

\* Mutant of Refresh: the exception is only logged.
RefreshLogged ==
  /\ at \in {"loop", "copied", "measure"}
  /\ list' \in Consensuses \ {list}
  /\ UNCHANGED <<at, roundVars, queue, stored, countVars, restartVars>>

\* Someone who reads the list refreshes it, before the main thread does or while
\* the relays are measured. One with no exits raises IndexError,
\* after the list was replaced: in the main thread that is the end of main_loop,
\* and so it is in a measurer, when its future is collected, see Scanner.
Refresh ==
  /\ at \in {"loop", "copied", "measure"}
  /\ \E c \in Consensuses \ {list} :
       /\ list' = c
       /\ at' = IF c \cap Exits = {} THEN "ended" ELSE at
  /\ UNCHANGED <<roundVars, queue, stored, countVars, restartVars>>

\* copy.deepcopy(self.relay_list.relays)
CopyRelays ==
  /\ at = "loop" /\ at' = "copied"
  /\ copies' = list
  /\ UNCHANGED <<list, priority, targets, waited, queue, stored, countVars,
                 restartVars>>

\* The authorities of the list as it is now.
WithoutAuthorities ==
  /\ at = "copied" /\ at' = "ranking"
  /\ copies' = IF MeasureAuthorities THEN copies
               ELSE Difference(copies, Authorities \cap list)
  /\ UNCHANGED <<list, priority, targets, waited, queue, stored, countVars,
                 restartVars>>

\* results_for_relay, under data_lock, and the sum.
Rank(fp) ==
  /\ at = "ranking"
  /\ fp \in copies \ DOMAIN priority
  /\ priority' = [f \in DOMAIN priority \cup {fp} |->
                    IF f = fp THEN Priority(fp) ELSE priority[f]]
  /\ UNCHANGED <<at, list, copies, targets, waited, queue, stored, countVars,
                 restartVars>>

\* Mutant of FirstRelays: the list is sorted the other way.
LastRelays ==
  {first \in SUBSET copies :
     /\ Cardinality(first) = UpperLimit(Cardinality(copies))
     /\ \A fp \in first, other \in copies \ first : priority[fp] >= priority[other]}

\* The first relays after sorting by priority. The order of relays with the
\* same priority is that of a set of objects, any.
FirstRelays ==
  {first \in SUBSET copies :
     /\ Cardinality(first) = UpperLimit(Cardinality(copies))
     /\ \A fp \in first, other \in copies \ first : priority[fp] <= priority[other]}

\* increment_recent_priority_relay, in memory and in the state file. (The list
\* _recent_priority_list is updated with it, with one timestamp for each.)
Increment(number) ==
  LET item == [age |-> 0, number |-> number]
  IN  /\ recentPriorityRelay' = UpdatedSeq(recentPriorityRelay, item)
      /\ stateFile' = recentPriorityRelay'
      /\ lists' = Append(NotOld(lists, AgesOf(lists)), item)

\* The end of best_priority, and the submission of all its relays.
BestPriority ==
  /\ at = "ranking" /\ DOMAIN priority = copies
  /\ at' = "measure"
  /\ \E first \in FirstRelays :
       /\ targets' = first
       /\ waited' = [fp \in Fingerprints |->
                       IF fp \in copies \ first THEN Min2(waited[fp] + 1, MaxWait + 1)
                       ELSE 0]
  /\ Increment(Cardinality(targets'))
  /\ priority' = << >>
  /\ UNCHANGED <<list, copies, queue, stored, restartVars>>

\* A measurement ends with a result, an error or not, which goes to the queue.
Measured(fp) ==
  /\ fp \in targets
  /\ targets' = targets \ {fp}
  /\ queue' = Append(queue, [relay |-> fp, age |-> 0])
  /\ UNCHANGED <<at, list, copies, priority, waited, stored, countVars,
                 restartVars>>

\* The ResultDump thread, less than a round behind, stores a result.
StoreResult ==
  /\ queue # << >>
  /\ queue' = Tail(queue)
  /\ stored' = [stored EXCEPT ![Head(queue).relay] =
                  Append(NotOld(@, @), Head(queue).age)]
  /\ UNCHANGED <<at, list, roundVars, countVars, restartVars>>

\* A tick, which is what a round takes, and a restart.
TimePasses ==
  /\ stored' = [fp \in Fingerprints |-> [i \in DOMAIN stored[fp] |-> Older(stored[fp][i])]]
  /\ stateFile' = OlderSeq(stateFile) /\ lists' = OlderSeq(lists)

\* Mutant of AllMeasured: the futures are not waited for.
NotAwaited == TRUE

\* process_completed_futures and wait_futures_completed return.
AllMeasured == targets = {}

EndRound ==
  /\ at = "measure" /\ at' = "loop"
  /\ AllMeasured
  /\ Len(queue) <= UpperLimit(Cardinality(copies))
  /\ copies' = {}
  /\ TimePasses
  /\ queue' = OlderSeq(queue)
  /\ recentPriorityRelay' = OlderSeq(recentPriorityRelay)
  /\ sinceStart' = Older(sinceStart)
  /\ UNCHANGED <<list, priority, targets, waited, restarts>>

\* The process is killed while relays are measured, or main_loop has ended, and
\* it is started again: what was in memory is gone. DateTimeIntSeq begins with no
\* items, whatever the state file has.
Restart ==
  /\ at \in {"measure", "ended"} /\ at' = "loop"
  /\ restarts < MaxRestarts /\ restarts' = restarts + 1
  /\ list' \in {c \in Consensuses : c \cap Exits # {}}
  /\ copies' = {} /\ priority' = << >> /\ targets' = {} /\ queue' = << >>
  /\ recentPriorityRelay' = << >>
  /\ sinceStart' = 0
  /\ TimePasses
  /\ UNCHANGED waited

Next ==
  \/ CopyRelays \/ WithoutAuthorities \/ BestPriority \/ EndRound
  \/ \E fp \in Fingerprints : Rank(fp) \/ Measured(fp)
  \/ StoreResult \/ Refresh \/ Restart

Spec == Init /\ [][Next]_vars

-----------------------------------------------------------------------------
(***************************************************************************)
(* Properties.                                                             *)
(***************************************************************************)

\* The type of every variable.
TypeOK ==
  /\ at \in {"loop", "copied", "ranking", "measure", "ended"}
  /\ list \in Consensuses /\ copies \subseteq Fingerprints
  /\ DOMAIN priority \subseteq copies /\ targets \subseteq copies
  /\ \A i \in DOMAIN queue : queue[i].relay \in Fingerprints
  /\ \A fp \in Fingerprints : \A i \in DOMAIN stored[fp] : stored[fp][i] \in 0..Period + 1
  /\ Len(recentPriorityRelay) <= Len(lists)

\* "The relays that were measured farther away in the past, get prioritized": a
\* relay that stays in the list is among the first again after MaxWait rounds,
\* although relays may be ranked before the results of the last round are
\* stored, others come to the list, and a restart loses what is not stored.
NoRelayStarves == \A fp \in Fingerprints : waited[fp] <= MaxWait

\* There is no round with no relays, after which main_loop would begin another
\* at once, and again: when a refresh leaves the list empty main_loop ends.
NoEmptyRound == at \in {"ranking", "measure"} => copies # {}

\* The counts in the state file, which the header of the bandwidth file is made
\* of, are never more than the relays prioritized in the last days, and just
\* that when the process has been running for those days.
CountsOfThePeriod ==
  at = "measure" =>
    /\ Count(stateFile) <= Count(lists)
    /\ sinceStart > Period => stateFile = lists

\* man_sbws.ini: "measure_authorities = {on, off}: Whether or not to measure
\* authorities."
AuthoritiesNotMeasured == ~MeasureAuthorities => targets \cap Authorities = {}

=============================================================================
