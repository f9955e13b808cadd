------------------------------ MODULE RelayList ------------------------------
(***************************************************************************)
(* relaylist.RelayList: the list of the relays in the consensus, which any *)
(* thread that looks at it refreshes when it is an hour old, under         *)
(* _refresh_lock. Most threads do not take the lock, so they see every     *)
(* step of a refresh.                                                      *)
(*                                                                         *)
(* Time is kept as ages, in ticks: a timestamp is how long ago it was, and *)
(* Ages grow together. Those past the measurements period are all the same.*)
(***************************************************************************)
EXTENDS Naturals, Sequences, FiniteSets, SequencesExt

CONSTANTS
  Threads,       \* the threads that use the list
  Fingerprints,  \* relays that may be in a consensus
  Exits,         \* ...those with the flag Exit
  Bandwidth,     \* ...and their consensus bandwidth
  Consensuses,   \* what tor may have: the relays of a consensus and its params
  Hour,          \* ticks in an hour
  Period,        \* ticks in MEASUREMENTS_PERIOD
  MaxCount       \* MAX_RECENT_CONSENSUS_COUNT

ASSUME FingerprintsAssumption ==
  Exits \subseteq Fingerprints /\ Bandwidth \in [Fingerprints -> Nat]
ASSUME ConsensusesAssumption ==
  \A c \in Consensuses : c.relays \subseteq Fingerprints /\ IsFiniteSet(c.relays)
ASSUME TimeAssumption ==
  Hour \in Nat \ {0} /\ Period \in Nat /\ Hour <= Period /\ MaxCount \in Nat \ {0}

VARIABLES
  consensus,        \* the consensus that tor has
  recentConsensus,  \* _recent_consensus, the oldest first
  relays,           \* _relays: of each, relay_in_recent_consensus
  minBw,            \* _exit_min_bw and _non_exit_min_bw
  params,           \* consensus_params_dict
  refreshLock,      \* threads that hold _refresh_lock, one at most
  statuses,         \* the router statuses that _init_relays has got
  pc,               \* where each thread is
  \* History
  presence,         \* refreshes a relay has been in with no other between them
  listAge           \* age of the consensus that relays is from

listVars    == <<relays, presence, listAge>>
derivedVars == <<minBw, params>>
vars == <<consensus, recentConsensus, listVars, derivedVars, refreshLock, statuses, pc>>

-----------------------------------------------------------------------------
(***************************************************************************)
(* timestamps.DateTimeSeq                                                  *)
(***************************************************************************)

\* is_old
IsOld(age) == age > Period

\* The ages a tick later, the old ones being all the same.
Older(age) == IF IsOld(age) THEN age ELSE age + 1

\* _remove_old. It is SelectSeq, as a function, for the proofs.
NotOld(seq) ==
  LET kept[n \in 0..Len(seq)] ==
        IF n = 0 THEN << >>
        ELSE IF IsOld(seq[n]) THEN kept[n - 1] ELSE Append(kept[n - 1], seq[n])
  IN  kept[Len(seq)]

\* update: old items go, and the first one when the deque is full.
Updated(seq, item) ==
  LET all == Append(NotOld(seq), item)
  IN  IF Len(all) > MaxCount THEN Tail(all) ELSE all

-----------------------------------------------------------------------------
\* _need_refresh
NeedRefresh == Last(recentConsensus) >= Hour

\* Mutant of LowestOfTop: the lowest of the top half.
LowestOfHalf(S) ==
  CHOOSE b \in {Bandwidth[r] : r \in S} :
    /\ Cardinality({r \in S : Bandwidth[r] < b}) <= Cardinality(S) \div 2
    /\ Cardinality({r \in S : Bandwidth[r] <= b}) > Cardinality(S) \div 2

\* In _calculate_min_bw_second_hop, the item int(len / 4) of the sorted relays.
LowestOfTop(S) ==
  CHOOSE b \in {Bandwidth[r] : r \in S} :
    /\ Cardinality({r \in S : Bandwidth[r] < b}) <= Cardinality(S) \div 4
    /\ Cardinality({r \in S : Bandwidth[r] <= b}) > Cardinality(S) \div 4

\* _calculate_min_bw_second_hop; there is an exit. With less than four relays
\* that are not exits their minimum is left as it was.
MinBwOf(list, old) ==
  [exit |-> LowestOfTop(list \cap Exits),
   nonExit |-> IF Cardinality(list \ Exits) >= 4
               THEN LowestOfTop(list \ Exits) ELSE old.nonExit]

\* What __init__ leaves. With no exits it raises IndexError.
Init ==
  /\ consensus \in {c \in Consensuses : c.relays \cap Exits # {}}
  /\ recentConsensus = <<0>>
  /\ relays = [fp \in consensus.relays |-> <<0>>]
  /\ minBw = MinBwOf(consensus.relays, [nonExit |-> 0])
  /\ params = consensus.params
  /\ refreshLock = {} /\ statuses = {}
  /\ pc = [t \in Threads |-> "idle"]
  /\ presence = [fp \in Fingerprints |-> IF fp \in consensus.relays THEN 1 ELSE 0]
  /\ listAge = 0

-----------------------------------------------------------------------------
Goes(t, from, to) == pc[t] = from /\ pc' = [pc EXCEPT ![t] = to]

\* A step of a thread that changes nothing else, or nothing but the lock.
Looks == UNCHANGED <<consensus, recentConsensus, listVars, derivedVars, statuses>>

\* A thread uses the list; "got" is one that is given it, "failed" one that
\* gets an exception.
Use(t) ==
  /\ Goes(t, "idle", "read") \/ Goes(t, "got", "idle") \/ Goes(t, "failed", "idle")
  /\ Looks /\ UNCHANGED refreshLock

\* The list is fresh: it is returned with no lock.
ReadFresh(t) ==
  /\ Goes(t, "read", "got")
  /\ ~NeedRefresh
  /\ Looks /\ UNCHANGED refreshLock

ReadStale(t) ==
  /\ Goes(t, "read", "wait")
  /\ NeedRefresh
  /\ Looks /\ UNCHANGED refreshLock

\* Mutant of StillNeeded: it is not asked again with the lock.
NotAskedAgain == TRUE

\* "Maybe someone else already did the refreshing."
StillNeeded == NeedRefresh

\* with self._refresh_lock
TakeLock(t) ==
  /\ refreshLock = {}
  /\ \/ StillNeeded  /\ Goes(t, "wait", "statuses") /\ refreshLock' = {t}
     \/ ~StillNeeded /\ Goes(t, "wait", "got")      /\ UNCHANGED refreshLock
  /\ Looks

\* Mutant of Release: an exception leaves the lock taken.
KeepLock(t) == refreshLock' = IF pc'[t] = "failed" THEN refreshLock ELSE refreshLock \ {t}

\* The end of the with block, by an exception too.
Release(t) == refreshLock' = refreshLock \ {t}

\* self._recent_consensus.update(timestamp). The statuses that the control port
\* gives have no document, so the timestamp is the time of now.
RecordConsensus == recentConsensus' = Updated(recentConsensus, 0)

\* Mutant of NoStatuses: the time was recorded before tor was asked.
RecordedFirst(t) ==
  /\ Goes(t, "statuses", "failed") /\ Release(t)
  /\ recentConsensus' = Updated(recentConsensus, 0)
  /\ UNCHANGED <<consensus, listVars, derivedVars, statuses>>

\* get_network_statuses raises: nothing has changed yet.
NoStatuses(t) ==
  /\ Goes(t, "statuses", "failed") /\ Release(t)
  /\ Looks

GetStatuses(t) ==
  /\ Goes(t, "statuses", "list")
  /\ statuses' = consensus.relays
  /\ RecordConsensus
  /\ UNCHANGED <<consensus, listVars, derivedVars, refreshLock>>

\* Mutant of NewList: a relay that was in the list gets the time of now.
NewListNow ==
  [fp \in statuses |-> IF fp \in DOMAIN relays THEN Updated(relays[fp], 0)
                       ELSE <<Last(recentConsensus)>>]

\* The rest of _init_relays, with the timestamp of the consensus: a relay that
\* was in the list keeps its times, one that is not in the consensus goes.
NewList ==
  LET timestamp == Last(recentConsensus)
  IN  [fp \in statuses |-> IF fp \in DOMAIN relays THEN Updated(relays[fp], timestamp)
                           ELSE <<timestamp>>]

SetList(t) ==
  /\ Goes(t, "list", "minbw")
  /\ relays' = NewList
  /\ presence' = [fp \in Fingerprints |->
                    IF fp \notin statuses THEN 0
                    ELSE IF presence[fp] < MaxCount THEN presence[fp] + 1 ELSE MaxCount]
  /\ listAge' = Last(recentConsensus)
  /\ UNCHANGED <<consensus, recentConsensus, derivedVars, refreshLock, statuses>>

\* self.exits and self.non_exits read self.relays again: were the list stale,
\* they would wait for the lock that this thread has.
SetMinBw(t) ==
  /\ ~NeedRefresh
  /\ DOMAIN relays \cap Exits # {}
  /\ Goes(t, "minbw", "params")
  /\ minBw' = MinBwOf(DOMAIN relays, minBw)
  /\ UNCHANGED <<consensus, recentConsensus, listVars, params, refreshLock, statuses>>

\* IndexError, of exit_candidates[pos]
NoExits(t) ==
  /\ ~NeedRefresh
  /\ DOMAIN relays \cap Exits = {}
  /\ Goes(t, "minbw", "failed") /\ Release(t)
  /\ Looks

\* set_consensus_params asks tor once more, which may have another consensus.
SetParams(t) ==
  /\ Goes(t, "params", "got") /\ Release(t)
  /\ params' = consensus.params
  /\ UNCHANGED <<consensus, recentConsensus, listVars, minBw, statuses>>

NoParams(t) ==
  /\ Goes(t, "params", "failed") /\ Release(t)
  /\ Looks

-----------------------------------------------------------------------------
\* Tor fetches another consensus.
NewConsensus ==
  /\ \E c \in Consensuses \ {consensus} : consensus' = c
  /\ UNCHANGED <<recentConsensus, listVars, derivedVars, refreshLock, statuses, pc>>

\* Time passes. A refresh is over in less than an hour.
Tick ==
  /\ \A t \in Threads : pc[t] \in {"list", "minbw", "params"} =>
                           Last(recentConsensus) + 1 < Hour
  /\ recentConsensus' = [i \in DOMAIN recentConsensus |-> Older(recentConsensus[i])]
  /\ relays' = [fp \in DOMAIN relays |->
                  [i \in DOMAIN relays[fp] |-> Older(relays[fp][i])]]
  /\ listAge' = Older(listAge)
  /\ UNCHANGED <<consensus, derivedVars, refreshLock, statuses, pc, presence>>

\* The property relays, from the first look at the list to its return.
ReadRelays(t) ==
  \/ ReadFresh(t) \/ ReadStale(t) \/ TakeLock(t)
  \/ GetStatuses(t) \/ NoStatuses(t) \/ SetList(t)
  \/ SetMinBw(t) \/ NoExits(t) \/ SetParams(t) \/ NoParams(t)

Next ==
  \/ \E t \in Threads : Use(t) \/ ReadRelays(t)
  \/ NewConsensus \/ Tick

\* A thread goes on, and is not passed over for ever by others for the lock.
Spec ==
  /\ Init /\ [][Next]_vars
  /\ \A t \in Threads : WF_vars(ReadRelays(t)) /\ SF_vars(TakeLock(t))

-----------------------------------------------------------------------------
(***************************************************************************)
(* Properties.                                                             *)
(***************************************************************************)
Pcs == {"idle", "read", "wait", "statuses", "list", "minbw", "params", "got", "failed"}

\* The type of every variable; the lock has one owner, who refreshes.
TypeOK ==
  /\ consensus \in Consensuses
  /\ recentConsensus \in SeqOf(0..Period + 1, MaxCount) \ {<< >>}
  /\ DOMAIN relays \subseteq Fingerprints
  /\ \A fp \in DOMAIN relays : relays[fp] \in SeqOf(0..Period + 1, MaxCount) \ {<< >>}
  /\ statuses \subseteq Fingerprints
  /\ pc \in [Threads -> Pcs]
  /\ refreshLock = {t \in Threads : pc[t] \in {"statuses", "list", "minbw", "params"}}
  /\ Cardinality(refreshLock) <= 1

\* However many threads find the list stale together, one of them refreshes it:
\* two consensuses that are recorded are an hour apart, also when a refresh
\* failed in the middle. (get_network_statuses takes seconds and megabytes.)
OneRefreshAnHour ==
  \A i \in 1..Len(recentConsensus) - 1 :
    ~IsOld(recentConsensus[i]) => recentConsensus[i] - recentConsensus[i + 1] >= Hour

\* The last n items.
LastOf(seq, n) == SubSeq(seq, IF Len(seq) > n THEN Len(seq) - n + 1 ELSE 1, Len(seq))

\* With no refresh under way a relay of the list has the times of the last
\* consensuses since it came back to them, and none from before: that is what
\* its KeyValue relay_in_recent_consensus_count is counted from.
CountsConsecutive ==
  refreshLock = {} =>
    /\ DOMAIN relays = {fp \in Fingerprints : presence[fp] > 0}
    /\ \A fp \in DOMAIN relays :
         NotOld(relays[fp]) = NotOld(LastOf(recentConsensus, presence[fp]))

\* With no refresh under way the list that a thread is given without waiting is
\* less than an hour old. A thread can be given the list of the last hour only
\* between the two assignments of a refresh.
StaleOnlyInRefresh ==
  listAge >= Hour /\ ~NeedRefresh => \E t \in Threads : pc[t] = "list"

\* Three quarters of S have bw or more, and one of S has it.
Top75(S, bw) ==
  /\ 4 * Cardinality({r \in S : Bandwidth[r] >= bw}) >= 3 * Cardinality(S)
  /\ \E r \in S : Bandwidth[r] = bw

\* "picking the lowest bandwidth value available from the top 75% of the
\* respective category": three quarters of the exits at least can be the second
\* hop of any relay, and one of them has just that bandwidth; so can the relays
\* that are not exits, if they are four. Not so in the middle of a refresh, nor
\* in the hour after one that found no exits.
MinBwOfTop75 ==
  LET list == DOMAIN relays
  IN  refreshLock = {} /\ list \cap Exits # {} =>
        /\ Top75(list \cap Exits, minBw.exit)
        /\ Cardinality(list \ Exits) >= 4 => Top75(list \ Exits, minBw.nonExit)

\* A thread that needs a refresh gets the list, or an exception, and the lock is
\* never left taken.
EveryReadEnds ==
  \A t \in Threads : pc[t] = "wait" ~> pc[t] \in {"got", "failed"}

=============================================================================
