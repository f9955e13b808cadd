----------------------------- MODULE StateFile -----------------------------
(***************************************************************************)
(* util/state.py: the state file, a JSON dictionary that threads of the    *)
(* scanner and the generate command read and rewrite, each through a State *)
(* object of its own, under the advisory lock of util/filelock.py. Each    *)
(* actor sets one key, as in the program: RelayList the consensuses,       *)
(* RelayPrioritizer the priority lists, V3BWFile min_perc_reached.         *)
(*                                                                         *)
(* A value is abstracted to the number of times its key has been set.      *)
(***************************************************************************)
EXTENDS Naturals

CONSTANTS
  Processes,   \* a partition of the actors, each set is one process
  MaxVersion   \* bound: how often each key is set

Actors == UNION Processes
ASSUME ProcessesAssumption ==
  /\ \A p, q \in Processes : p # q => p \cap q = {}
  /\ "free" \notin Actors
ASSUME VersionAssumption == MaxVersion \in Nat

VARIABLES
  content,     \* whether the file is "absent", "whole" or "torn"
  file,        \* the dictionary in it when it is whole
  lock,        \* the actor that holds the flock on its .lockfile
  pc,          \* per actor, where it is
  op,          \* per actor, the operation it is in
  state,       \* per actor, State._state
  \* History
  version,     \* per actor, the value its last completed set has written
  clashing,    \* actors whose last set began or went on during another one
  overlapped,  \* those that have not completed a set alone since then
  tornByCrash  \* whether a process died between truncating and writing

vars == <<content, file, lock, pc, op, state, version, clashing, overlapped,
          tornByCrash>>

Dicts == [Actors -> 0..MaxVersion]
Empty == [a \in Actors |-> 0]   \* the dictionary {}: 0 stands for no key
Pcs   == {"down", "idle", "exists", "lock_read", "reading", "lock_write",
          "opening", "dumping", "raised"}

\* The actors in the middle of a __setitem__.
Setting == {a \in Actors : op[a] = "set" /\ pc[a] \notin {"down", "idle", "raised"}}

\* Mutant of Release: the descriptor is left open.
KeepLock == UNCHANGED lock

\* _FLock.__exit__, on every way out of the with block.
Release == lock' = "free"

\* Mutant of Acquire: no lock is taken.
NoLock(a) == UNCHANGED lock

\* _FLock.__enter__ blocks in flock until the lock is free.
Acquire(a) == lock = "free" /\ lock' = a

Init ==
  /\ content \in {"absent", "whole"} /\ file = Empty
  /\ lock = "free"
  /\ pc = [a \in Actors |-> "down"]
  /\ op = [a \in Actors |-> "get"]
  /\ state = [a \in Actors |-> Empty]
  /\ version = [a \in Actors |-> 0]
  /\ clashing = {} /\ overlapped = {}
  /\ tornByCrash = FALSE

-----------------------------------------------------------------------------
Goes(a, from, to) == pc[a] = from /\ pc' = [pc EXCEPT ![a] = to]

\* What the steps of one actor inside an operation do not write.
HistoryKept == UNCHANGED <<version, clashing, overlapped, tornByCrash>>

\* A process starts; its State objects are constructed, and __init__ reads.
Start(p) ==
  /\ \A a \in p : pc[a] = "down"
  /\ pc' = [a \in Actors |-> IF a \in p THEN "exists" ELSE pc[a]]
  /\ op' = [a \in Actors |-> IF a \in p THEN "get" ELSE op[a]]
  /\ UNCHANGED <<content, file, lock, state>>
  /\ HistoryKept

\* get, __getitem__, __contains__, count...
Get(a) ==
  /\ Goes(a, "idle", "exists")
  /\ op' = [op EXCEPT ![a] = "get"]
  /\ UNCHANGED <<content, file, lock, state>>
  /\ HistoryKept

\* Mutant of ReadsFirst: the key is set in the dictionary read last.
SetsUnread(a) == Goes(a, "idle", "lock_write")

\* __setitem__ reads the file before it sets the key.
ReadsFirst(a) == Goes(a, "idle", "exists")

Set(a) ==
  /\ ReadsFirst(a)
  /\ version[a] < MaxVersion
  /\ op' = [op EXCEPT ![a] = "set"]
  /\ IF Setting = {}
     THEN clashing' = clashing \ {a} /\ UNCHANGED overlapped
     ELSE /\ clashing' = clashing \cup {a} \cup Setting
          /\ overlapped' = overlapped \cup {a} \cup Setting
  /\ UNCHANGED <<content, file, lock, state, version, tornByCrash>>

\* _read returns dict: the operation goes on with it.
Read(a, from, dict) ==
  /\ Goes(a, from, IF op[a] = "set" THEN "lock_write" ELSE "idle")
  /\ state' = [state EXCEPT ![a] = dict]

\* _read asks whether the file exists before it takes the lock...
ReadAbsent(a) ==
  /\ content = "absent"
  /\ Read(a, "exists", Empty)
  /\ UNCHANGED <<content, file, lock, op>>
  /\ HistoryKept

Exists(a) ==
  /\ Goes(a, "exists", "lock_read")
  /\ content # "absent"
  /\ UNCHANGED <<content, file, lock, op, state>>
  /\ HistoryKept

LockRead(a) ==
  /\ Goes(a, "lock_read", "reading")
  /\ Acquire(a)
  /\ UNCHANGED <<content, file, op, state>>
  /\ HistoryKept

\* ...and json.load parses it.
Load(a) ==
  /\ content = "whole"
  /\ Read(a, "reading", file)
  /\ Release
  /\ UNCHANGED <<content, file, op>>
  /\ HistoryKept

LoadRaises(a) ==
  /\ Goes(a, "reading", "raised")
  /\ content = "torn"
  /\ Release
  /\ UNCHANGED <<content, file, op, state>>
  /\ HistoryKept

\* _write takes the lock again...
LockWrite(a) ==
  /\ Goes(a, "lock_write", "opening")
  /\ Acquire(a)
  /\ state' = [state EXCEPT ![a][a] = version[a] + 1]
  /\ UNCHANGED <<content, file, op>>
  /\ HistoryKept

\* ...truncates the file by opening it in mode "wt"...
Truncate(a) ==
  /\ Goes(a, "opening", "dumping")
  /\ content' = "torn"
  /\ file' = Empty
  /\ UNCHANGED <<lock, op, state>>
  /\ HistoryKept

\* ...and dumps the dictionary, which is all there when the file is closed.
Dump(a) ==
  /\ Goes(a, "dumping", "idle")
  /\ content' = "whole"
  /\ file' = state[a]
  /\ Release
  /\ version' = [version EXCEPT ![a] = @ + 1]
  /\ overlapped' = IF a \in clashing THEN overlapped ELSE overlapped \ {a}
  /\ UNCHANGED <<op, state, clashing, tornByCrash>>

\* A process is killed, or ends: the system releases its lock.
Crash(p) ==
  /\ \E a \in p : pc[a] # "down"
  /\ pc' = [a \in Actors |-> IF a \in p THEN "down" ELSE pc[a]]
  /\ lock' = IF lock \in p THEN "free" ELSE lock
  /\ state' = [a \in Actors |-> IF a \in p THEN Empty ELSE state[a]]
  /\ tornByCrash' = (tornByCrash \/ \E a \in p : pc[a] = "dumping")
  /\ UNCHANGED <<content, file, op, version, clashing, overlapped>>

-----------------------------------------------------------------------------
ActorStep(a) ==
  \/ ReadAbsent(a) \/ Exists(a) \/ LockRead(a) \/ Load(a) \/ LoadRaises(a)
  \/ LockWrite(a) \/ Truncate(a) \/ Dump(a)

Next ==
  \/ \E p \in Processes : Start(p) \/ Crash(p)
  \/ \E a \in Actors : Get(a) \/ Set(a) \/ ActorStep(a)

\* An operation that has begun goes on, and flock lets everyone in at last.
\* No operation, start or crash is owed.
Fairness ==
  \A a \in Actors :
     /\ WF_vars(ActorStep(a))
     /\ SF_vars(LockRead(a))
     /\ SF_vars(LockWrite(a))

Spec == Init /\ [][Next]_vars /\ Fairness

-----------------------------------------------------------------------------
(***************************************************************************)
(* Properties.                                                             *)
(***************************************************************************)

\* The type of every variable. The lock is held by the actor that is inside a
\* with block, and by no one else: between any two actors, threads of one
\* process or not, these blocks exclude each other.
Inside == {"reading", "opening", "dumping"}
TypeOK ==
  /\ content \in {"absent", "whole", "torn"}
  /\ file \in Dicts
  /\ lock \in {"free"} \cup Actors
  /\ \A a \in Actors : pc[a] \in Inside <=> lock = a
  /\ pc \in [Actors -> Pcs]
  /\ op \in [Actors -> {"get", "set"}]
  /\ state \in [Actors -> Dicts]
  /\ version \in Dicts
  /\ clashing \in SUBSET Actors
  /\ overlapped \in SUBSET Actors
  /\ tornByCrash \in BOOLEAN

\* The lock keeps the threads and the processes from reading a file that
\* another one is writing: json.load fails only on a file that a crash left.
TornOnlyByCrash ==
  \A a \in Actors : pc[a] = "raised" => tornByCrash

\* Reading before setting keeps what the others have set, over any number of
\* sets and restarts, except what is set by two of them at the same time; and
\* what was lost is there again once its actor sets it alone.
SerialSetsKept ==
  content = "whole" =>
     \A a \in Actors \ overlapped : file[a] = version[a]

\* Each operation ends, with its result, an exception or its process.
OperationsEnd ==
  \A a \in Actors :
     pc[a] \notin {"down", "idle", "raised"} ~> pc[a] \in {"down", "idle", "raised"}

=============================================================================
