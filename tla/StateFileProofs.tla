-------------------------- MODULE StateFileProofs --------------------------
(***************************************************************************)
(* For any number of processes, threads and sets: the with blocks of the   *)
(* lock exclude each other, and the file is unreadable only after a crash. *)
(***************************************************************************)
EXTENDS StateFile, TLAPS

\* The strengthening: a truncated file has its writer at work, or lost it.
TornHasCause ==
  content = "torn" => tornByCrash \/ \E a \in Actors : pc[a] = "dumping"

\* A set in progress has a version left; only a set writes.
Bounded ==
  /\ \A a \in Setting : version[a] < MaxVersion
  /\ \A a \in Actors :
        pc[a] \in {"lock_write", "opening", "dumping"} => op[a] = "set"

TornInv == TypeOK /\ Bounded /\ TornHasCause /\ TornOnlyByCrash

\* The empty dictionary is one.
LEMMA EmptyType == Empty \in Dicts
BY VersionAssumption DEF Empty, Dicts

\* It holds at first.
LEMMA InitTorn == Init => TornInv
<1> SUFFICES ASSUME Init PROVE TornInv
  OBVIOUS
<1>1. TypeOK
  <2>1. version = Empty
    BY DEF Init, Empty
  <2>2. \A a \in Actors : pc[a] \in Inside <=> lock = a
    BY ProcessesAssumption DEF Init, Inside
  <2>3. QED
    BY <2>1, <2>2, EmptyType DEF Init, TypeOK, Pcs
<1>2. TornHasCause /\ TornOnlyByCrash /\ Bounded
  BY DEF Init, TornHasCause, TornOnlyByCrash, Bounded, Setting
<1>3. QED
  BY <1>1, <1>2 DEF TornInv

\* A start and a death of a process keep it.
LEMMA ProcessTorn ==
  ASSUME TornInv, NEW p \in Processes, Start(p) \/ Crash(p)
  PROVE  TornInv'
<1> USE DEF TornInv
<1>1. p \subseteq Actors
  BY DEF Actors
<1>2. CASE Start(p)
  <2>1. TypeOK'
    BY <1>1, <1>2 DEF Start, TypeOK, HistoryKept, Inside, Pcs
  <2>2. TornHasCause'
    BY <1>1, <1>2 DEF Start, TypeOK, HistoryKept, TornHasCause
  <2>3. TornOnlyByCrash'
    BY <1>1, <1>2 DEF Start, TypeOK, HistoryKept, TornOnlyByCrash
  <2>4. Bounded'
    BY <1>1, <1>2 DEF Start, TypeOK, HistoryKept, Bounded, Setting
  <2>5. QED
    BY <2>1, <2>2, <2>3, <2>4
<1>3. CASE Crash(p)
  <2>1. pc' \in [Actors -> Pcs] /\ state' \in [Actors -> Dicts]
    BY <1>3, EmptyType DEF Crash, TypeOK, Pcs
  <2>2. \A a \in Actors : pc'[a] \in Inside <=> lock' = a
    BY <1>1, <1>3, ProcessesAssumption DEF Crash, TypeOK, Inside
  <2>3. TypeOK'
    BY <1>3, <2>1, <2>2 DEF Crash, TypeOK
  <2>4. TornHasCause'
    BY <1>1, <1>3 DEF Crash, TypeOK, TornHasCause
  <2>5. TornOnlyByCrash'
    BY <1>1, <1>3 DEF Crash, TypeOK, TornOnlyByCrash
  <2>6. Bounded'
    BY <1>1, <1>3 DEF Crash, TypeOK, Bounded, Setting
  <2>7. QED
    BY <2>3, <2>4, <2>5, <2>6
<1>4. QED
  BY <1>2, <1>3

\* Each step of an actor keeps the types and the lock.
LEMMA ActorType ==
  ASSUME TypeOK, Bounded, NEW a \in Actors, Get(a) \/ Set(a) \/ ActorStep(a)
  PROVE  TypeOK'
<1>0. pc[a] \in {"lock_write", "dumping"} => version[a] < MaxVersion
  BY DEF TypeOK, Bounded, Setting
<1> USE ProcessesAssumption DEF TypeOK, HistoryKept, Goes, Inside, Pcs
<1>1. CASE Get(a)
  BY <1>1 DEF Get
<1>2. CASE Set(a)
  BY <1>2 DEF Set, ReadsFirst, Setting
<1>3. CASE ReadAbsent(a)
  BY <1>3, EmptyType DEF ReadAbsent, Read
<1>4. CASE Exists(a)
  BY <1>4 DEF Exists
<1>5. CASE LockRead(a)
  BY <1>5 DEF LockRead, Acquire
<1>6. CASE Load(a)
  BY <1>6 DEF Load, Read, Release
<1>7. CASE LoadRaises(a)
  BY <1>7 DEF LoadRaises, Release
<1>8. CASE LockWrite(a)
  <2>1. state' = [state EXCEPT ![a] = [state[a] EXCEPT ![a] = version[a] + 1]]
    BY <1>8 DEF LockWrite
  <2>2. state[a] \in Dicts
    OBVIOUS
  <2>3. QED
    BY <1>0, <1>8, <2>1, <2>2, VersionAssumption DEF LockWrite, Acquire, Dicts
<1>9. CASE Truncate(a)
  BY <1>9, EmptyType DEF Truncate
<1>10. CASE Dump(a)
  <2>1. version' \in Dicts
    BY <1>0, <1>10, VersionAssumption DEF Dump, Dicts
  <2>2. QED
    BY <1>10, <2>1 DEF Dump, Release
<1>11. QED
  BY <1>1, <1>2, <1>3, <1>4, <1>5, <1>6, <1>7, <1>8, <1>9, <1>10 DEF ActorStep

\* Each step of an actor keeps the cause of a torn file.
LEMMA ActorTorn ==
  ASSUME TornInv, NEW a \in Actors, Get(a) \/ Set(a) \/ ActorStep(a)
  PROVE  TornHasCause' /\ TornOnlyByCrash'
<1> USE DEF TornInv
<1>1. pc \in [Actors -> Pcs]
  BY DEF TypeOK
<1>2. UNCHANGED tornByCrash
  BY DEF ActorStep, Get, Set, ReadAbsent, Exists, LockRead, Load, LoadRaises,
         LockWrite, Truncate, Dump, HistoryKept
<1>3. CASE Truncate(a)
  BY <1>1, <1>2, <1>3 DEF Truncate, Goes, TornHasCause, TornOnlyByCrash
<1>4. CASE Dump(a)
  BY <1>1, <1>2, <1>4 DEF Dump, Goes, TornHasCause, TornOnlyByCrash
<1>5. CASE LoadRaises(a)
  <2>1. \A b \in Actors : pc[b] # "dumping"
    BY <1>5 DEF LoadRaises, Goes, TypeOK, Inside
  <2>2. tornByCrash
    BY <1>5, <2>1 DEF LoadRaises, TornHasCause
  <2>3. QED
    BY <1>2, <2>2 DEF TornHasCause, TornOnlyByCrash
<1>6. CASE Get(a) \/ Set(a) \/ ReadAbsent(a) \/ Exists(a) \/ LockRead(a)
           \/ Load(a) \/ LockWrite(a)
  <2>1. UNCHANGED content
    BY <1>6 DEF Get, Set, ReadAbsent, Exists, LockRead, Load, LockWrite
  <2>2. pc[a] # "dumping" /\ pc'[a] # "raised" /\ \A b \in Actors \ {a} : pc'[b] = pc[b]
    BY <1>1, <1>6 DEF Get, Set, ReadsFirst, ReadAbsent, Read, Exists, LockRead,
       Load, LockWrite, Goes
  <2>3. QED
    BY <1>2, <2>1, <2>2 DEF TornHasCause, TornOnlyByCrash
<1>7. QED
  BY <1>3, <1>4, <1>5, <1>6 DEF ActorStep

\* Each step of an actor keeps the bound.
LEMMA ActorBounded ==
  ASSUME TypeOK, Bounded, NEW a \in Actors, Get(a) \/ Set(a) \/ ActorStep(a)
  PROVE  Bounded'
<1> USE DEF TypeOK, Bounded, Setting, Goes
<1>1. CASE Set(a)
  BY <1>1 DEF Set, ReadsFirst
<1>2. CASE Dump(a)
  BY <1>2 DEF Dump
<1>3. CASE Get(a) \/ ReadAbsent(a) \/ Exists(a) \/ LockRead(a) \/ Load(a)
           \/ LoadRaises(a) \/ LockWrite(a) \/ Truncate(a)
  <2>1. UNCHANGED version
    BY <1>3 DEF Get, ReadAbsent, Exists, LockRead, Load, LoadRaises, LockWrite,
       Truncate, HistoryKept
  <2>2. CASE Get(a)
    BY <2>1, <2>2 DEF Get
  <2>3. CASE ReadAbsent(a) \/ Load(a)
    BY <2>1, <2>3 DEF ReadAbsent, Load, Read
  <2>4. CASE Exists(a) \/ LockRead(a) \/ LoadRaises(a)
    BY <2>1, <2>4 DEF Exists, LockRead, LoadRaises
  <2>5. CASE LockWrite(a) \/ Truncate(a)
    BY <2>1, <2>5 DEF LockWrite, Truncate
  <2>6. QED
    BY <1>3, <2>2, <2>3, <2>4, <2>5
<1>4. QED
  BY <1>1, <1>2, <1>3 DEF ActorStep

\* Every step keeps it.
LEMMA NextTorn == TornInv /\ [Next]_vars => TornInv'
<1> SUFFICES ASSUME TornInv, [Next]_vars PROVE TornInv'
  OBVIOUS
<1>1. ASSUME NEW p \in Processes, Start(p) \/ Crash(p) PROVE TornInv'
  BY <1>1, ProcessTorn
<1>2. ASSUME NEW a \in Actors, Get(a) \/ Set(a) \/ ActorStep(a) PROVE TornInv'
  BY <1>2, ActorType, ActorBounded, ActorTorn DEF TornInv
<1>3. CASE UNCHANGED vars
  BY <1>3 DEF vars, TornInv, TypeOK, Bounded, Setting, TornHasCause,
       TornOnlyByCrash
<1>4. QED
  BY <1>1, <1>2, <1>3 DEF Next

\* Every variable keeps its type, and the blocks that hold the lock exclude
\* each other.
THEOREM StateFileTypes == Spec => []TypeOK
<1>1. TornInv => TypeOK
  BY DEF TornInv
<1>2. QED
  BY <1>1, InitTorn, NextTorn, PTL DEF Spec

\* json.load fails on the state file only after a process was killed between
\* truncating it and writing it, whatever the processes and the threads do.
THEOREM LockPreventsTornReads == Spec => []TornOnlyByCrash
<1>1. TornInv => TornOnlyByCrash
  BY DEF TornInv
<1>2. QED
  BY <1>1, InitTorn, NextTorn, PTL DEF Spec

-----------------------------------------------------------------------------
(***************************************************************************)
(* Sets one after another. An actor that is not overlapped has its value   *)
(* in the file and in what anyone who is setting has read: between that    *)
(* read and that write it has set nothing, or the two would clash.         *)
(***************************************************************************)
Writing == {"lock_write", "opening", "dumping"}

SettersClash ==
  /\ clashing \subseteq overlapped
  /\ \A a, b \in Setting : a # b => a \in clashing

FileKept ==
  /\ content # "torn" => \A a \in Actors \ overlapped : file[a] = version[a]
  /\ content = "absent" => file = Empty

ReadKept ==
  \A b \in Actors :
     /\ pc[b] \in Writing =>
          \A a \in Actors \ overlapped : a # b => state[b][a] = version[a]
     /\ pc[b] \in {"opening", "dumping"} => state[b][b] = version[b] + 1

SetInv == SettersClash /\ FileKept /\ ReadKept

\* Only a set that begins makes another actor a setter.
LEMMA SettersFrame ==
  ASSUME TornInv, [Next]_vars
  PROVE  \/ Setting' \subseteq Setting
         \/ \E a \in Actors : Set(a) /\ Setting' \subseteq Setting \cup {a}
<1> USE DEF TornInv, TypeOK, Setting
<1>1. ASSUME NEW p \in Processes, Start(p) \/ Crash(p) PROVE Setting' \subseteq Setting
  <2>1. CASE Start(p)
    BY <2>1 DEF Start
  <2>2. CASE Crash(p)
    BY <2>2 DEF Crash
  <2> QED
    BY <1>1, <2>1, <2>2
<1>2. ASSUME NEW a \in Actors, Set(a) PROVE Setting' \subseteq Setting \cup {a}
  BY <1>2 DEF Set, ReadsFirst, Goes
<1>3. ASSUME NEW a \in Actors, Get(a) PROVE Setting' \subseteq Setting
  BY <1>3 DEF Get, Goes
<1>4. ASSUME NEW a \in Actors, ActorStep(a) PROVE Setting' \subseteq Setting
  <2>1. UNCHANGED op
    BY <1>4 DEF ActorStep, ReadAbsent, Exists, LockRead, Load, LoadRaises,
       LockWrite, Truncate, Dump
  <2>2. pc[a] \notin {"down", "idle", "raised"} /\ \A b \in Actors \ {a} : pc'[b] = pc[b]
    BY <1>4 DEF ActorStep, ReadAbsent, Read, Exists, LockRead, Load, LoadRaises,
       LockWrite, Truncate, Dump, Goes
  <2> QED
    BY <2>1, <2>2
<1>5. CASE UNCHANGED vars
  BY <1>5 DEF vars
<1> QED
  BY <1>1, <1>2, <1>3, <1>4, <1>5 DEF Next

\* What a step may change of the history.
LEMMA HistoryFrame ==
  ASSUME TornInv, [Next]_vars
  PROVE  \/ UNCHANGED <<version, clashing, overlapped>>
         \/ \E a \in Actors : Set(a) \/ Dump(a)
BY DEF Next, Start, Crash, Get, ActorStep, ReadAbsent, Exists, LockRead, Load,
       LoadRaises, LockWrite, Truncate, HistoryKept, vars

\* Two sets that go on at the same time stay marked.
LEMMA SettersClashNext ==
  ASSUME TornInv, SettersClash, [Next]_vars
  PROVE  SettersClash'
<1>1. ASSUME NEW a \in Actors, Set(a), Setting' \subseteq Setting \cup {a}
      PROVE  SettersClash'
  <2>1. CASE Setting = {}
    BY <1>1, <2>1 DEF Set, SettersClash
  <2>2. CASE Setting # {}
    BY <1>1, <2>2 DEF Set, SettersClash
  <2> QED
    BY <2>1, <2>2
<1>2. ASSUME NEW a \in Actors, Dump(a), Setting' \subseteq Setting
      PROVE  SettersClash'
  BY <1>2 DEF Dump, SettersClash
<1>3. CASE UNCHANGED <<version, clashing, overlapped>> /\ Setting' \subseteq Setting
  BY <1>3 DEF SettersClash
<1>4. ASSUME NEW a \in Actors, Set(a) PROVE Setting' \subseteq Setting \cup {a}
  BY <1>4 DEF Set, ReadsFirst, Goes, Setting, TornInv, TypeOK
<1> QED
  BY <1>1, <1>2, <1>3, <1>4, SettersFrame, HistoryFrame

\* The file keeps the values that are not overlapped.
LEMMA FileKeptNext ==
  ASSUME TornInv, SetInv, [Next]_vars
  PROVE  FileKept'
<1>1. ASSUME NEW a \in Actors, Dump(a) PROVE FileKept'
  <2>1. /\ content' = "whole" /\ file' = state[a] /\ pc[a] = "dumping"
        /\ version' = [version EXCEPT ![a] = @ + 1]
        /\ overlapped \subseteq overlapped' \cup {a}
    BY <1>1 DEF Dump, Goes
  <2>2. version \in Dicts
    BY DEF TornInv, TypeOK
  <2>3. state[a][a] = version[a] + 1
    BY <2>1 DEF SetInv, ReadKept
  <2>4. \A b \in Actors \ overlapped : b # a => state[a][b] = version[b]
    BY <2>1 DEF SetInv, ReadKept, Writing
  <2>5. \A b \in Actors \ overlapped' : file'[b] = version'[b]
    BY <2>1, <2>2, <2>3, <2>4 DEF Dicts
  <2> QED
    BY <2>1, <2>5 DEF FileKept
<1>2. ASSUME NEW a \in Actors, Truncate(a) PROVE FileKept'
  BY <1>2 DEF Truncate, FileKept
<1>3. ASSUME NEW a \in Actors, Set(a) PROVE FileKept'
  <2>1. UNCHANGED <<content, file, version>> /\ overlapped \subseteq overlapped'
    BY <1>3 DEF Set
  <2> QED
    BY <2>1 DEF SetInv, FileKept
<1>4. CASE /\ \A a \in Actors : ~Dump(a) /\ ~Truncate(a) /\ ~Set(a)
  <2>1. UNCHANGED <<content, file>>
    BY <1>4 DEF Next, Start, Crash, Get, ActorStep, ReadAbsent, Exists, LockRead,
       Load, LoadRaises, LockWrite, vars
  <2>2. UNCHANGED <<version, overlapped>>
    BY <1>4, HistoryFrame
  <2> QED
    BY <2>1, <2>2 DEF SetInv, FileKept
<1> QED
  BY <1>1, <1>2, <1>3, <1>4

\* While an actor is writing, the others that dump or begin are overlapped.
LEMMA OverlapKept ==
  ASSUME TornInv, SettersClash, [Next]_vars, NEW b \in Setting, b \in Setting'
  PROVE  \A a \in Actors \ overlapped' : a # b => a \notin overlapped /\ version'[a] = version[a]
<1> SUFFICES ASSUME NEW a \in Actors, a \notin overlapped', a # b
             PROVE  a \notin overlapped /\ version'[a] = version[a]
  OBVIOUS
<1>1. version \in Dicts
  BY DEF TornInv, TypeOK
<1>2. ASSUME NEW c \in Actors, Set(c) PROVE a \notin overlapped /\ version'[a] = version[a]
  BY <1>2 DEF Set
<1>3. ASSUME NEW c \in Actors, Dump(c) PROVE a \notin overlapped /\ version'[a] = version[a]
  <2>1. pc[c] = "dumping" /\ pc'[c] = "idle"
    BY <1>3 DEF Dump, Goes, TornInv, TypeOK
  <2>2. c \in Setting /\ c # b
    BY <2>1 DEF Setting, TornInv, Bounded
  <2>3. c \in clashing
    BY <2>2 DEF SettersClash
  <2>4. overlapped' = overlapped /\ a # c
    BY <1>3, <2>3 DEF Dump, SettersClash
  <2> QED
    BY <1>1, <1>3, <2>4 DEF Dump, Dicts
<1>4. CASE UNCHANGED <<version, clashing, overlapped>>
  BY <1>4
<1> QED
  BY <1>2, <1>3, <1>4, HistoryFrame

\* What an actor has read stays what the others have set.
LEMMA ReadKeptNext ==
  ASSUME TornInv, TornInv', SetInv, [Next]_vars
  PROVE  ReadKept'
<1> SUFFICES ASSUME NEW b \in Actors, pc'[b] \in Writing
             PROVE  /\ \A a \in Actors \ overlapped' : a # b => state'[b][a] = version'[a]
                    /\ pc'[b] \in {"opening", "dumping"} => state'[b][b] = version'[b] + 1
  BY DEF ReadKept, Writing
<1>1. b \in Setting'
  BY DEF TornInv, Bounded, Setting, Writing
<1>2. pc \in [Actors -> Pcs] /\ state \in [Actors -> Dicts] /\ version \in Dicts
  BY DEF TornInv, TypeOK
<1>3. CASE ReadAbsent(b) \/ Load(b)
  <2>1. /\ content # "torn" /\ state'[b] = file /\ pc'[b] = "lock_write"
        /\ UNCHANGED <<version, overlapped>>
    BY <1>2, <1>3 DEF ReadAbsent, Load, Read, Goes, HistoryKept, SetInv, FileKept, Writing
  <2> QED
    BY <2>1 DEF SetInv, FileKept
<1>4. CASE LockWrite(b)
  <2>1. /\ pc[b] \in Writing
        /\ state' = [state EXCEPT ![b] = [state[b] EXCEPT ![b] = version[b] + 1]]
        /\ UNCHANGED <<version, overlapped>>
    BY <1>4 DEF LockWrite, Goes, HistoryKept, Writing
  <2>2. state'[b] = [state[b] EXCEPT ![b] = version[b] + 1]
    BY <1>2, <2>1
  <2>3. state[b] \in Dicts
    BY <1>2
  <2> QED
    BY <2>1, <2>2, <2>3 DEF SetInv, ReadKept, Dicts
<1>5. CASE /\ pc[b] \in Writing /\ state'[b] = state[b] /\ version'[b] = version[b]
           /\ pc'[b] \in {"opening", "dumping"} => pc[b] \in {"opening", "dumping"}
  <2>1. b \in Setting
    BY <1>5 DEF TornInv, Bounded, Setting, Writing
  <2>2. \A a \in Actors \ overlapped' : a # b => a \notin overlapped /\ version'[a] = version[a]
    BY <1>1, <2>1, OverlapKept DEF SetInv
  <2> QED
    BY <1>5, <2>2 DEF SetInv, ReadKept
<1>6. CASE ~ReadAbsent(b) /\ ~Load(b) /\ ~LockWrite(b)
  <2> SUFFICES /\ pc[b] \in Writing /\ state'[b] = state[b] /\ version'[b] = version[b]
               /\ pc'[b] \in {"opening", "dumping"} => pc[b] \in {"opening", "dumping"}
    BY <1>5
  <2>1. ASSUME NEW p \in Processes, Start(p) \/ Crash(p)
        PROVE  pc'[b] = pc[b] /\ state'[b] = state[b] /\ version' = version
    BY <1>2, <2>1 DEF Start, Crash, HistoryKept, Writing
  <2>2. ASSUME NEW a \in Actors \ {b}, Get(a) \/ Set(a) \/ ActorStep(a)
        PROVE  pc'[b] = pc[b] /\ state'[b] = state[b] /\ version'[b] = version[b]
    <3>1. CASE Get(a) \/ Set(a)
      BY <1>2, <3>1 DEF Get, Set, ReadsFirst, Goes, HistoryKept
    <3>2. CASE ReadAbsent(a) \/ Exists(a) \/ LockRead(a) \/ Load(a) \/ LoadRaises(a)
      BY <1>2, <3>2 DEF ReadAbsent, Exists, LockRead, Load, LoadRaises, Read, Goes, HistoryKept
    <3>3. CASE LockWrite(a)
      <4>1. state' = [state EXCEPT ![a] = [state[a] EXCEPT ![a] = version[a] + 1]]
        BY <3>3 DEF LockWrite
      <4> QED
        BY <1>2, <3>3, <4>1 DEF LockWrite, Goes, HistoryKept
    <3>4. CASE Truncate(a) \/ Dump(a)
      BY <1>2, <3>4 DEF Truncate, Dump, Goes, HistoryKept, Dicts
    <3> QED
      BY <2>2, <3>1, <3>2, <3>3, <3>4 DEF ActorStep
  <2>3. CASE Get(b) \/ Set(b) \/ Exists(b) \/ LockRead(b) \/ LoadRaises(b) \/ Dump(b)
    <3>1. pc'[b] \in {"exists", "lock_read", "reading", "raised", "idle"}
      BY <1>2, <2>3 DEF Get, Set, ReadsFirst, Exists, LockRead, LoadRaises, Dump, Goes
    <3> QED
      BY <3>1 DEF Writing
  <2>4. CASE Truncate(b)
    BY <1>2, <2>4 DEF Truncate, Goes, HistoryKept, Writing
  <2>5. CASE UNCHANGED vars
    BY <2>5 DEF vars
  <2> QED
    BY <1>6, <2>1, <2>2, <2>3, <2>4, <2>5 DEF Next, ActorStep
<1> QED
  BY <1>3, <1>4, <1>6

\* Every step keeps what was set alone.
LEMMA NextSet == TornInv /\ TornInv' /\ SetInv /\ [Next]_vars => SetInv'
BY SettersClashNext, FileKeptNext, ReadKeptNext DEF SetInv

\* Setting a key keeps the others, for any number of processes and threads that
\* do so one after another, over crashes and restarts; those that did so at
\* the same time have theirs kept again once they set it alone.
THEOREM SerialSetsKeptHolds == Spec => []SerialSetsKept
<1>1. Init => SetInv
  BY DEF Init, SetInv, SettersClash, FileKept, ReadKept, Setting, Writing, Empty
<1>2. SetInv => SerialSetsKept
  BY DEF SetInv, FileKept, SerialSetsKept
<1> QED
  BY <1>1, <1>2, InitTorn, NextTorn, NextSet, PTL DEF Spec
=============================================================================
