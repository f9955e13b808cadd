--------------------------- MODULE DatadirProofs ---------------------------
(***************************************************************************)
(* For any periods that the configuration lets through, and any number of  *)
(* days, results, bandwidth files and crashes: latest.v3bw leads to a      *)
(* whole file, and generate misses no valid result.                        *)
(***************************************************************************)
EXTENDS Datadir, TLAPS

\* What holds of the processes: where they are, and what they have locked.
GenAts == {"glob", "load", "missing", "unreadable", "trimmed", "writing", "symlink", "rename",
           "exists"}
Gens ==
  [at : GenAts, day : Nat, until : Nat,
   results : [Days -> SUBSET Kinds], atStart : [Days -> SUBSET Kinds]]
CleanerInv ==
  /\ cleaner.at \in {"idle", "wait", "walk", "remove"}
  /\ cleaner.at # "idle" => cleaner.pass \in Passes
  /\ cleaner.at \in {"walk", "remove"} => cleaner.day \in Nat /\ cleaner.day <= today
  /\ cleaner.at = "remove" =>
       cleaner.pass \in {"compress data", "compress bw"} /\ cleaner.file \in Nat
LockInv ==
  /\ dataLock = IF InDataPass THEN "cleanup" ELSE None
  /\ bwLock = IF Writing THEN "generate" ELSE IF InBwPass THEN "cleanup" ELSE None
  /\ ~(Writing /\ InBwPass)

RangeInv ==
  /\ today \in Days
  /\ crashes \in 0..MaxCrashes /\ written \in 0..MaxWrites /\ generated \in Nat
GenInv == gen.at \in {"idle"} \cup GenAts /\ (gen.at # "idle" => gen \in Gens)

ProcessInv == RangeInv /\ GenInv /\ CleanerInv /\ LockInv

\* What holds of the bandwidth files. A link is a day younger than its file at
\* most, so a file that is old enough to be removed has a link as old.
Leads(link) ==
  IF link.to \in DOMAIN bw THEN bw[link.to].done /\ link.mtime <= bw[link.to].mtime + 1
  ELSE link.mtime + BwCompress <= today
FilesInv ==
  /\ DOMAIN bw \subseteq 1..generated
  /\ \A name \in DOMAIN bw : bw[name].mtime \in Nat /\ bw[name].mtime <= today
LinkInv ==
  latest # << >> =>
    /\ latest[1].to \in 1..generated
    /\ latest[1].mtime \in Nat /\ latest[1].mtime <= today
    /\ Leads(latest[1])
OutputInv ==
  /\ gen.at \in {"writing", "symlink", "rename"} => generated # 0
  /\ gen.at \in {"symlink", "rename"} =>
       generated \in DOMAIN bw /\ bw[generated].done /\ today <= bw[generated].mtime + 1
TmpInv ==
  gen.at = "rename" =>
    /\ tmp # {}
    /\ \A link \in tmp : link.to = generated /\ link.mtime \in Nat /\ link.mtime <= today
RemoveInv ==
  cleaner.at = "remove" /\ cleaner.pass = "compress bw" /\ cleaner.file # Link =>
    cleaner.file \in DOMAIN bw /\ bw[cleaner.file].mtime + BwCompress < cleaner.day
BwInv ==
  FilesInv /\ LinkInv /\ OutputInv /\ TmpInv /\ RemoveInv /\ OnlyCrashBlocksGenerate

\* What holds of the result files and of what generate has read of them: a valid
\* day was read, if it is before the one it has come to, or is on disk still.
Read(day) == IF day < gen.day THEN gen.results[day] ELSE ResultsOnDisk[day]
TxtInv ==
  /\ DOMAIN txt \subseteq Days
  /\ \A day \in DOMAIN txt :
       /\ txt[day].kinds \subseteq Kinds
       /\ txt[day].mtime \in Nat /\ day <= txt[day].mtime /\ txt[day].mtime <= today
CompressInv ==
  cleaner.at = "remove" /\ cleaner.pass = "compress data" =>
    cleaner.file \in DOMAIN txt /\ txt[cleaner.file].mtime + DataCompress < cleaner.day
ReadInv ==
  gen.at \in {"glob", "load"} => \A day \in Days :
    /\ Fresh(day) => gen.atStart[day] \subseteq Read(day)
    /\ gen.until < day => gen.atStart[day] = {}
LoadInv ==
  gen.at = "load" => gen.day \in Days /\ (Fresh(gen.day) => gen.day \in DOMAIN txt)
DataInv == TxtInv /\ CompressInv /\ ReadInv /\ LoadInv /\ ValidResultsRead

DatadirInv == ProcessInv /\ BwInv /\ DataInv

-----------------------------------------------------------------------------
\* Every class of results has a type that can be read.
LEMMA AllRead == \A kinds \in SUBSET Kinds : CanRead(kinds)
<1>1. ASSUME NEW kind \in Kinds PROVE ~R!Raises(R!Type(kind))
  BY KindsAssumption
  DEF R!Raises, R!Type, R!ResultTypes, R!ErrorTypes, R!ResultErrorDestinationRaises
<1>2. QED
  BY <1>1 DEF CanRead

-----------------------------------------------------------------------------
\* It holds at first.
LEMMA InitDatadir == Init => DatadirInv
<1> SUFFICES ASSUME Init PROVE DatadirInv
  OBVIOUS
<1> USE DEF Init, Idle
<1>1. ProcessInv
  BY BoundsAssumption
  DEF ProcessInv, RangeInv, GenInv, CleanerInv, LockInv, Days, GenAts, InDataPass, InBwPass, Writing
<1>2. BwInv
  <2>1. DOMAIN bw = {} /\ DOMAIN bwGz = {}
    OBVIOUS
  <2>2. QED
    BY <2>1
    DEF BwInv, FilesInv, LinkInv, OutputInv, TmpInv, RemoveInv, OnlyCrashBlocksGenerate
<1>3. DataInv
  <2>1. DOMAIN txt = {}
    OBVIOUS
  <2>2. QED
    BY <2>1 DEF DataInv, TxtInv, CompressInv, ReadInv, LoadInv, ValidResultsRead
<1>4. QED
  BY <1>1, <1>2, <1>3 DEF DatadirInv

\* Each step keeps the ranges...
LEMMA RangeNext == RangeInv /\ Next => RangeInv'
<1> SUFFICES ASSUME RangeInv, Next PROVE RangeInv'
  OBVIOUS
<1> USE BoundsAssumption DEF RangeInv, Days
<1>1. CASE Day
  BY <1>1 DEF Day
<1>2. CASE Scanner
  <2>1. /\ UNCHANGED <<today, generated>>
        /\ \/ written < MaxWrites /\ written' = written + 1 /\ UNCHANGED crashes
           \/ crashes < MaxCrashes /\ crashes' = crashes + 1 /\ UNCHANGED written
    BY <1>2 DEF Scanner, Write, WriteFails
  <2>2. QED
    BY <2>1
<1>3. CASE OpenOutput
  <2>1. UNCHANGED <<today, crashes, written>>
    BY <1>3 DEF OpenOutput
  <2>2. generated' \in Nat
    BY <1>3 DEF OpenOutput
  <2>3. QED
    BY <2>1, <2>2
<1>4. CASE UNCHANGED <<today, crashes, written, generated>>
  BY <1>4
<1>5. CASE KillGenerate \/ KillCleanup
  BY <1>5 DEF KillGenerate, KillCleanup
<1>6. Generator => OpenOutput \/ UNCHANGED <<today, crashes, written, generated>>
  BY DEF Generator, Generate, Glob, LoadFile, TrimResults, GenEnds, WriteLines, Symlink,
         SymlinkExists, Rename
<1>7. Cleanup => UNCHANGED <<today, crashes, written, generated>>
  BY DEF Cleanup, CleanupStarts, TakeDirectory, PassEnds, DeleteData, RemoveCompressed,
         DeleteBw, RemoveCompressedBw, Compress, CompressBw
<1>8. QED
  BY <1>1, <1>2, <1>3, <1>4, <1>5, <1>6, <1>7 DEF Next

\* ...and where generate is...
LEMMA GenNext == RangeInv /\ GenInv /\ DataInv /\ Next => GenInv'
<1> SUFFICES ASSUME RangeInv, GenInv, DataInv, Next PROVE GenInv'
  OBVIOUS
<1>1. CASE UNCHANGED gen
  BY <1>1 DEF GenInv
<1>2. CASE Generate
  <2>1. ResultsOnDisk \in [Days -> SUBSET Kinds]
    BY DEF DataInv, TxtInv, ResultsOnDisk
  <2>2. today \in Nat /\ OldestDay \in Nat
    BY DataAssumption, BoundsAssumption DEF RangeInv, OldestDay, Days
  <2>3. gen' \in Gens /\ gen'.at = "glob"
    BY <1>2, <2>1, <2>2 DEF Generate, Gens, GenAts
  <2>4. QED
    BY <2>3 DEF GenInv, GenAts
<1>3. CASE Glob
  <2>1. PICK day \in Found : gen' = [gen EXCEPT !.at = "load", !.day = day]
    BY <1>3 DEF Glob
  <2>2. gen \in Gens
    BY <1>3 DEF Glob, GenInv
  <2>3. day \in Days
    BY DEF Found, DataInv, TxtInv
  <2>4. day \in Nat
    BY <2>3, BoundsAssumption DEF Days
  <2>5. gen' \in Gens /\ gen'.at = "load"
    BY <2>1, <2>2, <2>4 DEF Gens, GenAts
  <2>6. QED
    BY <2>5 DEF GenInv, GenAts
<1>4. CASE LoadFile
  <2>1. gen \in Gens /\ gen.day \in Nat /\ gen.day \in Days
    BY <1>4 DEF LoadFile, GenInv, Gens, DataInv, LoadInv
  <2>2. gen.day \in DOMAIN txt => txt[gen.day].kinds \in SUBSET Kinds
    BY DEF DataInv, TxtInv
  <2>3. \A to \in GenAts : [gen EXCEPT !.at = to] \in Gens /\ [gen EXCEPT !.at = to].at = to
    BY <2>1 DEF Gens
  <2>4. CASE gen' \in {[gen EXCEPT !.at = "missing"], [gen EXCEPT !.at = "unreadable"]}
    BY <2>3, <2>4 DEF GenInv, GenAts
  <2>5. CASE gen.day \in DOMAIN txt
             /\ gen' = [gen EXCEPT !.at = "glob", !.day = @ + 1,
                                   !.results[gen.day] = txt[gen.day].kinds]
    <3>1. [gen.results EXCEPT ![gen.day] = txt[gen.day].kinds] \in [Days -> SUBSET Kinds]
      BY <2>1, <2>2, <2>5 DEF Gens
    <3>2. gen.day + 1 \in Nat
      BY <2>1
    <3>3. gen' \in Gens /\ gen'.at = "glob"
      BY <2>1, <2>5, <3>1, <3>2 DEF Gens, GenAts
    <3>4. QED
      BY <3>3 DEF GenInv, GenAts
  <2>6. QED
    BY <1>4, <2>4, <2>5 DEF LoadFile
<1>5. CASE TrimResults
  <2>1. gen \in Gens
    BY <1>5 DEF TrimResults, GenInv
  <2>2. Trim(gen.results) \in [Days -> SUBSET Kinds]
    BY <2>1 DEF Gens, Trim
  <2>3. gen' \in Gens /\ gen'.at = "trimmed"
    BY <1>5, <2>1, <2>2 DEF TrimResults, Gens, GenAts
  <2>4. QED
    BY <2>3 DEF GenInv, GenAts
<1>6. ASSUME NEW from \in GenAts, NEW to \in GenAts, GenGoes(from, to)
      PROVE  GenInv'
  <2>1. gen \in Gens /\ gen' = [gen EXCEPT !.at = to]
    BY <1>6 DEF GenGoes, GenInv, GenAts
  <2>2. gen' \in Gens /\ gen'.at = to
    BY <2>1 DEF Gens
  <2>3. QED
    BY <2>2 DEF GenInv
<1>7. CASE gen' = Idle
  BY <1>7 DEF Idle, GenInv
<1>8. Generator =>
        \/ Generate \/ Glob \/ LoadFile \/ TrimResults \/ gen' = Idle
        \/ \E from, to \in GenAts : GenGoes(from, to)
  BY DEF Generator, GenEnds, OpenOutput, WriteLines, Symlink, SymlinkExists, Rename, GenAts
<1>9. Day \/ Scanner \/ Cleanup \/ KillCleanup => UNCHANGED gen
  BY DEF Day, Scanner, Write, WriteFails, KillCleanup, Cleanup, CleanupStarts, TakeDirectory,
         PassEnds, DeleteData, RemoveCompressed, DeleteBw, RemoveCompressedBw, Compress,
         CompressBw
<1>10. KillGenerate => gen' = Idle
  BY DEF KillGenerate
<1>11. QED
  BY <1>1, <1>2, <1>3, <1>4, <1>5, <1>6, <1>7, <1>8, <1>9, <1>10 DEF Next

\* ...and where cleanup is...
LEMMA CleanerLater ==
  ASSUME today \in Nat, today' \in Nat, today <= today', CleanerInv, UNCHANGED cleaner
  PROVE  CleanerInv'
<1>1. ASSUME cleaner.at \in {"walk", "remove"}
      PROVE  cleaner.day \in Nat /\ cleaner.day <= today'
  <2>1. cleaner.day \in Nat /\ cleaner.day <= today
    BY <1>1 DEF CleanerInv
  <2>2. QED
    BY <2>1
<1>2. QED
  BY <1>1 DEF CleanerInv

\* Each step keeps what cleanup has decided: it looked no later than today.
LEMMA CleanerNext == RangeInv /\ RangeInv' /\ CleanerInv /\ Next => CleanerInv'
<1> SUFFICES ASSUME RangeInv, RangeInv', CleanerInv, Next PROVE CleanerInv'
  OBVIOUS
<1>0. today \in Nat /\ today' \in Nat
  BY BoundsAssumption DEF RangeInv, Days
<1>1. ASSUME UNCHANGED cleaner, today' = today \/ today' = today + 1 PROVE CleanerInv'
  BY <1>0, <1>1, CleanerLater
<1>2. ASSUME cleaner'.at = "idle" \/ (cleaner'.at = "wait" /\ cleaner'.pass \in Passes)
      PROVE  CleanerInv'
  BY <1>2 DEF CleanerInv
<1>3. CASE CleanupStarts
  BY <1>2, <1>3 DEF CleanupStarts, Passes
<1>4. CASE KillCleanup
  BY <1>2, <1>4 DEF KillCleanup, Idle
<1>5. CASE PassEnds
  <2>1. cleaner.pass \in Passes
    BY <1>5 DEF PassEnds, CleanerInv
  <2>2. After[cleaner.pass] \in Passes \cup {None}
    BY <2>1 DEF After, Passes
  <2>3. QED
    BY <1>2, <1>5, <2>2 DEF PassEnds, Idle
<1>6. CASE TakeDirectory
  <2>1. cleaner.pass \in Passes
    BY <1>6 DEF TakeDirectory, CleanerInv
  <2>2. cleaner'.at = "walk" /\ cleaner'.pass \in Passes /\ cleaner'.day = today /\ today' = today
    BY <1>6, <2>1 DEF TakeDirectory
  <2>3. cleaner'.day \in Nat /\ cleaner'.day <= today'
    BY <1>0, <2>2
  <2>4. QED
    BY <2>2, <2>3 DEF CleanerInv
<1>7. ASSUME cleaner.at \in {"walk", "remove"}, cleaner'.day = cleaner.day, UNCHANGED today,
             cleaner'.pass \in {"compress data", "compress bw"},
             cleaner'.at = "walk" \/ (cleaner'.at = "remove" /\ cleaner'.file \in Nat)
      PROVE  CleanerInv'
  <2>1. cleaner'.day \in Nat /\ cleaner'.day <= today'
    BY <1>7 DEF CleanerInv
  <2>2. QED
    BY <1>7, <2>1 DEF CleanerInv, Passes
<1>8. ASSUME NEW day \in Days, Compress(day) PROVE CleanerInv'
  <2>1. day \in Nat
    BY BoundsAssumption DEF Days
  <2>2. QED
    BY <1>7, <1>8, <2>1 DEF Compress, Walks
<1>9. ASSUME NEW name \in Names \cup {Link}, CompressBw(name) PROVE CleanerInv'
  <2>1. name \in Nat
    BY BoundsAssumption DEF Names, Link
  <2>2. QED
    BY <1>7, <1>9, <2>1 DEF CompressBw, Walks
<1>10. CASE RemoveCompressed
  BY <1>7, <1>10 DEF RemoveCompressed
<1>11. CASE RemoveCompressedBw
  BY <1>7, <1>11 DEF RemoveCompressedBw
<1>12. Day \/ Scanner \/ Generator \/ KillGenerate \/ DeleteData \/ DeleteBw =>
         UNCHANGED cleaner /\ (today' = today \/ today' = today + 1)
  BY DEF Day, Scanner, Write, WriteFails, KillGenerate, Generator, Generate, Glob, LoadFile,
         TrimResults, GenEnds, OpenOutput, WriteLines, Symlink, SymlinkExists, Rename,
         DeleteData, DeleteBw
<1>13. QED
  BY <1>1, <1>3, <1>4, <1>5, <1>6, <1>8, <1>9, <1>10, <1>11, <1>12 DEF Next, Cleanup

\* ...and that a directory is locked by who is in the block.
LEMMA LockNext == GenInv /\ CleanerInv /\ LockInv /\ GenInv' /\ Next => LockInv'
<1> SUFFICES ASSUME GenInv, CleanerInv, LockInv, GenInv', Next PROVE LockInv'
  OBVIOUS
<1> USE DEF LockInv, InDataPass, InBwPass, Writing, OnData, None
<1>1. CASE UNCHANGED <<gen, cleaner, dataLock, bwLock>>
  BY <1>1
<1>2. ASSUME UNCHANGED <<cleaner, dataLock, bwLock>>, Writing' <=> Writing PROVE LockInv'
  BY <1>2
<1>3. ASSUME NEW from \in GenAts, NEW to \in GenAts, GenGoes(from, to)
      PROVE  gen.at = from /\ gen'.at = to
  BY <1>3 DEF GenGoes, GenInv, GenAts, Gens
<1>4. CASE Generate
  BY <1>4 DEF Generate
<1>5. CASE Glob
  <2>1. gen.at = "glob" /\ gen'.at = "load"
    BY <1>5 DEF Glob, GenInv, Gens
  <2>2. QED
    BY <1>2, <1>5, <2>1 DEF Glob
<1>6. CASE LoadFile
  <2>1. gen.at = "load" /\ gen'.at \in {"missing", "unreadable", "glob"}
    BY <1>6 DEF LoadFile, GenInv, Gens
  <2>2. QED
    BY <1>2, <1>6, <2>1 DEF LoadFile
<1>7. CASE TrimResults
  <2>1. gen.at = "glob" /\ gen'.at = "trimmed"
    BY <1>7 DEF TrimResults, GenInv, Gens
  <2>2. QED
    BY <1>2, <1>7, <2>1 DEF TrimResults
<1>8. CASE GenEnds
  BY <1>8 DEF GenEnds, Idle
<1>9. CASE OpenOutput
  <2>1. gen.at = "trimmed" /\ gen'.at = "writing"
    BY <1>3, <1>9 DEF OpenOutput, GenAts
  <2>2. QED
    BY <1>9, <2>1 DEF OpenOutput
<1>10. CASE WriteLines
  <2>1. gen.at = "writing" /\ gen'.at = "symlink"
    BY <1>3, <1>10 DEF WriteLines, GenAts
  <2>2. QED
    BY <1>10, <2>1 DEF WriteLines
<1>11. CASE Symlink
  <2>1. gen.at = "symlink" /\ gen'.at = "rename"
    BY <1>3, <1>11 DEF Symlink, GenAts
  <2>2. QED
    BY <1>11, <2>1 DEF Symlink
<1>12. CASE SymlinkExists
  <2>1. gen.at = "symlink" /\ gen'.at = "exists"
    BY <1>3, <1>12 DEF SymlinkExists, GenAts
  <2>2. QED
    BY <1>12, <2>1 DEF SymlinkExists
<1>13. CASE Rename
  BY <1>13 DEF Rename, Idle
<1>14. CASE KillGenerate
  BY <1>14 DEF KillGenerate, Idle
<1>15. CASE CleanupStarts
  BY <1>15 DEF CleanupStarts
<1>16. CASE TakeDirectory
  BY <1>16 DEF TakeDirectory
<1>17. CASE PassEnds
  <2>1. cleaner'.at \in {"idle", "wait"}
    BY <1>17 DEF PassEnds, Idle
  <2>2. QED
    BY <1>17, <2>1 DEF PassEnds
<1>18. CASE KillCleanup
  BY <1>18 DEF KillCleanup, Idle
<1>19. ASSUME NEW day \in Days, Compress(day) PROVE LockInv'
  BY <1>19 DEF Compress, Walks
<1>20. ASSUME NEW name \in Names \cup {Link}, CompressBw(name) PROVE LockInv'
  BY <1>20 DEF CompressBw, Walks
<1>21. CASE RemoveCompressed
  BY <1>21 DEF RemoveCompressed
<1>22. CASE RemoveCompressedBw
  BY <1>22 DEF RemoveCompressedBw
<1>23. Day \/ Scanner \/ DeleteData \/ DeleteBw => UNCHANGED <<gen, cleaner, dataLock, bwLock>>
  BY DEF Day, Scanner, Write, WriteFails, DeleteData, DeleteBw
<1>24. QED
  BY <1>1, <1>4, <1>5, <1>6, <1>7, <1>8, <1>9, <1>10, <1>11, <1>12, <1>13, <1>14, <1>15, <1>16,
     <1>17, <1>18, <1>19, <1>20, <1>21, <1>22, <1>23
  DEF Next, Generator, Cleanup

\* The processes: all of their parts together.
LEMMA ProcessNext == DatadirInv /\ Next => ProcessInv'
BY RangeNext, GenNext, CleanerNext, LockNext DEF DatadirInv, ProcessInv

-----------------------------------------------------------------------------
(***************************************************************************)
(* The bandwidth files                                                     *)
(***************************************************************************)

\* The steps that change them, and where generate is when it does not.
LEMMA BwFrame ==
  Next =>
    \/ Day \/ OpenOutput \/ WriteLines \/ Symlink \/ Rename \/ DeleteBw \/ RemoveCompressedBw
    \/ UNCHANGED <<today, bw, latest, tmp, generated>>
<1>1. Scanner => UNCHANGED <<today, bw, latest, tmp, generated>>
  BY DEF Scanner, Write, WriteFails, bwVars
<1>2. Generator =>
        OpenOutput \/ WriteLines \/ Symlink \/ Rename \/ UNCHANGED <<today, bw, latest, tmp, generated>>
  BY DEF Generator, Generate, Glob, LoadFile, TrimResults, GenEnds, SymlinkExists, bwVars
<1>3. Cleanup =>
        DeleteBw \/ RemoveCompressedBw \/ UNCHANGED <<today, bw, latest, tmp, generated>>
  BY DEF Cleanup, CleanupStarts, TakeDirectory, PassEnds, DeleteData, RemoveCompressed, Compress,
         CompressBw, bwVars
<1>4. KillGenerate \/ KillCleanup => UNCHANGED <<today, bw, latest, tmp, generated>>
  BY DEF KillGenerate, KillCleanup, bwVars
<1>5. QED
  BY <1>1, <1>2, <1>3, <1>4 DEF Next

\* The file that is removed, or the link that is.
LEMMA BwRemoved ==
  ASSUME ProcessInv, FilesInv, RemoveInv, DeleteBw \/ RemoveCompressedBw
  PROVE  /\ UNCHANGED <<today, generated, gen, tmp>>
         /\ cleaner.at \in {"walk", "remove"} /\ ~OnData(cleaner.pass)
         /\ \/ UNCHANGED bw /\ latest' \in {latest, << >>}
            \/ /\ UNCHANGED latest
               /\ \E name \in DOMAIN bw :
                    bw' = Without(bw, name) /\ bw[name].mtime + BwCompress < today
<1>0. today \in Nat
  BY BoundsAssumption DEF ProcessInv, RangeInv, Days
<1>1. CASE DeleteBw
  <2>1. cleaner.at = "walk" /\ cleaner.pass = "delete bw"
    BY <1>1 DEF DeleteBw, Walks
  <2>2. cleaner.day \in Nat /\ cleaner.day <= today
    BY <2>1 DEF ProcessInv, CleanerInv
  <2>3. ASSUME NEW name \in OldFiles(bw, BwDelete)
        PROVE  bw[name].mtime + BwCompress < today
    <3>1. bw[name].mtime \in Nat /\ bw[name].mtime + BwDelete < cleaner.day
      BY DEF FilesInv, OldFiles, IsOld
    <3>2. QED
      BY <1>0, <2>2, <3>1, BwAssumption
  <2>4. QED
    BY <1>1, <2>1, <2>3 DEF DeleteBw, OnData, OldFiles
<1>2. CASE RemoveCompressedBw
  <2>1. cleaner.at = "remove" /\ cleaner.pass = "compress bw"
    BY <1>2 DEF RemoveCompressedBw
  <2>2. cleaner.day \in Nat /\ cleaner.day <= today
    BY <2>1 DEF ProcessInv, CleanerInv
  <2>3. ASSUME cleaner.file # Link
        PROVE  cleaner.file \in DOMAIN bw /\ bw[cleaner.file].mtime + BwCompress < today
    <3>1. cleaner.file \in DOMAIN bw /\ bw[cleaner.file].mtime + BwCompress < cleaner.day
      BY <2>1, <2>3 DEF RemoveInv
    <3>2. bw[cleaner.file].mtime \in Nat
      BY <3>1 DEF FilesInv
    <3>3. QED
      BY <1>0, <2>2, <3>1, <3>2, BwAssumption
  <2>4. QED
    BY <1>2, <2>1, <2>3 DEF RemoveCompressedBw, OnData
<1>3. QED
  BY <1>1, <1>2

\* Time passes: the files are of the past.
LEMMA FilesNext ==
  ProcessInv /\ ProcessInv' /\ FilesInv /\ OutputInv /\ RemoveInv /\ Next => FilesInv'
<1> SUFFICES ASSUME ProcessInv, ProcessInv', FilesInv, OutputInv, RemoveInv, Next PROVE FilesInv'
  OBVIOUS
<1>0. today \in Nat /\ today' \in Nat /\ generated \in Nat
  BY BoundsAssumption DEF ProcessInv, RangeInv, Days
<1>1. CASE Day
  <2>1. today' = today + 1 /\ UNCHANGED <<bw, generated>>
    BY <1>1 DEF Day, bwVars
  <2>2. ASSUME NEW name \in DOMAIN bw PROVE bw[name].mtime \in Nat /\ bw[name].mtime <= today'
    <3>1. bw[name].mtime \in Nat /\ bw[name].mtime <= today
      BY DEF FilesInv
    <3>2. QED
      BY <1>0, <2>1, <3>1
  <2>3. QED
    BY <2>1, <2>2 DEF FilesInv
<1>2. ASSUME NEW file, file.mtime = today,
             bw' = With(bw, generated', file), generated' \in {generated, generated + 1},
             generated' \in 1..generated', UNCHANGED today
      PROVE  FilesInv'
  <2>1. /\ DOMAIN bw' = DOMAIN bw \cup {generated'}
        /\ bw'[generated'] = file /\ \A n \in DOMAIN bw \ {generated'} : bw'[n] = bw[n]
    BY <1>2 DEF With
  <2>2. DOMAIN bw' \subseteq 1..generated'
    BY <1>0, <1>2, <2>1 DEF FilesInv
  <2>3. \A name \in DOMAIN bw' : bw'[name].mtime \in Nat /\ bw'[name].mtime <= today'
    BY <1>0, <1>2, <2>1 DEF FilesInv
  <2>4. QED
    BY <2>2, <2>3 DEF FilesInv
<1>3. CASE OpenOutput
  <2>1. generated' = generated + 1 /\ generated' \in 1..generated'
    BY <1>0, <1>3 DEF OpenOutput
  <2>2. UNCHANGED today /\ bw' = With(bw, generated', [done |-> FALSE, mtime |-> today])
    BY <1>3 DEF OpenOutput
  <2>3. QED
    BY <1>2, <2>1, <2>2
<1>4. CASE WriteLines
  <2>1. UNCHANGED <<today, generated>> /\ bw' = With(bw, generated', [done |-> TRUE, mtime |-> today])
    BY <1>4 DEF WriteLines
  <2>2. generated' \in 1..generated'
    <3>1. generated # 0
      BY <1>4 DEF WriteLines, GenGoes, OutputInv
    <3>2. QED
      BY <1>0, <2>1, <3>1
  <2>3. QED
    BY <1>2, <2>1, <2>2
<1>5. CASE DeleteBw \/ RemoveCompressedBw
  <2>1. UNCHANGED <<today, generated>>
    BY <1>5, BwRemoved
  <2>2. UNCHANGED bw \/ \E name \in DOMAIN bw : bw' = Without(bw, name)
    BY <1>5, BwRemoved
  <2>3. DOMAIN bw' \subseteq DOMAIN bw /\ \A n \in DOMAIN bw' : bw'[n] = bw[n]
    BY <2>2 DEF Without
  <2>4. QED
    BY <2>1, <2>3 DEF FilesInv
<1>6. CASE UNCHANGED <<today, bw, generated>>
  BY <1>6 DEF FilesInv
<1>7. Symlink \/ Rename => UNCHANGED <<today, bw, generated>>
  BY DEF Symlink, Rename
<1>8. QED
  BY <1>1, <1>3, <1>4, <1>5, <1>6, <1>7, BwFrame

\* The link leads to a whole file, or is old.
LEMMA LinkNext ==
  ProcessInv /\ ProcessInv' /\ BwInv /\ Next => LinkInv'
<1> SUFFICES ASSUME ProcessInv, ProcessInv', BwInv, Next PROVE LinkInv'
  OBVIOUS
<1> DEFINE link == latest[1]
<1>0. today \in Nat /\ today' \in Nat /\ generated \in Nat
  BY BoundsAssumption DEF ProcessInv, RangeInv, Days
<1>1. ASSUME latest # << >>
      PROVE  /\ link.to \in 1..generated /\ link.mtime \in Nat /\ link.mtime <= today
             /\ Leads(link)
             /\ link.to \in DOMAIN bw => bw[link.to].mtime \in Nat
  BY <1>1 DEF BwInv, LinkInv, FilesInv
<1>2. ASSUME UNCHANGED latest,
             latest # << >> =>
               link.to \in 1..generated' /\ link.mtime <= today' /\ Leads(link)'
      PROVE  LinkInv'
  BY <1>1, <1>2 DEF LinkInv
<1>3. CASE Day
  <2>1. today' = today + 1 /\ UNCHANGED <<bw, latest, generated>>
    BY <1>3 DEF Day, bwVars
  <2>2. ASSUME latest # << >> PROVE link.mtime <= today' /\ Leads(link)'
    <3>1. CASE link.to \in DOMAIN bw
      BY <1>0, <1>1, <2>1, <2>2, <3>1 DEF Leads
    <3>2. CASE link.to \notin DOMAIN bw
      <4>1. link.mtime \in Nat /\ link.mtime <= today /\ link.mtime + BwCompress <= today
        BY <1>1, <2>2, <3>2 DEF Leads
      <4>2. link.mtime <= today' /\ link.mtime + BwCompress <= today'
        BY <1>0, <2>1, <4>1, BwAssumption
      <4>3. QED
        BY <2>1, <3>2, <4>2 DEF Leads
    <3>3. QED
      BY <3>1, <3>2
  <2>3. QED
    BY <1>1, <1>2, <2>1, <2>2
<1>4. CASE OpenOutput
  <2>1. /\ generated' = generated + 1 /\ UNCHANGED <<today, latest>>
        /\ bw' = With(bw, generated', [done |-> FALSE, mtime |-> today])
    BY <1>4 DEF OpenOutput
  <2>2. ASSUME latest # << >> PROVE link.to \in 1..generated' /\ Leads(link)'
    <3>1. link.to \in 1..generated' /\ link.to # generated'
      BY <1>0, <1>1, <2>1, <2>2
    <3>2. link.to \in DOMAIN bw' <=> link.to \in DOMAIN bw
      BY <2>1, <3>1 DEF With
    <3>3. link.to \in DOMAIN bw => bw'[link.to] = bw[link.to]
      BY <2>1, <3>1 DEF With
    <3>4. Leads(link)
      BY <1>1, <2>2
    <3>5. QED
      BY <2>1, <3>1, <3>2, <3>3, <3>4 DEF Leads
  <2>3. QED
    BY <1>1, <1>2, <2>1, <2>2
<1>5. CASE WriteLines
  <2>1. /\ UNCHANGED <<today, latest, generated>>
        /\ bw' = With(bw, generated, [done |-> TRUE, mtime |-> today])
    BY <1>5 DEF WriteLines
  <2>2. ASSUME latest # << >> PROVE Leads(link)'
    <3>1. CASE link.to = generated
      <4>1. link.to \in DOMAIN bw' /\ bw'[link.to] = [done |-> TRUE, mtime |-> today]
        BY <2>1, <3>1 DEF With
      <4>2. link.mtime <= today + 1
        BY <1>0, <1>1, <2>2
      <4>3. QED
        BY <2>1, <4>1, <4>2 DEF Leads
    <3>2. CASE link.to # generated
      <4>1. link.to \in DOMAIN bw' <=> link.to \in DOMAIN bw
        BY <2>1, <3>2 DEF With
      <4>2. link.to \in DOMAIN bw => bw'[link.to] = bw[link.to]
        BY <2>1, <3>2 DEF With
      <4>3. Leads(link)
        BY <1>1, <2>2
      <4>4. QED
        BY <2>1, <4>1, <4>2, <4>3 DEF Leads
    <3>3. QED
      BY <3>1, <3>2
  <2>3. QED
    BY <1>1, <1>2, <2>1, <2>2
<1>6. CASE Rename
  <2>1. gen.at = "rename" /\ UNCHANGED <<today, bw, generated>> /\ latest' = <<CHOOSE l \in tmp : TRUE>>
    BY <1>6 DEF Rename
  <2>2. PICK l \in tmp : latest' = <<l>>
    BY <2>1 DEF BwInv, TmpInv
  <2>3. l.to = generated /\ l.mtime \in Nat /\ l.mtime <= today
    BY <2>1 DEF BwInv, TmpInv
  <2>4. /\ generated # 0 /\ generated \in DOMAIN bw /\ bw[generated].done
        /\ today <= bw[generated].mtime + 1
    BY <2>1 DEF BwInv, OutputInv
  <2>5. bw[generated].mtime \in Nat
    BY <2>4 DEF BwInv, FilesInv
  <2>6. l.mtime <= bw[generated].mtime + 1 /\ generated \in 1..generated
    BY <1>0, <2>3, <2>4, <2>5
  <2>7. latest'[1] = l
    BY <2>2
  <2>8. QED
    BY <2>1, <2>3, <2>4, <2>6, <2>7 DEF LinkInv, Leads
<1>7. CASE DeleteBw \/ RemoveCompressedBw
  <2>1. UNCHANGED <<today, generated>>
    BY <1>7, BwRemoved DEF BwInv
  <2>2. CASE UNCHANGED <<bw, latest>> \/ latest' = << >>
    BY <1>1, <1>2, <2>1, <2>2 DEF LinkInv, Leads
  <2>3. ASSUME NEW name \in DOMAIN bw, bw' = Without(bw, name), UNCHANGED latest,
               bw[name].mtime + BwCompress < today
        PROVE  LinkInv'
    <3>1. ASSUME latest # << >> PROVE Leads(link)'
      <4>1. CASE link.to = name
        <5>1. link.mtime <= bw[name].mtime + 1 /\ link.mtime \in Nat /\ bw[name].mtime \in Nat
          BY <1>1, <3>1, <4>1 DEF Leads
        <5>2. link.mtime + BwCompress <= today
          BY <1>0, <2>3, <5>1, BwAssumption
        <5>3. link.to \notin DOMAIN bw'
          BY <2>3, <4>1 DEF Without
        <5>4. QED
          BY <2>1, <2>3, <5>2, <5>3 DEF Leads
      <4>2. CASE link.to # name
        <5>1. link.to \in DOMAIN bw' <=> link.to \in DOMAIN bw
          BY <2>3, <4>2 DEF Without
        <5>2. link.to \in DOMAIN bw => bw'[link.to] = bw[link.to]
          BY <2>3, <4>2 DEF Without
        <5>3. Leads(link)
          BY <1>1, <3>1
        <5>4. QED
          BY <2>1, <2>3, <5>1, <5>2, <5>3 DEF Leads
      <4>3. QED
        BY <4>1, <4>2
    <3>2. QED
      BY <1>1, <1>2, <2>1, <2>3, <3>1
  <2>4. QED
    BY <1>7, <2>2, <2>3, BwRemoved DEF BwInv
<1>8. CASE UNCHANGED <<today, bw, latest, generated>>
  BY <1>8 DEF BwInv, LinkInv, Leads
<1>9. Symlink => UNCHANGED <<today, bw, latest, generated>>
  BY DEF Symlink
<1>10. QED
  BY <1>3, <1>4, <1>5, <1>6, <1>7, <1>8, <1>9, BwFrame

\* From where to where generate goes.
LEMMA GenFrame ==
  GenInv /\ Next =>
    \/ UNCHANGED gen
    \/ KillGenerate \/ SymlinkExists \/ Rename
    \/ OpenOutput /\ gen'.at = "writing" /\ gen.at = "trimmed"
    \/ WriteLines /\ gen'.at = "symlink" /\ gen.at = "writing"
    \/ Symlink /\ gen'.at = "rename" /\ gen.at = "symlink"
    \/ /\ gen.at \notin {"writing", "symlink", "rename"}
       /\ gen'.at \in {"idle", "glob", "load", "missing", "unreadable", "trimmed"}
       /\ UNCHANGED <<today, bw, latest, tmp, generated, crashes>>
<1> SUFFICES ASSUME GenInv, Generator
             PROVE  \/ SymlinkExists \/ Rename
                    \/ OpenOutput /\ gen'.at = "writing" /\ gen.at = "trimmed"
                    \/ WriteLines /\ gen'.at = "symlink" /\ gen.at = "writing"
                    \/ Symlink /\ gen'.at = "rename" /\ gen.at = "symlink"
                    \/ /\ gen.at \notin {"writing", "symlink", "rename"}
                       /\ gen'.at \in {"idle", "glob", "load", "missing", "unreadable", "trimmed"}
                       /\ UNCHANGED <<today, bw, latest, tmp, generated, crashes>>
  BY DEF Next, Day, Scanner, Write, WriteFails, KillCleanup, Cleanup, CleanupStarts, TakeDirectory,
         PassEnds, DeleteData, RemoveCompressed, DeleteBw, RemoveCompressedBw, Compress,
         CompressBw
<1>1. CASE Generate
  BY <1>1 DEF Generate, bwVars
<1>2. CASE Glob
  <2>1. gen.at = "glob" /\ gen'.at = "load"
    BY <1>2 DEF Glob, GenInv, Gens
  <2>2. QED
    BY <1>2, <2>1 DEF Glob, bwVars
<1>3. CASE LoadFile
  <2>1. gen.at = "load" /\ gen'.at \in {"missing", "unreadable", "glob"}
    BY <1>3 DEF LoadFile, GenInv, Gens
  <2>2. QED
    BY <1>3, <2>1 DEF LoadFile, bwVars
<1>4. CASE TrimResults
  <2>1. gen.at = "glob" /\ gen'.at = "trimmed"
    BY <1>4 DEF TrimResults, GenInv, Gens
  <2>2. QED
    BY <1>4, <2>1 DEF TrimResults, bwVars
<1>5. CASE GenEnds
  <2>1. gen.at \in {"missing", "unreadable", "exists", "trimmed"} /\ gen'.at = "idle"
    BY <1>5 DEF GenEnds, Idle
  <2>2. QED
    BY <1>5, <2>1 DEF GenEnds, bwVars
<1>6. CASE OpenOutput
  BY <1>6 DEF OpenOutput, GenGoes, GenInv, Gens
<1>7. CASE WriteLines
  BY <1>7 DEF WriteLines, GenGoes, GenInv, Gens
<1>8. CASE Symlink
  BY <1>8 DEF Symlink, GenGoes, GenInv, Gens
<1>9. QED
  BY <1>1, <1>2, <1>3, <1>4, <1>5, <1>6, <1>7, <1>8 DEF Generator

\* The file that a link is about to be made of is whole, and of today or of
\* the day before.
LEMMA OutputNext == ProcessInv /\ ProcessInv' /\ BwInv /\ Next => OutputInv'
<1> SUFFICES ASSUME ProcessInv, ProcessInv', BwInv, Next PROVE OutputInv'
  OBVIOUS
<1>0. today \in Nat /\ generated \in Nat
  BY BoundsAssumption DEF ProcessInv, RangeInv, Days
<1>1. CASE gen'.at \notin {"writing", "symlink", "rename"}
  BY <1>1 DEF OutputInv
<1>2. CASE OpenOutput /\ gen'.at = "writing"
  <2>1. generated' = generated + 1
    BY <1>2 DEF OpenOutput
  <2>2. generated' # 0
    BY <1>0, <2>1
  <2>3. QED
    BY <1>2, <2>2 DEF OutputInv
<1>3. CASE WriteLines /\ gen.at = "writing"
  <2>1. /\ UNCHANGED <<today, generated>>
        /\ bw' = With(bw, generated, [done |-> TRUE, mtime |-> today])
    BY <1>3 DEF WriteLines
  <2>2. generated \in DOMAIN bw' /\ bw'[generated] = [done |-> TRUE, mtime |-> today]
    BY <2>1 DEF With
  <2>3. generated # 0 /\ today <= today + 1
    BY <1>0, <1>3 DEF BwInv, OutputInv
  <2>4. QED
    BY <2>1, <2>2, <2>3 DEF OutputInv
<1>4. CASE Symlink /\ gen.at = "symlink"
  BY <1>4 DEF Symlink, BwInv, OutputInv
<1>5. CASE UNCHANGED <<gen, today, bw, generated>>
  BY <1>5 DEF BwInv, OutputInv
<1>6. CASE UNCHANGED gen /\ Day
  <2>1. /\ today' = today + 1 /\ UNCHANGED <<bw, generated, gen>>
        /\ gen.at \in {"symlink", "rename"} => bw[generated].mtime = today
    BY <1>6 DEF Day, bwVars
  <2>2. gen.at \in {"symlink", "rename"} => bw[generated].mtime = today' - 1
    BY <1>0, <2>1
  <2>3. ASSUME gen.at \in {"symlink", "rename"} PROVE today' <= bw[generated].mtime + 1
    BY <1>0, <2>1, <2>3
  <2>4. QED
    BY <2>1, <2>3 DEF BwInv, OutputInv
<1>7. CASE UNCHANGED gen /\ (DeleteBw \/ RemoveCompressedBw)
  <2>1. cleaner.at \in {"walk", "remove"} /\ ~OnData(cleaner.pass)
    BY <1>7, BwRemoved DEF BwInv
  <2>2. gen'.at \notin {"writing", "symlink", "rename"}
    BY <1>7, <2>1 DEF ProcessInv, LockInv, InBwPass, Writing
  <2>3. QED
    BY <2>2 DEF OutputInv
<1>8. KillGenerate \/ SymlinkExists \/ Rename => gen'.at \in {"idle", "exists"}
  BY DEF KillGenerate, SymlinkExists, Rename, Idle, GenGoes, ProcessInv, GenInv, Gens
<1>9. ~(UNCHANGED gen /\ (OpenOutput \/ WriteLines \/ Symlink \/ Rename)) \/ OutputInv'
  <2>1. GenInv
    BY DEF ProcessInv
  <2>2. OpenOutput \/ WriteLines \/ Symlink \/ Rename => gen'.at # gen.at
    BY <2>1 DEF OpenOutput, WriteLines, Symlink, Rename, GenGoes, GenInv, Gens, Idle
  <2>3. QED
    BY <2>2
<1>10. QED
  BY <1>1, <1>2, <1>3, <1>4, <1>5, <1>6, <1>7, <1>8, <1>9, GenFrame, BwFrame DEF ProcessInv

\* While generate has a temporary link it is of its file.
LEMMA TmpNext == ProcessInv /\ ProcessInv' /\ BwInv /\ Next => TmpInv'
<1> SUFFICES ASSUME ProcessInv, ProcessInv', BwInv, Next PROVE TmpInv'
  OBVIOUS
<1>0. today \in Nat
  BY BoundsAssumption DEF ProcessInv, RangeInv, Days
<1>1. CASE gen'.at # "rename"
  BY <1>1 DEF TmpInv
<1>2. CASE Symlink
  <2>1. UNCHANGED <<today, generated>> /\ tmp' = {[to |-> generated, mtime |-> today]}
    BY <1>2 DEF Symlink
  <2>2. today <= today
    BY <1>0
  <2>3. QED
    BY <1>0, <2>1, <2>2 DEF TmpInv
<1>3. CASE UNCHANGED <<gen, today, tmp, generated>>
  BY <1>3 DEF BwInv, TmpInv
<1>4. CASE Day
  <2>1. today' = today + 1 /\ UNCHANGED <<gen, tmp, generated>>
    BY <1>4 DEF Day, bwVars
  <2>2. ASSUME gen.at = "rename", NEW link \in tmp PROVE link.mtime \in Nat /\ link.mtime <= today'
    <3>1. link.mtime \in Nat /\ link.mtime <= today
      BY <2>2 DEF BwInv, TmpInv
    <3>2. QED
      BY <1>0, <2>1, <3>1
  <2>3. QED
    BY <2>1, <2>2 DEF BwInv, TmpInv
<1>5. DeleteBw \/ RemoveCompressedBw => UNCHANGED <<gen, today, tmp, generated>>
  BY BwRemoved DEF BwInv
<1>6. OpenOutput \/ WriteLines \/ Rename => gen'.at # "rename"
  <2>1. GenInv
    BY DEF ProcessInv
  <2>2. QED
    BY <2>1 DEF OpenOutput, WriteLines, Rename, GenGoes, GenInv, Gens, Idle
<1>7. KillGenerate \/ SymlinkExists => gen'.at # "rename"
  <2>1. GenInv
    BY DEF ProcessInv
  <2>2. QED
    BY <2>1 DEF KillGenerate, SymlinkExists, GenGoes, GenInv, Gens, Idle
<1>8. QED
  BY <1>1, <1>2, <1>3, <1>4, <1>5, <1>6, <1>7, GenFrame, BwFrame DEF ProcessInv

\* After these steps cleanup is about to remove no file.
LEMMA RemoveEnds ==
  CleanupStarts \/ TakeDirectory \/ PassEnds \/ RemoveCompressed \/ RemoveCompressedBw \/ KillCleanup
    => cleaner'.at # "remove"
<1>1. ASSUME CleanupStarts PROVE cleaner'.at = "wait"
  <2>1. cleaner' = [at |-> "wait", pass |-> "delete data"]
    BY <1>1 DEF CleanupStarts
  <2>2. QED
    BY <2>1, Zenon
<1>2. KillCleanup => cleaner'.at = "idle"
  BY DEF KillCleanup, Idle
<1>3. TakeDirectory => cleaner'.at = "walk"
  <2>1. TakeDirectory => cleaner' = [at |-> "walk", pass |-> cleaner.pass, day |-> today]
    BY DEF TakeDirectory
  <2>2. QED
    BY <2>1
<1>4. RemoveCompressed \/ RemoveCompressedBw => cleaner'.at = "walk"
  <2>1. RemoveCompressed \/ RemoveCompressedBw =>
          \E pass \in Passes : cleaner' = [at |-> "walk", pass |-> pass, day |-> cleaner.day]
    BY DEF RemoveCompressed, RemoveCompressedBw, Passes
  <2>2. QED
    BY <2>1
<1>5. ASSUME PassEnds PROVE cleaner'.at \in {"wait", "idle"}
  <2>1. cleaner' = Idle \/ cleaner' = [at |-> "wait", pass |-> After[cleaner.pass]]
    BY <1>5 DEF PassEnds
  <2>2. QED
    BY <2>1 DEF Idle
<1>6. QED
  BY <1>1, <1>2, <1>3, <1>4, <1>5

\* Nobody writes the file that cleanup is about to remove: it has the lock.
LEMMA RemoveNext == ProcessInv /\ BwInv /\ Next => RemoveInv'
<1> SUFFICES ASSUME ProcessInv, BwInv, Next PROVE RemoveInv'
  OBVIOUS
<1>1. CASE cleaner'.at # "remove" \/ cleaner'.pass # "compress bw"
  BY <1>1 DEF RemoveInv
<1>2. ASSUME NEW name \in Names \cup {Link}, CompressBw(name) PROVE RemoveInv'
  <2>1. UNCHANGED bw /\ cleaner'.file = name /\ cleaner'.day = cleaner.day
    BY <1>2 DEF CompressBw
  <2>2. name # Link => name \in DOMAIN bw /\ bw[name].mtime + BwCompress < cleaner.day
    BY <1>2 DEF CompressBw, OldFiles, IsOld
  <2>3. QED
    BY <2>1, <2>2 DEF RemoveInv
<1>3. ASSUME NEW day \in Days, Compress(day) PROVE cleaner'.pass # "compress bw"
  BY <1>3 DEF Compress
<1>4. CASE UNCHANGED <<cleaner, bw>>
  BY <1>4 DEF BwInv, RemoveInv
<1>5. CASE OpenOutput \/ WriteLines
  <2>1. UNCHANGED cleaner /\ ~InBwPass
    <3>1. gen.at = "writing" \/ bwLock = None
      BY <1>5 DEF OpenOutput, WriteLines, GenGoes
    <3>2. QED
      BY <1>5, <3>1 DEF OpenOutput, WriteLines, ProcessInv, LockInv, Writing, None
  <2>2. QED
    BY <2>1 DEF RemoveInv, InBwPass, OnData
<1>6. DeleteBw => UNCHANGED cleaner /\ cleaner.at = "walk"
  BY DEF DeleteBw, Walks
<1>7. Day \/ Scanner \/ KillGenerate => UNCHANGED <<cleaner, bw>>
  BY DEF Day, Scanner, Write, WriteFails, KillGenerate, bwVars
<1>8. Generator => OpenOutput \/ WriteLines \/ UNCHANGED <<cleaner, bw>>
  BY DEF Generator, Generate, Glob, LoadFile, TrimResults, GenEnds, Symlink, SymlinkExists, Rename,
         bwVars
<1>9. DeleteData => UNCHANGED <<cleaner, bw>>
  BY DEF DeleteData, bwVars
<1>10. QED
  BY <1>1, <1>2, <1>3, <1>4, <1>5, <1>6, <1>7, <1>8, <1>9, RemoveEnds DEF Next, Cleanup

\* Who leaves the temporary link behind was killed.
LEMMA BlocksNext == ProcessInv /\ ProcessInv' /\ BwInv /\ Next => OnlyCrashBlocksGenerate'
<1> SUFFICES ASSUME ProcessInv, ProcessInv', BwInv, Next PROVE OnlyCrashBlocksGenerate'
  OBVIOUS
<1>0. crashes \in Nat /\ GenInv
  BY BoundsAssumption DEF ProcessInv, RangeInv
<1>1. crashes' = crashes \/ crashes' = crashes + 1
  BY DEF Next, Day, Scanner, Write, WriteFails, Generator, Generate, Glob, LoadFile, TrimResults,
         GenEnds, OpenOutput, WriteLines, Symlink, SymlinkExists, Rename, KillGenerate, Cleanup,
         CleanupStarts, TakeDirectory, PassEnds, DeleteData, RemoveCompressed, DeleteBw,
         RemoveCompressedBw, Compress, CompressBw, KillCleanup
<1>2. crashes > 0 => crashes' > 0
  BY <1>0, <1>1
<1>3. gen.at = "exists" \/ (tmp # {} /\ gen.at # "rename") => crashes' > 0
  BY <1>2 DEF BwInv, OnlyCrashBlocksGenerate
<1>4. CASE KillGenerate
  <2>1. crashes' = crashes + 1
    BY <1>4 DEF KillGenerate
  <2>2. QED
    BY <1>0, <2>1 DEF OnlyCrashBlocksGenerate
<1>5. CASE SymlinkExists
  BY <1>3, <1>5 DEF SymlinkExists, GenGoes, OnlyCrashBlocksGenerate
<1>6. CASE Rename
  BY <1>6 DEF Rename, Idle, OnlyCrashBlocksGenerate
<1>7. CASE Symlink /\ gen'.at = "rename"
  BY <1>7 DEF OnlyCrashBlocksGenerate
<1>8. CASE UNCHANGED <<gen, tmp>>
  BY <1>3, <1>8 DEF OnlyCrashBlocksGenerate
<1>9. CASE UNCHANGED tmp /\ gen.at # "rename" /\ gen'.at # "exists"
  BY <1>3, <1>9 DEF OnlyCrashBlocksGenerate
<1>10. OpenOutput \/ WriteLines => UNCHANGED tmp
  BY DEF OpenOutput, WriteLines
<1>11. Day \/ DeleteBw \/ RemoveCompressedBw => UNCHANGED tmp
  BY DEF Day, DeleteBw, RemoveCompressedBw, bwVars
<1>12. Symlink /\ UNCHANGED gen => FALSE
  BY <1>0 DEF Symlink, GenGoes, GenInv, Gens
<1>13. QED
  BY <1>4, <1>5, <1>6, <1>7, <1>8, <1>9, <1>10, <1>11, <1>12, <1>0, GenFrame, BwFrame

\* The bandwidth files: all of their parts together.
LEMMA BwNext == ProcessInv /\ ProcessInv' /\ BwInv /\ Next => BwInv'
BY FilesNext, LinkNext, OutputNext, TmpNext, RemoveNext, BlocksNext DEF BwInv

-----------------------------------------------------------------------------
(***************************************************************************)
(* The result files                                                        *)
(***************************************************************************)

\* The steps that change them.
LEMMA TxtFrame ==
  Next =>
    \/ Day
    \/ DeleteData \/ RemoveCompressed
    \/ \E day \in {today, today - 1} \cap Days :
         (\E kind \in Kinds : Write(day, kind)) \/ WriteFails(day)
    \/ UNCHANGED <<today, txt>>
<1>1. Generator => UNCHANGED <<today, txt>>
  BY DEF Generator, Generate, Glob, LoadFile, TrimResults, GenEnds, OpenOutput, WriteLines, Symlink,
         SymlinkExists, Rename, dataVars
<1>2. Cleanup => DeleteData \/ RemoveCompressed \/ UNCHANGED <<today, txt>>
  BY DEF Cleanup, CleanupStarts, TakeDirectory, PassEnds, Compress, DeleteBw, CompressBw,
         RemoveCompressedBw, dataVars
<1>3. KillGenerate \/ KillCleanup => UNCHANGED <<today, txt>>
  BY DEF KillGenerate, KillCleanup, dataVars
<1>4. QED
  BY <1>1, <1>2, <1>3 DEF Next, Scanner

\* What is written, and what is removed: nothing that is fresh.
LEMMA TxtWritten ==
  ASSUME NEW day \in Days, (\E kind \in Kinds : Write(day, kind)) \/ WriteFails(day), TxtInv
  PROVE  /\ UNCHANGED <<today, gen, cleaner>> /\ dataLock = None
         /\ \E file : /\ txt' = With(txt, day, file)
                      /\ file.mtime = today /\ file.kinds \subseteq Kinds
                      /\ day \in DOMAIN txt => txt[day].kinds \subseteq file.kinds
<1>1. CASE WriteFails(day)
  <2>1. /\ UNCHANGED <<today, gen, cleaner>> /\ dataLock = None
        /\ txt' = With(txt, day, [kinds |-> IF day \in DOMAIN txt THEN txt[day].kinds ELSE {},
                                  torn |-> TRUE, mtime |-> today])
    BY <1>1 DEF WriteFails
  <2>2. QED
    BY <2>1 DEF TxtInv
<1>2. ASSUME NEW kind \in Kinds, Write(day, kind)
      PROVE  /\ UNCHANGED <<today, gen, cleaner>> /\ dataLock = None
             /\ \E file : /\ txt' = With(txt, day, file)
                          /\ file.mtime = today /\ file.kinds \subseteq Kinds
                          /\ day \in DOMAIN txt => txt[day].kinds \subseteq file.kinds
  <2> DEFINE old == IF day \in DOMAIN txt THEN txt[day]
                    ELSE [kinds |-> {}, torn |-> FALSE, mtime |-> today]
             kinds == IF old.torn THEN old.kinds ELSE old.kinds \cup {kind}
             file == [kinds |-> kinds, torn |-> FALSE, mtime |-> today]
  <2>1. /\ UNCHANGED <<today, gen, cleaner>> /\ dataLock = None
        /\ txt' = With(txt, day, file)
    BY <1>2 DEF Write
  <2>2. old.kinds \subseteq Kinds /\ (day \in DOMAIN txt => old = txt[day])
    BY DEF TxtInv
  <2>3. kinds \subseteq Kinds /\ old.kinds \subseteq kinds
    BY <2>2
  <2>4. file.mtime = today /\ file.kinds = kinds
    OBVIOUS
  <2>5. QED
    BY <2>1, <2>2, <2>3, <2>4
<1>3. QED
  BY <1>1, <1>2

\* A result file that cleanup removes, or replaces by a compressed one, has no
\* valid results: it was modified too long ago.
LEMMA TxtRemoved ==
  ASSUME ProcessInv, TxtInv, CompressInv, DeleteData \/ RemoveCompressed
  PROVE  /\ UNCHANGED <<today, gen>>
         /\ \/ UNCHANGED txt
            \/ \E day \in DOMAIN txt : txt' = Without(txt, day) /\ ~Fresh(day)
<1>0. today \in Nat
  BY BoundsAssumption DEF ProcessInv, RangeInv, Days
<1>1. ASSUME NEW day \in DOMAIN txt, NEW days \in Nat, FreshDays < days, cleaner.day \in Nat,
             cleaner.day <= today, txt[day].mtime + days < cleaner.day
      PROVE  ~Fresh(day)
  <2>1. day \in Nat /\ txt[day].mtime \in Nat /\ day <= txt[day].mtime
    BY BoundsAssumption DEF TxtInv, Days
  <2>2. day + FreshDays < today
    BY <1>0, <1>1, <2>1, DataAssumption
  <2>3. QED
    BY <1>0, <2>1, <2>2, DataAssumption DEF Fresh
<1>2. CASE DeleteData
  <2>1. cleaner.day \in Nat /\ cleaner.day <= today
    BY <1>2 DEF DeleteData, Walks, ProcessInv, CleanerInv
  <2>2. \A day \in OldFiles(txt, DataDelete) :
          day \in DOMAIN txt /\ txt[day].mtime + DataDelete < cleaner.day
    BY DEF OldFiles, IsOld
  <2>3. FreshDays < DataDelete
    BY DataAssumption
  <2>4. \A day \in OldFiles(txt, DataDelete) : day \in DOMAIN txt /\ ~Fresh(day)
    BY <1>1, <2>1, <2>2, <2>3, DataAssumption
  <2>5. QED
    BY <1>2, <2>4 DEF DeleteData
<1>3. CASE RemoveCompressed
  <2>1. cleaner.at = "remove" /\ cleaner.pass = "compress data"
    BY <1>3 DEF RemoveCompressed
  <2>2. cleaner.day \in Nat /\ cleaner.day <= today
    BY <2>1 DEF ProcessInv, CleanerInv
  <2>3. cleaner.file \in DOMAIN txt /\ txt[cleaner.file].mtime + DataCompress < cleaner.day
    BY <2>1 DEF CompressInv
  <2>4. ~Fresh(cleaner.file)
    BY <1>1, <2>2, <2>3, DataAssumption
  <2>5. QED
    BY <1>3, <2>3, <2>4 DEF RemoveCompressed
<1>4. QED
  BY <1>2, <1>3

\* A file of a day that is fresh stays, with what is in it.
LEMMA FreshStays ==
  ASSUME ProcessInv, ProcessInv', DataInv, Next, NEW day \in Days, Fresh(day)'
  PROVE  /\ Fresh(day)
         /\ day \in DOMAIN txt => day \in DOMAIN txt' /\ txt[day].kinds \subseteq txt'[day].kinds
<1>0. today \in Nat /\ today' \in Nat /\ day \in Nat
  BY BoundsAssumption DEF ProcessInv, RangeInv, Days
<1>1. CASE Day
  <2>1. today' = today + 1 /\ UNCHANGED txt
    BY <1>1 DEF Day, dataVars
  <2>2. day + FreshDays >= today'
    BY DEF Fresh
  <2>3. day + FreshDays >= today
    BY <1>0, <2>1, <2>2, DataAssumption
  <2>4. QED
    BY <2>1, <2>3 DEF Fresh
<1>2. ASSUME NEW d \in Days, (\E kind \in Kinds : Write(d, kind)) \/ WriteFails(d)
      PROVE  /\ Fresh(day)
             /\ day \in DOMAIN txt => day \in DOMAIN txt' /\ txt[day].kinds \subseteq txt'[day].kinds
  <2>1. PICK file : /\ UNCHANGED today /\ txt' = With(txt, d, file)
                    /\ d \in DOMAIN txt => txt[d].kinds \subseteq file.kinds
    BY <1>2, TxtWritten DEF DataInv
  <2>2. ASSUME day \in DOMAIN txt
        PROVE  day \in DOMAIN txt' /\ txt'[day] = IF day = d THEN file ELSE txt[day]
    BY <2>1, <2>2 DEF With
  <2>3. QED
    BY <2>1, <2>2 DEF Fresh
<1>3. CASE DeleteData \/ RemoveCompressed
  <2>1. /\ UNCHANGED today
        /\ UNCHANGED txt \/ \E d \in DOMAIN txt : txt' = Without(txt, d) /\ ~Fresh(d)
    BY <1>3, TxtRemoved DEF DataInv
  <2>2. Fresh(day)
    BY <2>1 DEF Fresh
  <2>3. ASSUME NEW d \in DOMAIN txt, txt' = Without(txt, d), ~Fresh(d), day \in DOMAIN txt
        PROVE  day \in DOMAIN txt' /\ txt'[day] = txt[day]
    BY <2>2, <2>3 DEF Without
  <2>4. QED
    BY <2>1, <2>2, <2>3
<1>4. CASE UNCHANGED <<today, txt>>
  BY <1>4 DEF Fresh
<1>5. QED
  BY <1>1, <1>2, <1>3, <1>4, TxtFrame

\* Where generate goes to when it is not with the bandwidth file.
LEMMA ReadFrame ==
  GenInv /\ Next =>
    \/ UNCHANGED gen
    \/ (Generate \/ Glob \/ LoadFile \/ TrimResults) /\ UNCHANGED <<today, txt>>
    \/ gen'.at \in {"idle", "writing", "symlink", "rename", "exists"}
<1> SUFFICES ASSUME GenInv, Generator \/ KillGenerate
             PROVE  \/ (Generate \/ Glob \/ LoadFile \/ TrimResults) /\ UNCHANGED <<today, txt>>
                    \/ gen'.at \in {"idle", "writing", "symlink", "rename", "exists"}
  BY DEF Next, Day, Scanner, Write, WriteFails, KillCleanup, Cleanup, CleanupStarts, TakeDirectory,
         PassEnds, DeleteData, RemoveCompressed, DeleteBw, RemoveCompressedBw, Compress,
         CompressBw
<1>1. GenEnds \/ Rename \/ KillGenerate => gen'.at = "idle"
  BY DEF GenEnds, Rename, KillGenerate, Idle
<1>2. OpenOutput \/ WriteLines \/ Symlink \/ SymlinkExists =>
        gen'.at \in {"writing", "symlink", "rename", "exists"}
  BY DEF OpenOutput, WriteLines, Symlink, SymlinkExists, GenGoes, GenInv, Gens
<1>3. Generate \/ Glob \/ LoadFile \/ TrimResults => UNCHANGED <<today, txt>>
  BY DEF Generate, Glob, LoadFile, TrimResults, dataVars
<1>4. QED
  BY <1>1, <1>2, <1>3 DEF Generator

\* Each step keeps the result files: none is modified before its day.
LEMMA TxtNext == ProcessInv /\ ProcessInv' /\ DataInv /\ Next => TxtInv'
<1> SUFFICES ASSUME ProcessInv, ProcessInv', DataInv, Next PROVE TxtInv'
  OBVIOUS
<1> USE DEF TxtInv
<1>0. today \in Nat /\ today' \in Nat /\ TxtInv
  BY BoundsAssumption DEF ProcessInv, RangeInv, Days, DataInv
<1>1. CASE Day
  <2>1. today' = today + 1 /\ UNCHANGED txt
    BY <1>1 DEF Day, dataVars
  <2>2. ASSUME NEW d \in DOMAIN txt PROVE txt[d].mtime <= today'
    <3>1. txt[d].mtime \in Nat /\ txt[d].mtime <= today
      BY <1>0
    <3>2. QED
      BY <1>0, <2>1, <3>1
  <2>3. QED
    BY <1>0, <2>1, <2>2
<1>2. ASSUME NEW day \in {today, today - 1} \cap Days,
             (\E kind \in Kinds : Write(day, kind)) \/ WriteFails(day)
      PROVE  TxtInv'
  <2>1. PICK file : /\ UNCHANGED today /\ txt' = With(txt, day, file)
                    /\ file.mtime = today /\ file.kinds \subseteq Kinds
    BY <1>0, <1>2, TxtWritten
  <2>2. day <= today /\ today <= today
    BY <1>0
  <2>3. /\ DOMAIN txt' = DOMAIN txt \cup {day}
        /\ \A d \in DOMAIN txt' : txt'[d] = IF d = day THEN file ELSE txt[d]
    BY <2>1 DEF With
  <2>4. QED
    BY <1>0, <2>1, <2>2, <2>3
<1>3. CASE DeleteData \/ RemoveCompressed
  <2>1. /\ UNCHANGED today
        /\ UNCHANGED txt \/ \E d \in DOMAIN txt : txt' = Without(txt, d)
    BY <1>3, TxtRemoved DEF DataInv
  <2>2. ASSUME NEW d \in DOMAIN txt, txt' = Without(txt, d) PROVE TxtInv'
    BY <1>0, <2>1, <2>2 DEF Without
  <2>3. QED
    BY <1>0, <2>1, <2>2
<1>4. CASE UNCHANGED <<today, txt>>
  BY <1>0, <1>4
<1>5. QED
  BY <1>1, <1>2, <1>3, <1>4, TxtFrame

\* Nobody writes the file that cleanup is about to remove: it has the lock.
LEMMA CompressNext == ProcessInv /\ DataInv /\ Next => CompressInv'
<1> SUFFICES ASSUME ProcessInv, DataInv, Next PROVE CompressInv'
  OBVIOUS
<1>1. CASE cleaner'.at # "remove" \/ cleaner'.pass # "compress data"
  BY <1>1 DEF CompressInv
<1>2. ASSUME NEW day \in Days, Compress(day) PROVE CompressInv'
  <2>1. UNCHANGED txt /\ cleaner'.file = day /\ cleaner'.day = cleaner.day
    BY <1>2 DEF Compress
  <2>2. day \in DOMAIN txt /\ txt[day].mtime + DataCompress < cleaner.day
    BY <1>2 DEF Compress, OldFiles, IsOld
  <2>3. QED
    BY <2>1, <2>2 DEF CompressInv
<1>3. ASSUME NEW name \in Names \cup {Link}, CompressBw(name) PROVE cleaner'.pass # "compress data"
  BY <1>3 DEF CompressBw
<1>4. CASE UNCHANGED <<cleaner, txt>>
  BY <1>4 DEF DataInv, CompressInv
<1>5. ASSUME NEW day \in Days, (\E kind \in Kinds : Write(day, kind)) \/ WriteFails(day)
      PROVE  CompressInv'
  <2>1. UNCHANGED cleaner /\ dataLock = None
    BY <1>5, TxtWritten DEF DataInv
  <2>2. ~InDataPass
    BY <2>1 DEF ProcessInv, LockInv, None
  <2>3. QED
    BY <2>1, <2>2 DEF CompressInv, InDataPass, OnData
<1>6. DeleteData => UNCHANGED cleaner /\ cleaner.at = "walk"
  BY DEF DeleteData, Walks
<1>7. Day \/ KillGenerate \/ Generator \/ DeleteBw => UNCHANGED <<cleaner, txt>>
  BY DEF Day, KillGenerate, Generator, Generate, Glob, LoadFile, TrimResults, GenEnds, OpenOutput,
         WriteLines, Symlink, SymlinkExists, Rename, DeleteBw, dataVars
<1>8. QED
  BY <1>1, <1>2, <1>3, <1>4, <1>5, <1>6, <1>7, RemoveEnds DEF Next, Cleanup, Scanner

\* Time goes on.
LEMMA FreshBefore ==
  ASSUME ProcessInv, ProcessInv', Next, NEW day \in Nat, Fresh(day)'
  PROVE  Fresh(day)
<1>0. today \in Nat /\ today' \in Nat
  BY BoundsAssumption DEF ProcessInv, RangeInv, Days
<1>1. today' = today \/ today' = today + 1
  BY DEF Next, Day, Scanner, Write, WriteFails, Generator, Generate, Glob, LoadFile, TrimResults,
         GenEnds, OpenOutput, WriteLines, Symlink, SymlinkExists, Rename, KillGenerate, Cleanup,
         CleanupStarts, TakeDirectory, PassEnds, DeleteData, RemoveCompressed, DeleteBw,
         RemoveCompressedBw, Compress, CompressBw, KillCleanup
<1>2. day + FreshDays >= today'
  BY DEF Fresh
<1>3. day + FreshDays >= today
  BY <1>0, <1>1, <1>2, DataAssumption
<1>4. QED
  BY <1>3 DEF Fresh

\* What is on disk of a valid day stays there.
LEMMA DiskStays ==
  ASSUME ProcessInv, ProcessInv', DataInv, Next, NEW day \in Days, Fresh(day)'
  PROVE  Fresh(day) /\ ResultsOnDisk[day] \subseteq ResultsOnDisk'[day]
BY FreshStays DEF ResultsOnDisk

\* Of the days before the next one that is found nothing valid is on disk.
LEMMA NothingPassedOver ==
  ASSUME RangeInv, GenInv, TxtInv, ReadInv, gen.at = "glob", NEW day \in Days, Fresh(day),
         day \notin Found
  PROVE  day < gen.day \/ gen.atStart[day] = {}
<1>0. day \in Nat /\ gen.day \in Nat /\ gen.until \in Nat
  BY BoundsAssumption DEF Days, GenInv, Gens
<1>1. CASE day \notin DOMAIN txt /\ ~(day < gen.day)
  <2>1. ResultsOnDisk[day] = {} /\ gen.atStart[day] \subseteq Read(day)
    BY <1>1 DEF ResultsOnDisk, ReadInv
  <2>2. QED
    BY <1>1, <2>1 DEF Read
<1>2. CASE ~(day <= gen.until)
  <2>1. gen.until < day
    BY <1>0, <1>2
  <2>2. QED
    BY <2>1 DEF ReadInv
<1>3. ~(gen.day <= day) => day < gen.day
  BY <1>0
<1>4. QED
  BY <1>1, <1>2, <1>3 DEF Found

\* The results that generate has read of the valid days, as it goes on...
LEMMA ReadNext == ProcessInv /\ ProcessInv' /\ DataInv /\ Next => ReadInv'
<1> SUFFICES ASSUME ProcessInv, ProcessInv', DataInv, Next,
                    gen'.at \in {"glob", "load"}, NEW day \in Days
             PROVE  /\ Fresh(day)' => gen'.atStart[day] \subseteq Read(day)'
                    /\ gen'.until < day => gen'.atStart[day] = {}
  BY DEF ReadInv, Days
<1>0. /\ today \in Nat /\ today' \in Nat /\ day \in Nat
      /\ RangeInv /\ GenInv /\ TxtInv /\ ReadInv
  BY BoundsAssumption DEF ProcessInv, RangeInv, Days, DataInv
<1>1. CASE UNCHANGED gen
  <2>1. ASSUME Fresh(day)' PROVE gen.atStart[day] \subseteq Read(day)'
    <3>1. Fresh(day) /\ ResultsOnDisk[day] \subseteq ResultsOnDisk'[day]
      BY <2>1, DiskStays
    <3>2. gen.atStart[day] \subseteq Read(day)
      BY <1>0, <1>1, <3>1 DEF ReadInv
    <3>3. QED
      BY <1>1, <3>1, <3>2 DEF Read
  <2>2. gen.until < day => gen.atStart[day] = {}
    BY <1>0, <1>1 DEF ReadInv
  <2>3. QED
    BY <1>1, <2>1, <2>2
<1>2. CASE Generate /\ UNCHANGED <<today, txt>>
  <2>1. /\ gen'.day = OldestDay /\ gen'.until = today /\ gen'.atStart = ResultsOnDisk
        /\ ResultsOnDisk' = ResultsOnDisk
    BY <1>2 DEF Generate, ResultsOnDisk
  <2>2. ASSUME Fresh(day)' PROVE ~(day < OldestDay)
    <3>1. day + FreshDays >= today
      BY <1>2, <2>2 DEF Fresh
    <3>2. FreshDays \in Nat
      BY DataAssumption
    <3>3. QED
      BY <1>0, <3>1, <3>2 DEF OldestDay
  <2>3. ASSUME today < day PROVE day \notin DOMAIN txt
    <3>1. SUFFICES ASSUME day \in DOMAIN txt PROVE FALSE
      OBVIOUS
    <3>2. txt[day].mtime \in Nat /\ day <= txt[day].mtime /\ txt[day].mtime <= today
      BY <1>0, <3>1 DEF TxtInv
    <3>3. QED
      BY <1>0, <2>3, <3>2
  <2>4. today < day => ResultsOnDisk[day] = {}
    BY <2>3 DEF ResultsOnDisk
  <2>5. QED
    BY <2>1, <2>2, <2>4 DEF Read
<1>3. CASE Glob /\ UNCHANGED <<today, txt>>
  <2>1. PICK next \in Found : /\ \A other \in Found : next <= other
                              /\ gen' = [gen EXCEPT !.at = "load", !.day = next]
    BY <1>3 DEF Glob
  <2>2. gen \in Gens /\ gen.at = "glob"
    BY <1>0, <1>3 DEF Glob, GenInv
  <2>3. /\ gen'.day = next /\ gen'.until = gen.until
        /\ gen'.atStart = gen.atStart /\ gen'.results = gen.results
    BY <2>1, <2>2 DEF Gens
  <2>4. next \in Nat /\ gen.day \in Nat /\ gen.day <= next
    BY <1>0, <2>2, BoundsAssumption DEF Found, TxtInv, Days, Gens
  <2>5. ResultsOnDisk' = ResultsOnDisk /\ (Fresh(day)' => Fresh(day))
    BY <1>3 DEF ResultsOnDisk, Fresh
  <2>6. Fresh(day) => gen.atStart[day] \subseteq Read(day)
    BY <1>0, <2>2 DEF ReadInv
  <2>7. gen.until < day => gen.atStart[day] = {}
    BY <1>0, <2>2 DEF ReadInv
  <2>8. CASE day < gen.day
    <3>1. day < next
      BY <1>0, <2>4, <2>8
    <3>2. QED
      BY <2>3, <2>5, <2>6, <2>7, <2>8, <3>1 DEF Read
  <2>9. CASE ~(day < gen.day) /\ day < next
    <3>1. day \notin Found
      <4>1. SUFFICES ASSUME day \in Found PROVE FALSE
        OBVIOUS
      <4>2. next <= day
        BY <2>1, <4>1
      <4>3. QED
        BY <1>0, <2>4, <2>9, <4>2
    <3>2. Fresh(day) => gen.atStart[day] = {}
      BY <1>0, <2>2, <2>9, <3>1, NothingPassedOver
    <3>3. QED
      BY <2>3, <2>5, <2>7, <3>2
  <2>10. CASE ~(day < next) /\ ~(day < gen.day)
    BY <2>3, <2>5, <2>6, <2>7, <2>10 DEF Read
  <2>11. QED
    BY <2>8, <2>9, <2>10
<1>4. CASE LoadFile /\ UNCHANGED <<today, txt>>
  <2>1. gen \in Gens /\ gen.at = "load" /\ gen.day \in Nat /\ gen.day \in Days
    BY <1>0, <1>4 DEF LoadFile, GenInv, Gens, DataInv, LoadInv
  <2>2. \A to \in {"missing", "unreadable"} : [gen EXCEPT !.at = to].at = to
    BY <2>1 DEF Gens
  <2>3. /\ gen.day \in DOMAIN txt
        /\ gen' = [gen EXCEPT !.at = "glob", !.day = @ + 1,
                              !.results[gen.day] = txt[gen.day].kinds]
    BY <1>4, <2>2 DEF LoadFile
  <2>4. /\ gen'.day = gen.day + 1 /\ gen'.until = gen.until /\ gen'.atStart = gen.atStart
        /\ gen'.results = [gen.results EXCEPT ![gen.day] = txt[gen.day].kinds]
    BY <2>1, <2>3 DEF Gens
  <2>5. gen.results \in [Days -> SUBSET Kinds]
    BY <2>1 DEF Gens
  <2>6. gen'.results[day] = IF day = gen.day THEN txt[gen.day].kinds ELSE gen.results[day]
    BY <2>4, <2>5
  <2>7. ResultsOnDisk' = ResultsOnDisk /\ (Fresh(day)' => Fresh(day))
    BY <1>4 DEF ResultsOnDisk, Fresh
  <2>8. Fresh(day) => gen.atStart[day] \subseteq Read(day)
    BY <1>0, <2>1 DEF ReadInv
  <2>9. gen.until < day => gen.atStart[day] = {}
    BY <1>0, <2>1 DEF ReadInv
  <2>10. CASE day < gen.day
    <3>1. day < gen.day + 1 /\ day # gen.day
      BY <1>0, <2>1, <2>10
    <3>2. QED
      BY <2>4, <2>6, <2>7, <2>8, <2>9, <2>10, <3>1 DEF Read
  <2>11. CASE day = gen.day
    <3>1. day < gen.day + 1 /\ ~(day < gen.day)
      BY <1>0, <2>11
    <3>2. ResultsOnDisk[day] = txt[gen.day].kinds
      BY <2>3, <2>11 DEF ResultsOnDisk
    <3>3. QED
      BY <2>4, <2>6, <2>7, <2>8, <2>9, <2>11, <3>1, <3>2 DEF Read
  <2>12. CASE ~(day < gen.day) /\ day # gen.day
    <3>1. ~(day < gen.day + 1)
      BY <1>0, <2>1, <2>12
    <3>2. QED
      BY <2>4, <2>7, <2>8, <2>9, <2>12, <3>1 DEF Read
  <2>13. QED
    BY <2>10, <2>11, <2>12
<1>5. ~TrimResults
  BY <1>0 DEF TrimResults, GenInv, Gens
<1>6. QED
  BY <1>0, <1>1, <1>2, <1>3, <1>4, <1>5, ReadFrame

\* ...the file that it opens is there, if it is of a valid day...
LEMMA LoadNext == ProcessInv /\ ProcessInv' /\ DataInv /\ Next => LoadInv'
<1> SUFFICES ASSUME ProcessInv, ProcessInv', DataInv, Next, gen'.at = "load"
             PROVE  gen'.day \in Days /\ (Fresh(gen.day)' => gen'.day \in DOMAIN txt')
  BY DEF LoadInv, Days
<1>0. GenInv
  BY DEF ProcessInv
<1>1. CASE UNCHANGED gen
  <2>1. gen.day \in Days /\ (Fresh(gen.day) => gen.day \in DOMAIN txt)
    BY <1>1 DEF DataInv, LoadInv
  <2>2. ASSUME NEW day \in Days, gen.day = day, Fresh(gen.day)' PROVE day \in DOMAIN txt'
    <3>1. Fresh(day)'
      BY <1>1, <2>2 DEF Fresh
    <3>2. Fresh(day) /\ (day \in DOMAIN txt => day \in DOMAIN txt')
      BY <3>1, FreshStays
    <3>3. QED
      BY <2>1, <2>2, <3>2
  <2>3. QED
    BY <1>1, <2>1, <2>2
<1>2. CASE Glob /\ UNCHANGED <<today, txt>>
  <2>1. PICK next \in Found : gen' = [gen EXCEPT !.at = "load", !.day = next]
    BY <1>2 DEF Glob
  <2>2. gen'.day = next
    BY <1>0, <1>2, <2>1 DEF Glob, GenInv, Gens
  <2>3. QED
    BY <1>2, <2>2 DEF Found, DataInv, TxtInv
<1>3. ~(Generate \/ LoadFile \/ TrimResults)
  <2>1. TrimResults => gen'.at = "trimmed"
    BY <1>0 DEF TrimResults, GenInv, Gens
  <2>2. LoadFile => gen'.at \in {"missing", "unreadable", "glob"}
    BY <1>0 DEF LoadFile, GenInv, Gens
  <2>3. Generate => gen'.at = "glob"
    BY DEF Generate
  <2>4. QED
    BY <2>1, <2>2, <2>3
<1>4. QED
  BY <1>0, <1>1, <1>2, <1>3, ReadFrame

\* ...and it has each valid result at last.
LEMMA ValidNext == ProcessInv /\ ProcessInv' /\ DataInv /\ Next => ValidResultsRead'
<1> SUFFICES ASSUME ProcessInv, ProcessInv', DataInv, Next PROVE ValidResultsRead'
  OBVIOUS
<1>0. RangeInv /\ GenInv /\ TxtInv /\ ReadInv /\ LoadInv /\ ValidResultsRead
  BY DEF ProcessInv, DataInv
<1>1. CASE UNCHANGED gen
  <2>1. ASSUME NEW day \in Days, Fresh(day)' PROVE Fresh(day)
    BY <2>1, DiskStays
  <2>2. ASSUME gen.at = "missing" PROVE ~Fresh(gen.day)'
    <3>1. gen.day \in Nat /\ ~Fresh(gen.day)
      BY <1>0, <2>2 DEF GenInv, Gens, ValidResultsRead
    <3>2. ASSUME NEW day \in Nat, day = gen.day, Fresh(gen.day)' PROVE FALSE
      <4>1. Fresh(day)'
        BY <1>1, <3>2 DEF Fresh
      <4>2. QED
        BY <3>1, <3>2, <4>1, FreshBefore
    <3>3. QED
      BY <3>1, <3>2
  <2>3. gen.at = "trimmed" =>
          \A day \in Days : Fresh(day)' => gen.atStart[day] \subseteq gen.results[day]
    BY <1>0, <2>1 DEF ValidResultsRead
  <2>4. QED
    BY <1>0, <1>1, <2>2, <2>3 DEF ValidResultsRead, Fresh, Days
<1>2. CASE LoadFile /\ UNCHANGED <<today, txt>>
  <2>1. gen \in Gens /\ gen.at = "load" /\ gen.day \in Days
    BY <1>0, <1>2 DEF LoadFile, GenInv, LoadInv
  <2>2. gen.day \in DOMAIN txt => CanRead(txt[gen.day].kinds)
    BY <1>0, AllRead DEF TxtInv
  <2>3. \/ gen.day \notin DOMAIN txt /\ gen' = [gen EXCEPT !.at = "missing"]
        \/ gen'.at = "glob"
    BY <1>2, <2>1, <2>2 DEF LoadFile, Gens
  <2>4. CASE gen.day \notin DOMAIN txt /\ gen' = [gen EXCEPT !.at = "missing"]
    <3>1. gen'.at = "missing" /\ gen'.day = gen.day
      BY <2>1, <2>4 DEF Gens
    <3>2. ~Fresh(gen.day)'
      BY <1>0, <1>2, <2>1, <2>4 DEF LoadInv, Fresh
    <3>3. QED
      BY <3>1, <3>2 DEF ValidResultsRead, Fresh
  <2>5. QED
    BY <2>3, <2>4 DEF ValidResultsRead
<1>3. CASE TrimResults /\ UNCHANGED <<today, txt>>
  <2>1. gen \in Gens /\ gen.at = "glob" /\ Found = {}
    BY <1>0, <1>3 DEF TrimResults, GenInv
  <2>2. gen'.at = "trimmed" /\ gen'.results = Trim(gen.results) /\ gen'.atStart = gen.atStart
    BY <1>3, <2>1 DEF TrimResults, Gens
  <2>3. ASSUME NEW day \in Days, Fresh(day)'
        PROVE  gen'.atStart[day] \subseteq gen'.results[day]
    <3>1. Fresh(day)
      BY <1>3, <2>3 DEF Fresh
    <3>2. gen'.results[day] = gen.results[day]
      BY <2>2, <3>1 DEF Trim
    <3>3. day < gen.day \/ gen.atStart[day] = {}
      BY <1>0, <2>1, <3>1, NothingPassedOver
    <3>4. gen.atStart[day] \subseteq Read(day)
      BY <1>0, <2>1, <3>1 DEF ReadInv
    <3>5. QED
      BY <2>2, <3>2, <3>3, <3>4 DEF Read
  <2>4. QED
    BY <2>2, <2>3 DEF ValidResultsRead, Days
<1>4. Generate \/ Glob => gen'.at \in {"glob", "load"}
  <2>1. Generate => gen'.at = "glob"
    BY DEF Generate
  <2>2. Glob => gen'.at = "load"
    BY <1>0 DEF Glob, GenInv, Gens
  <2>3. QED
    BY <2>1, <2>2
<1>5. CASE gen'.at \notin {"missing", "unreadable", "trimmed"}
  BY <1>5 DEF ValidResultsRead
<1>6. QED
  BY <1>0, <1>1, <1>2, <1>3, <1>4, <1>5, ReadFrame

-----------------------------------------------------------------------------
\* Each step keeps the invariant, and so does no step.
LEMMA DatadirNext == DatadirInv /\ [Next]_vars => DatadirInv'
<1>1. DatadirInv /\ Next => DatadirInv'
  <2> SUFFICES ASSUME DatadirInv, Next PROVE DatadirInv'
    OBVIOUS
  <2>1. ProcessInv /\ BwInv /\ DataInv /\ ProcessInv'
    BY ProcessNext DEF DatadirInv
  <2>2. BwInv'
    BY <2>1, BwNext
  <2>3. DataInv'
    BY <2>1, TxtNext, CompressNext, ReadNext, LoadNext, ValidNext DEF DataInv
  <2>4. QED
    BY <2>1, <2>2, <2>3 DEF DatadirInv
<1>2. DatadirInv /\ UNCHANGED vars => DatadirInv'
  <2> SUFFICES ASSUME DatadirInv, UNCHANGED vars PROVE DatadirInv'
    OBVIOUS
  <2> USE DEF DatadirInv, vars, dataVars, bwVars
  <2>1. ProcessInv'
    BY DEF ProcessInv, RangeInv, GenInv, CleanerInv, LockInv, InDataPass, InBwPass, Writing
  <2>2. BwInv'
    BY DEF BwInv, FilesInv, LinkInv, Leads, OutputInv, TmpInv, RemoveInv, OnlyCrashBlocksGenerate
  <2>3. DataInv'
    BY DEF DataInv, TxtInv, CompressInv, ReadInv, LoadInv, ValidResultsRead, Read, ResultsOnDisk,
           Fresh
  <2>4. QED
    BY <2>1, <2>2, <2>3
<1>3. QED
  BY <1>1, <1>2

\* Whoever follows latest.v3bw reads a whole bandwidth file, or the link is as
\* old as the files that cleanup compresses (V3BWFile.write and
\* _clean_v3bw_files). It follows from LinkInv.
THEOREM LatestIsWholeHolds == Spec => []LatestIsWhole
<1>1. DatadirInv => LatestIsWhole
  BY DEF DatadirInv, BwInv, LinkInv, Leads, LatestIsWhole
<1>2. QED
  BY <1>1, InitDatadir, DatadirNext, PTL DEF Spec

\* The name latest.v3bw.tmp, that blocks the later generates (os.symlink in
\* V3BWFile.write), is left behind only by a process that was killed.
THEOREM OnlyCrashBlocksGenerateHolds == Spec => []OnlyCrashBlocksGenerate
<1>1. DatadirInv => OnlyCrashBlocksGenerate
  BY DEF DatadirInv, BwInv
<1>2. QED
  BY <1>1, InitDatadir, DatadirNext, PTL DEF Spec

\* generate reads each valid result that was on disk when it began, although
\* cleanup compresses and removes files between its glob and its open
\* (load_recent_results_in_datadir and _clean_result_files), with any periods
\* as _check_validity_periods_results wants them.
THEOREM ValidResultsReadHolds == Spec => []ValidResultsRead
<1>1. DatadirInv => ValidResultsRead
  BY DEF DatadirInv, DataInv
<1>2. QED
  BY <1>1, InitDatadir, DatadirNext, PTL DEF Spec

-----------------------------------------------------------------------------
(***************************************************************************)
(* The types                                                               *)
(***************************************************************************)

\* What TypeOK says and DatadirInv does not. While generate reads it has yet to
\* name the file it was started for.
TxtTypes == \A day \in DOMAIN txt :
              txt[day] \in [kinds : SUBSET Kinds, torn : BOOLEAN, mtime : Days]
GzTypes == DOMAIN dataGz \subseteq Days /\ DOMAIN bwGz \subseteq Names \cup {Link}
NameTypes ==
  /\ generated <= MaxGenerates
  /\ gen.at \in {"glob", "load", "trimmed"} => generated < MaxGenerates

\* Every step keeps the result files what a result file may be.
LEMMA TxtTypesNext == RangeInv /\ TxtTypes /\ Next => TxtTypes'
<1> SUFFICES ASSUME RangeInv, TxtTypes, Next PROVE TxtTypes'
  OBVIOUS
<1>1. today \in Days
  BY DEF RangeInv
<1>2. ASSUME NEW day \in Days, NEW file \in [kinds : SUBSET Kinds, torn : BOOLEAN, mtime : Days],
             txt' = With(txt, day, file)
      PROVE  TxtTypes'
  BY <1>2 DEF With, TxtTypes
<1>3. ASSUME NEW day, txt' = Without(txt, day) PROVE TxtTypes'
  BY <1>3 DEF Without, TxtTypes
<1>4. ASSUME NEW day \in {today, today - 1} \cap Days, NEW kind \in Kinds, Write(day, kind)
      PROVE  TxtTypes'
  <2> DEFINE old == IF day \in DOMAIN txt THEN txt[day]
                    ELSE [kinds |-> {}, torn |-> FALSE, mtime |-> today]
             kinds == IF old.torn THEN old.kinds ELSE old.kinds \cup {kind}
  <2>1. txt' = With(txt, day, [kinds |-> kinds, torn |-> FALSE, mtime |-> today])
    BY <1>4 DEF Write
  <2>2. old \in [kinds : SUBSET Kinds, torn : BOOLEAN, mtime : Days]
    <3>1. CASE day \in DOMAIN txt
      BY <3>1 DEF TxtTypes
    <3>2. CASE day \notin DOMAIN txt
      BY <1>1, <3>2
    <3> QED
      BY <3>1, <3>2
  <2>3. kinds \in SUBSET Kinds
    <3> HIDE DEF old
    <3>1. old.kinds \in SUBSET Kinds
      BY <2>2
    <3> QED
      BY <3>1
  <2> HIDE DEF kinds
  <2>4. [kinds |-> kinds, torn |-> FALSE, mtime |-> today]
          \in [kinds : SUBSET Kinds, torn : BOOLEAN, mtime : Days]
    BY <1>1, <2>3
  <2> QED
    BY <1>2, <2>1, <2>4
<1>5. ASSUME NEW day \in {today, today - 1} \cap Days, WriteFails(day)
      PROVE  TxtTypes'
  <2> DEFINE kinds == IF day \in DOMAIN txt THEN txt[day].kinds ELSE {}
  <2>1. txt' = With(txt, day, [kinds |-> kinds, torn |-> TRUE, mtime |-> today])
    BY <1>5 DEF WriteFails
  <2>2. kinds \in SUBSET Kinds
    BY DEF TxtTypes
  <2> HIDE DEF kinds
  <2>3. [kinds |-> kinds, torn |-> TRUE, mtime |-> today]
          \in [kinds : SUBSET Kinds, torn : BOOLEAN, mtime : Days]
    BY <1>1, <2>2
  <2> QED
    BY <1>2, <2>1, <2>3
<1>6. CASE DeleteData
  <2>1. UNCHANGED txt \/ \E day \in OldFiles(txt, DataDelete) : txt' = Without(txt, day)
    BY <1>6 DEF DeleteData
  <2> QED
    BY <1>3, <2>1 DEF TxtTypes
<1>7. CASE RemoveCompressed
  BY <1>3, <1>7 DEF RemoveCompressed
<1>8. CASE UNCHANGED txt
  BY <1>8 DEF TxtTypes
<1>9. Day => UNCHANGED txt
  BY DEF Day, dataVars
<1> QED
  BY <1>4, <1>5, <1>6, <1>7, <1>8, <1>9, TxtFrame

\* Every step keeps the compressed files those there can be.
LEMMA GzTypesNext == GzTypes /\ Next => GzTypes'
<1> SUFFICES ASSUME GzTypes, Next PROVE GzTypes'
  OBVIOUS
<1>1. ASSUME UNCHANGED <<dataGz, bwGz>> PROVE GzTypes'
  BY <1>1 DEF GzTypes
<1>2. CASE DeleteData
  <2>1. bwGz' = bwGz /\ DOMAIN dataGz' \subseteq DOMAIN dataGz
    BY <1>2 DEF DeleteData, Without, bwVars
  <2> QED
    BY <2>1 DEF GzTypes
<1>3. ASSUME NEW day \in Days, Compress(day) PROVE GzTypes'
  <2>1. bwGz' = bwGz /\ DOMAIN dataGz' = DOMAIN dataGz \cup {day}
    BY <1>3 DEF Compress, With, bwVars
  <2> QED
    BY <2>1 DEF GzTypes
<1>4. CASE DeleteBw
  <2>1. dataGz' = dataGz /\ DOMAIN bwGz' \subseteq DOMAIN bwGz
    BY <1>4 DEF DeleteBw, Without, dataVars
  <2> QED
    BY <2>1 DEF GzTypes
<1>5. ASSUME NEW name \in Names \cup {Link}, CompressBw(name) PROVE GzTypes'
  <2>1. dataGz' = dataGz /\ DOMAIN bwGz' = DOMAIN bwGz \cup {name}
    BY <1>5 DEF CompressBw, With, dataVars
  <2> QED
    BY <2>1 DEF GzTypes
<1>6. CASE Day \/ Scanner
  BY <1>1, <1>6 DEF Day, Scanner, Write, WriteFails, dataVars, bwVars
<1>7. CASE Generator
  <2>1. Generate \/ Glob \/ LoadFile \/ TrimResults \/ GenEnds => UNCHANGED <<dataGz, bwGz>>
    BY DEF Generate, Glob, LoadFile, TrimResults, GenEnds, dataVars, bwVars
  <2>2. OpenOutput \/ WriteLines \/ Symlink \/ SymlinkExists \/ Rename => UNCHANGED <<dataGz, bwGz>>
    BY DEF OpenOutput, WriteLines, Symlink, SymlinkExists, Rename, dataVars, bwVars
  <2> QED
    BY <1>1, <1>7, <2>1, <2>2 DEF Generator
<1>8. CASE KillGenerate \/ KillCleanup
  BY <1>1, <1>8 DEF KillGenerate, KillCleanup, dataVars, bwVars
<1>9. CASE CleanupStarts \/ TakeDirectory \/ PassEnds \/ RemoveCompressed \/ RemoveCompressedBw
  BY <1>1, <1>9
     DEF CleanupStarts, TakeDirectory, PassEnds, RemoveCompressed, RemoveCompressedBw, dataVars, bwVars
<1> QED
  BY <1>2, <1>3, <1>4, <1>5, <1>6, <1>7, <1>8, <1>9 DEF Next, Cleanup

\* Every step keeps the names those there can be.
LEMMA NameTypesNext == RangeInv /\ GenInv /\ NameTypes /\ Next => NameTypes'
<1> SUFFICES ASSUME RangeInv, GenInv, NameTypes, Next PROVE NameTypes'
  OBVIOUS
<1>1. generated \in Nat /\ MaxGenerates \in Nat
  BY BoundsAssumption DEF RangeInv
<1>2. ASSUME UNCHANGED <<gen, generated>> PROVE NameTypes'
  BY <1>2 DEF NameTypes
<1>3. ASSUME UNCHANGED generated, gen'.at \notin {"glob", "load", "trimmed"} PROVE NameTypes'
  BY <1>3 DEF NameTypes
<1>4. CASE Generate
  BY <1>4 DEF Generate, NameTypes
<1>5. CASE Glob \/ LoadFile \/ TrimResults
  <2>1. UNCHANGED generated /\ gen.at \in {"glob", "load"}
    BY <1>5 DEF Glob, LoadFile, TrimResults
  <2> QED
    BY <2>1 DEF NameTypes
<1>6. CASE OpenOutput
  <2>1. gen.at = "trimmed" /\ gen \in Gens
    BY <1>6 DEF OpenOutput, GenGoes, GenInv
  <2>2. gen'.at = "writing" /\ generated' = generated + 1
    BY <1>6, <2>1 DEF OpenOutput, GenGoes, Gens
  <2>3. generated < MaxGenerates
    BY <2>1 DEF NameTypes
  <2>4. generated' <= MaxGenerates
    BY <1>1, <2>2, <2>3
  <2> QED
    BY <2>2, <2>4 DEF NameTypes
<1>7. CASE WriteLines \/ Symlink \/ SymlinkExists
  <2>1. gen.at # "idle"
    BY <1>7 DEF WriteLines, Symlink, SymlinkExists, GenGoes
  <2>2. gen \in Gens
    BY <2>1 DEF GenInv
  <2>3. generated' = generated /\ gen'.at \in {"symlink", "rename", "exists"}
    BY <1>7, <2>2 DEF WriteLines, Symlink, SymlinkExists, GenGoes, Gens
  <2> QED
    BY <1>3, <2>3
<1>8. CASE GenEnds \/ Rename \/ KillGenerate
  BY <1>3, <1>8 DEF GenEnds, Rename, KillGenerate, Idle
<1>9. CASE Day \/ Scanner \/ KillCleanup
  BY <1>2, <1>9 DEF Day, Scanner, Write, WriteFails, KillCleanup
<1>10. CASE Cleanup
  <2>1. CleanupStarts \/ TakeDirectory \/ PassEnds \/ DeleteData \/ RemoveCompressed \/ DeleteBw
          \/ RemoveCompressedBw => UNCHANGED <<gen, generated>>
    BY DEF CleanupStarts, TakeDirectory, PassEnds, DeleteData, RemoveCompressed, DeleteBw,
           RemoveCompressedBw
  <2>2. \A f : Compress(f) \/ CompressBw(f) => UNCHANGED <<gen, generated>>
    BY DEF Compress, CompressBw
  <2> QED
    BY <1>2, <1>10, <2>1, <2>2 DEF Cleanup
<1> QED
  BY <1>4, <1>5, <1>6, <1>7, <1>8, <1>9, <1>10 DEF Next, Generator

\* The files are those there can be, and a directory is locked by the process
\* that is in the with block, killed or not (filelock.py).
THEOREM DatadirTypes == Spec => []TypeOK
<1> DEFINE Types == TxtTypes /\ GzTypes /\ NameTypes
<1>1. Init => Types
  <2> SUFFICES ASSUME Init PROVE Types
    OBVIOUS
  <2>1. DOMAIN txt = {} /\ DOMAIN dataGz = {} /\ DOMAIN bwGz = {}
    BY DEF Init
  <2>2. generated <= MaxGenerates /\ gen.at = "idle"
    BY BoundsAssumption DEF Init, Idle
  <2> QED
    BY <2>1, <2>2 DEF TxtTypes, GzTypes, NameTypes
<1>2. DatadirInv /\ Types /\ [Next]_vars => Types'
  <2>1. DatadirInv /\ Types /\ Next => Types'
    BY TxtTypesNext, GzTypesNext, NameTypesNext DEF DatadirInv, ProcessInv
  <2>2. Types /\ UNCHANGED vars => Types'
    BY DEF TxtTypes, GzTypes, NameTypes, vars, dataVars, bwVars
  <2> QED
    BY <2>1, <2>2
<1>3. DatadirInv /\ Types => TypeOK
  <2> SUFFICES ASSUME DatadirInv, Types PROVE TypeOK
    OBVIOUS
  <2>1. /\ today \in Days /\ crashes \in 0..MaxCrashes /\ written \in 0..MaxWrites
        /\ generated \in 0..MaxGenerates
    BY BoundsAssumption DEF DatadirInv, ProcessInv, RangeInv, NameTypes
  <2>2. DOMAIN bw \subseteq Names
    <3>1. DOMAIN bw \subseteq 1..generated
      BY DEF DatadirInv, BwInv, FilesInv
    <3> QED
      BY <2>1, <3>1, BoundsAssumption DEF Names
  <2>3. DOMAIN txt \subseteq Days
    BY DEF DatadirInv, DataInv, TxtInv
  <2>4. /\ dataLock = IF InDataPass THEN "cleanup" ELSE None
        /\ bwLock = IF Writing THEN "generate" ELSE IF InBwPass THEN "cleanup" ELSE None
    BY DEF DatadirInv, ProcessInv, LockInv
  <2> QED
    BY <2>1, <2>2, <2>3, <2>4 DEF TypeOK, TxtTypes, GzTypes
<1> QED
  BY <1>1, <1>2, <1>3, InitDatadir, DatadirNext, PTL DEF Spec

=============================================================================
