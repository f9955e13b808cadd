------------------------------- MODULE Datadir -------------------------------
(***************************************************************************)
(* The files that the scanner, `sbws generate` and `sbws cleanup` share:   *)
(* the result files of the datadir, one a day, and the bandwidth files,    *)
(* with the link latest.v3bw that tor follows. The three are processes of  *)
(* their own that lock a directory while they write in it; looking for     *)
(* files, and following the link, is done with no lock. Any of them may be *)
(* killed, and the disk may be full.                                       *)
(*                                                                         *)
(* Time is in days. A result file has the kinds of results it holds.       *)
(***************************************************************************)
EXTENDS Integers, FiniteSets

CONSTANTS
  Kinds,         \* kinds of results: classes
  FreshDays,     \* days a result is valid: GENERATE_PERIOD, or data_period
  DataCompress,  \* options data_files_compress_after_days...
  DataDelete,
  BwCompress,    \* ...and v3bw_files_compress_after_days
  BwDelete,
  MaxDay,        \* bounds: the days there are,
  MaxWrites,     \* the results that are written,
  MaxGenerates,  \* how often generate is run
  MaxCrashes     \* and how often a process is killed

ASSUME KindsAssumption ==
  Kinds \subseteq {"ResultSuccess", "ResultError", "ResultErrorCircuit", "ResultErrorStream",
                   "ResultErrorAuth", "ResultErrorSecondRelay", "ResultErrorDestination"}
\* The comment in config.default.ini on #40017: result files are kept for as
\* long as generate needs them.
ASSUME DataAssumption ==
  FreshDays \in Nat /\ DataCompress \in Nat /\ DataDelete \in Nat
  /\ FreshDays < DataCompress /\ DataCompress < DataDelete
\* _check_validity_periods_v3bw
ASSUME BwAssumption ==
  BwCompress \in Nat /\ BwDelete \in Nat /\ 1 <= BwCompress /\ BwCompress < BwDelete
ASSUME BoundsAssumption ==
  /\ MaxDay \in Nat /\ MaxWrites \in Nat
  /\ MaxGenerates \in Nat /\ MaxCrashes \in Nat

Days  == 0..MaxDay
\* Bandwidth files are named for the second they are generated in.
Names == 1..MaxGenerates
\* The name of the file that the link latest.v3bw is compressed to.
Link  == 0
None  == "none"

VARIABLES
  today,
  txt,       \* result files: of a day, [kinds, torn, mtime]
  dataGz,    \* compressed result files: of a day, the mtime
  dataLock,  \* who has the lock of the datadir
  bw,        \* bandwidth files: [done, mtime]
  bwGz,      \* compressed bandwidth files, and link: [done, mtime]
  latest,    \* the link latest.v3bw: [to, mtime], if there is one
  tmp,       \* the link latest.v3bw.tmp, if there is one
  bwLock,    \* who has the lock of the other directory
  gen,       \* the process generate
  cleaner,   \* the process cleanup
  \* History
  crashes,
  written,   \* results written
  generated  \* bandwidth files begun

dataVars == <<txt, dataGz>>
bwVars   == <<bw, bwGz, latest, tmp>>
vars == <<today, dataVars, dataLock, bwVars, bwLock, gen, cleaner, crashes, written, generated>>

\* A file with or without one of a map, and a map without it.
With(map, name, file) ==
  [n \in DOMAIN map \cup {name} |-> IF n = name THEN file ELSE map[n]]
Without(map, name) == [n \in DOMAIN map \ {name} |-> map[n]]

-----------------------------------------------------------------------------
\* How a result is written and read; of its fields only the type matters here.
R == INSTANCE Results WITH Version <- 4, Second <- 1

\* Result.from_dict finds a class for the type, whose from_dict makes a Result.
CanRead(kinds) == \A kind \in kinds : ~R!Raises(R!Type(kind))

-----------------------------------------------------------------------------
Idle == [at |-> "idle"]

Init ==
  /\ today = 0
  /\ txt = << >> /\ dataGz = << >> /\ dataLock = None
  /\ bw = << >> /\ bwGz = << >> /\ latest = << >> /\ tmp = {} /\ bwLock = None
  /\ gen = Idle /\ cleaner = Idle
  /\ crashes = 0 /\ written = 0 /\ generated = 0

\* From the last line of a bandwidth file to its link there is less than a day,
\* and one midnight at most.
Day ==
  /\ today < MaxDay /\ today' = today + 1
  /\ gen.at \in {"symlink", "rename"} => bw[generated].mtime = today
  /\ UNCHANGED <<dataVars, dataLock, bwVars, bwLock, gen, cleaner, crashes, written, generated>>

-----------------------------------------------------------------------------
(***************************************************************************)
(* The scanner: write_result_to_datadir.                                   *)
(***************************************************************************)

\* A line is added to the file of the day of the result, which may have ended.
\* After a line with no end what is added is part of that line.
Write(day, kind) ==
  /\ dataLock = None
  /\ written < MaxWrites /\ written' = written + 1
  /\ LET old == IF day \in DOMAIN txt THEN txt[day]
                ELSE [kinds |-> {}, torn |-> FALSE, mtime |-> today]
     IN  txt' = With(txt, day, [kinds |-> IF old.torn THEN old.kinds
                                          ELSE old.kinds \cup {kind},
                                torn |-> FALSE, mtime |-> today])
  /\ UNCHANGED <<today, dataGz, dataLock, bwVars, bwLock, gen, cleaner, crashes, generated>>

\* The disk is full, or the scanner is killed: part of the line is written.
WriteFails(day) ==
  /\ dataLock = None
  /\ crashes < MaxCrashes /\ crashes' = crashes + 1
  /\ txt' = With(txt, day, [kinds |-> IF day \in DOMAIN txt THEN txt[day].kinds ELSE {},
                            torn |-> TRUE, mtime |-> today])
  /\ UNCHANGED <<today, dataGz, dataLock, bwVars, bwLock, gen, cleaner, written, generated>>

-----------------------------------------------------------------------------
(***************************************************************************)
(* generate: load_recent_results_in_datadir and V3BWFile.write. (The       *)
(* scanner loads the results in the same way when it starts.)              *)
(***************************************************************************)
GenGoes(from, to) == gen.at = from /\ gen' = [gen EXCEPT !.at = to]

\* Mutant of OldestDay: the days from the first that is valid, less one.
OneDayLess == IF today < FreshDays THEN 0 ELSE today - FreshDays + 1

\* The first day that is looked for, with data_period = fresh_days + 2.
OldestDay == IF today < FreshDays + 2 THEN 0 ELSE today - (FreshDays + 2)

\* What is on disk, and the results read: of each day, the kinds.
ResultsOnDisk == [day \in Days |-> IF day \in DOMAIN txt THEN txt[day].kinds ELSE {}]

Generate ==
  /\ gen.at = "idle" /\ generated < MaxGenerates
  /\ gen' = [at |-> "glob", day |-> OldestDay, until |-> today,
             results |-> [day \in Days |-> {}], atStart |-> ResultsOnDisk]
  /\ UNCHANGED <<today, dataVars, dataLock, bwVars, bwLock, cleaner, crashes, written, generated>>

\* The days that glob, with no lock, finds a file of.
Found == {day \in DOMAIN txt : gen.day <= day /\ day <= gen.until}

\* The next of them; the days before it are passed over.
Glob ==
  /\ gen.at = "glob"
  /\ \E day \in Found :
        /\ \A other \in Found : day <= other
        /\ gen' = [gen EXCEPT !.at = "load", !.day = day]
  /\ UNCHANGED <<today, dataVars, dataLock, bwVars, bwLock, cleaner, crashes, written, generated>>

\* load_result_file. A line that is not JSON is ignored. The file may be gone,
\* FileNotFoundError, or hold a line that is JSON and no Result.
LoadFile ==
  /\ gen.at = "load" /\ dataLock = None
  /\ gen' = IF gen.day \notin DOMAIN txt THEN [gen EXCEPT !.at = "missing"]
            ELSE IF ~CanRead(txt[gen.day].kinds) THEN [gen EXCEPT !.at = "unreadable"]
            ELSE [gen EXCEPT !.at = "glob", !.day = @ + 1,
                             !.results[gen.day] = txt[gen.day].kinds]
  /\ UNCHANGED <<today, dataVars, dataLock, bwVars, bwLock, cleaner, crashes, written, generated>>

\* trim_results
Fresh(day) == day + FreshDays >= today
Trim(results) == [day \in Days |-> IF Fresh(day) THEN results[day] ELSE {}]

TrimResults ==
  /\ gen.at = "glob" /\ Found = {}
  /\ gen' = [gen EXCEPT !.at = "trimmed", !.results = Trim(@)]
  /\ UNCHANGED <<today, dataVars, dataLock, bwVars, bwLock, cleaner, crashes, written, generated>>

\* An exception ends the process, and so do no results.
GenEnds ==
  /\ \/ gen.at \in {"missing", "unreadable", "exists"}
     \/ gen.at = "trimmed" /\ \A day \in Days : gen.results[day] = {}
  /\ gen' = Idle
  /\ UNCHANGED <<today, dataVars, dataLock, bwVars, bwLock, cleaner, crashes, written, generated>>

\* Mutant of OpenOutput: the link is renamed before there is what it leads to.
LinkFirst ==
  /\ GenGoes("trimmed", "writing")
  /\ \E day \in Days : gen.results[day] # {}
  /\ bwLock = None /\ bwLock' = "generate"
  /\ generated' = generated + 1
  /\ bw' = With(bw, generated', [done |-> FALSE, mtime |-> today])
  /\ latest' = <<[to |-> generated', mtime |-> today]>>
  /\ UNCHANGED <<today, dataVars, dataLock, bwGz, tmp, cleaner, crashes, written>>

\* with DirectoryLock(out_dir), and open(output, "wt")
OpenOutput ==
  /\ GenGoes("trimmed", "writing")
  /\ \E day \in Days : gen.results[day] # {}
  /\ bwLock = None /\ bwLock' = "generate"
  /\ generated' = generated + 1
  /\ bw' = With(bw, generated', [done |-> FALSE, mtime |-> today])
  /\ UNCHANGED <<today, dataVars, dataLock, bwGz, latest, tmp, cleaner, crashes, written>>

\* Mutant of WriteLines: the lock is released with the file.
UnlockEarly ==
  /\ GenGoes("writing", "symlink")
  /\ bw' = With(bw, generated, [done |-> TRUE, mtime |-> today])
  /\ bwLock' = None
  /\ UNCHANGED <<today, dataVars, dataLock, bwGz, latest, tmp, cleaner,
                 crashes, written, generated>>

\* The header and the lines; the file is closed.
WriteLines ==
  /\ GenGoes("writing", "symlink")
  /\ bw' = With(bw, generated, [done |-> TRUE, mtime |-> today])
  /\ UNCHANGED <<today, dataVars, dataLock, bwGz, latest, tmp, bwLock, cleaner,
                 crashes, written, generated>>

\* os.symlink(output_basename, out_link_tmp)
Symlink ==
  /\ tmp = {}
  /\ GenGoes("symlink", "rename")
  /\ tmp' = {[to |-> generated, mtime |-> today]}
  /\ UNCHANGED <<today, dataVars, dataLock, bw, bwGz, latest, bwLock, cleaner,
                 crashes, written, generated>>

\* FileExistsError, out of the with block
SymlinkExists ==
  /\ tmp # {}
  /\ GenGoes("symlink", "exists")
  /\ bwLock' = None
  /\ UNCHANGED <<today, dataVars, dataLock, bwVars, cleaner, crashes, written, generated>>

\* Mutant of Rename: the link is copied.
CopyLink ==
  /\ gen.at = "rename" /\ gen' = Idle
  /\ latest' = <<CHOOSE link \in tmp : TRUE>>
  /\ bwLock' = None
  /\ UNCHANGED <<today, dataVars, dataLock, bw, bwGz, tmp, cleaner, crashes, written, generated>>

\* os.rename(out_link_tmp, out_link)
Rename ==
  /\ gen.at = "rename" /\ gen' = Idle
  /\ latest' = <<CHOOSE link \in tmp : TRUE>>
  /\ tmp' = {}
  /\ bwLock' = None
  /\ UNCHANGED <<today, dataVars, dataLock, bw, bwGz, cleaner, crashes, written, generated>>

KillGenerate ==
  /\ gen.at # "idle" /\ gen' = Idle
  /\ crashes < MaxCrashes /\ crashes' = crashes + 1
  /\ bwLock' = IF bwLock = "generate" THEN None ELSE bwLock
  /\ UNCHANGED <<today, dataVars, dataLock, bwVars, cleaner, written, generated>>

-----------------------------------------------------------------------------
(***************************************************************************)
(* cleanup: _clean_result_files and _clean_v3bw_files. Four passes, each   *)
(* with the lock of its directory, in which the files that are old are     *)
(* visited in any order: the order of os.walk.                             *)
(***************************************************************************)
Passes == {"delete data", "compress data", "delete bw", "compress bw"}
After  == [pass \in Passes |->
             CASE pass = "delete data"   -> "compress data"
               [] pass = "compress data" -> "delete bw"
               [] pass = "delete bw"     -> "compress bw"
               [] pass = "compress bw"   -> None]
OnData(pass) == pass \in {"delete data", "compress data"}

CleanupStarts ==
  /\ cleaner.at = "idle"
  /\ cleaner' = [at |-> "wait", pass |-> "delete data"]
  /\ UNCHANGED <<today, dataVars, dataLock, bwVars, bwLock, gen, crashes, written, generated>>

\* with DirectoryLock(dname). The generator of the files begins under the lock,
\* and takes the day from the clock.
TakeDirectory ==
  /\ cleaner.at = "wait"
  /\ IF OnData(cleaner.pass)
     THEN dataLock = None /\ dataLock' = "cleanup" /\ UNCHANGED bwLock
     ELSE bwLock = None /\ bwLock' = "cleanup" /\ UNCHANGED dataLock
  /\ cleaner' = [at |-> "walk", pass |-> cleaner.pass, day |-> today]
  /\ UNCHANGED <<today, dataVars, bwVars, gen, crashes, written, generated>>

\* _get_files_mtime_older_than
IsOld(mtime, days) == mtime + days < cleaner.day
OldFiles(files, days) == {name \in DOMAIN files : IsOld(files[name].mtime, days)}

\* The link is a file of the walk, with a time of its own; open follows it, and
\* nothing is yielded when it leads nowhere.
LinkIsOld(days) ==
  /\ latest # << >> /\ IsOld(latest[1].mtime, days)
  /\ latest[1].to \in DOMAIN bw

Walks(pass) == cleaner.at = "walk" /\ cleaner.pass = pass

DeleteData ==
  /\ Walks("delete data")
  /\ \/ /\ \E day \in OldFiles(txt, DataDelete) : txt' = Without(txt, day)
        /\ UNCHANGED dataGz
     \/ /\ \E day \in OldFiles(dataGz, DataDelete) : dataGz' = Without(dataGz, day)
        /\ UNCHANGED txt
  /\ UNCHANGED <<today, dataLock, bwVars, bwLock, gen, cleaner, crashes, written, generated>>

\* gzip.open writes the copy...
Compress(day) ==
  /\ Walks("compress data")
  /\ day \in OldFiles(txt, DataCompress)
  /\ dataGz' = With(dataGz, day, [mtime |-> today])
  /\ cleaner' = [at |-> "remove", pass |-> "compress data", day |-> cleaner.day,
                 file |-> day]
  /\ UNCHANGED <<today, txt, dataLock, bwVars, bwLock, gen, crashes, written, generated>>

\* ...and os.remove comes after it.
RemoveCompressed ==
  /\ cleaner.at = "remove" /\ cleaner.pass = "compress data"
  /\ txt' = Without(txt, cleaner.file)
  /\ cleaner' = [at |-> "walk", pass |-> "compress data", day |-> cleaner.day]
  /\ UNCHANGED <<today, dataGz, dataLock, bwVars, bwLock, gen, crashes, written, generated>>

\* The test that keeps links is made on the open file, which is no link: what
\* os.remove is given is the link.
DeleteBw ==
  /\ Walks("delete bw")
  /\ \/ /\ \E name \in OldFiles(bw, BwDelete) : bw' = Without(bw, name)
        /\ UNCHANGED <<bwGz, latest>>
     \/ /\ \E name \in OldFiles(bwGz, BwDelete) : bwGz' = Without(bwGz, name)
        /\ UNCHANGED <<bw, latest>>
     \/ LinkIsOld(BwDelete) /\ latest' = << >> /\ UNCHANGED <<bw, bwGz>>
  /\ UNCHANGED <<today, dataVars, dataLock, tmp, bwLock, gen, cleaner, crashes, written, generated>>

\* What a name of the directory leads to.
Target(name) == IF name = Link THEN latest[1].to ELSE name

CompressBw(name) ==
  /\ Walks("compress bw")
  /\ \/ name \in OldFiles(bw, BwCompress)
     \/ name = Link /\ LinkIsOld(BwCompress)
  /\ bwGz' = With(bwGz, name, [done |-> bw[Target(name)].done, mtime |-> today])
  /\ cleaner' = [at |-> "remove", pass |-> "compress bw", day |-> cleaner.day,
                 file |-> name]
  /\ UNCHANGED <<today, dataVars, dataLock, bw, latest, tmp, bwLock, gen, crashes, written, generated>>

RemoveCompressedBw ==
  /\ cleaner.at = "remove" /\ cleaner.pass = "compress bw"
  /\ IF cleaner.file = Link THEN latest' = << >> /\ UNCHANGED bw
     ELSE bw' = Without(bw, cleaner.file) /\ UNCHANGED latest
  /\ cleaner' = [at |-> "walk", pass |-> "compress bw", day |-> cleaner.day]
  /\ UNCHANGED <<today, dataVars, dataLock, bwGz, tmp, bwLock, gen, crashes, written, generated>>

\* What the pass still has to visit.
Remaining(pass) ==
  CASE pass = "delete data" -> OldFiles(txt, DataDelete) \cup OldFiles(dataGz, DataDelete)
    [] pass = "compress data" -> OldFiles(txt, DataCompress)
    [] pass = "delete bw" ->
         OldFiles(bw, BwDelete) \cup OldFiles(bwGz, BwDelete)
           \cup (IF LinkIsOld(BwDelete) THEN {Link} ELSE {})
    [] pass = "compress bw" ->
         OldFiles(bw, BwCompress) \cup (IF LinkIsOld(BwCompress) THEN {Link} ELSE {})

PassEnds ==
  /\ cleaner.at = "walk"
  /\ Remaining(cleaner.pass) = {}
  /\ IF OnData(cleaner.pass) THEN dataLock' = None /\ UNCHANGED bwLock
     ELSE bwLock' = None /\ UNCHANGED dataLock
  /\ cleaner' = IF After[cleaner.pass] = None THEN Idle
                ELSE [at |-> "wait", pass |-> After[cleaner.pass]]
  /\ UNCHANGED <<today, dataVars, bwVars, gen, crashes, written, generated>>

KillCleanup ==
  /\ cleaner.at # "idle" /\ cleaner' = Idle
  /\ crashes < MaxCrashes /\ crashes' = crashes + 1
  /\ dataLock' = IF dataLock = "cleanup" THEN None ELSE dataLock
  /\ bwLock' = IF bwLock = "cleanup" THEN None ELSE bwLock
  /\ UNCHANGED <<today, dataVars, bwVars, gen, written, generated>>

-----------------------------------------------------------------------------
\* A measurement begins on the day of its result or on the one before.
Scanner ==
  \E day \in {today, today - 1} \cap Days :
     (\E kind \in Kinds : Write(day, kind)) \/ WriteFails(day)

Generator ==
  \/ Generate \/ Glob \/ LoadFile \/ TrimResults \/ GenEnds
  \/ OpenOutput \/ WriteLines \/ Symlink \/ SymlinkExists \/ Rename

Cleanup ==
  \/ CleanupStarts \/ TakeDirectory \/ PassEnds
  \/ DeleteData \/ RemoveCompressed \/ DeleteBw \/ RemoveCompressedBw
  \/ \E day \in Days : Compress(day)
  \/ \E name \in Names \cup {Link} : CompressBw(name)

Next == Day \/ Scanner \/ Generator \/ KillGenerate \/ Cleanup \/ KillCleanup

Spec == Init /\ [][Next]_vars

-----------------------------------------------------------------------------
(***************************************************************************)
(* Properties                                                              *)
(***************************************************************************)
InDataPass == cleaner.at \in {"walk", "remove"} /\ OnData(cleaner.pass)
InBwPass   == cleaner.at \in {"walk", "remove"} /\ ~OnData(cleaner.pass)
Writing    == gen.at \in {"writing", "symlink", "rename"}

\* The files are those there can be, and a directory is locked by the process
\* that is in the with block (filelock.py), killed or not.
TypeOK ==
  /\ today \in Days /\ DOMAIN txt \subseteq Days /\ DOMAIN dataGz \subseteq Days
  /\ \A day \in DOMAIN txt : txt[day] \in [kinds : SUBSET Kinds, torn : BOOLEAN, mtime : Days]
  /\ DOMAIN bw \subseteq Names /\ DOMAIN bwGz \subseteq Names \cup {Link}
  /\ crashes \in 0..MaxCrashes /\ written \in 0..MaxWrites /\ generated \in 0..MaxGenerates
  /\ dataLock = IF InDataPass THEN "cleanup" ELSE None
  /\ bwLock = IF Writing THEN "generate" ELSE IF InBwPass THEN "cleanup" ELSE None

\* generate (and the scanner when it starts) reads each result that is valid and
\* was on disk when it began, although cleanup compresses and removes files
\* between glob and open; it never meets a result it cannot make, and a file
\* that is gone when it is opened held no valid result.
ValidResultsRead ==
  /\ gen.at = "trimmed" =>
       \A day \in Days : Fresh(day) => gen.atStart[day] \subseteq gen.results[day]
  /\ gen.at = "missing" => ~Fresh(gen.day)
  /\ gen.at # "unreadable"

\* Whoever follows latest.v3bw, with no lock, reads a whole bandwidth file; it
\* leads nowhere only when it is as old as the files that cleanup compresses.
LatestIsWhole ==
  latest # << >> =>
    LET to == latest[1].to
    IN  IF to \in DOMAIN bw THEN bw[to].done ELSE latest[1].mtime + BwCompress <= today

\* The name latest.v3bw.tmp, that makes each later generate raise
\* FileExistsError, is left behind only by a process that was killed.
OnlyCrashBlocksGenerate ==
  gen.at = "exists" \/ (tmp # {} /\ gen.at # "rename") => crashes > 0

=============================================================================
