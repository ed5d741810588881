------------------------------- MODULE FileLog ------------------------------
(***************************************************************************)
(* A log file: FileLogWriter of log/log4go/filelog.go with the goroutine   *)
(* that writes it, the check every 30 seconds of filelog_monitor.go that   *)
(* reopens it, and the cleaner of log/log_file_monitor.go that removes old *)
(* files when the disk is full.                                            *)
(*                                                                         *)
(* The writer's goroutine and the check both run intRotate, on the same    *)
(* fields and under no lock. Records are numbered as they enter the        *)
(* channel, and times are told by that number: a record is newer than a    *)
(* check if it was logged after it. A file is its number in `content`; a   *)
(* name leads to a file or to none. No header and trailer are set, as by   *)
(* default, and rotate is on.                                              *)
(*                                                                         *)
(* External: the file system, which at times writes and opens nothing.     *)
(***************************************************************************)
EXTENDS Integers, Sequences, FiniteSets

CONSTANTS
  Daily,          \* values of daily: BOOLEAN or a part of it
  MaxLines,       \* maxLines, looked at in every mode; 0: no limit
  LogBufferLength,
  TryReOpen,      \* tryReOpenErrorsCount: 10
  NameContained,  \* the name of another log is a part of this one's
  MaxRecords,     \* bounds the records,
  MaxDays,        \* the days,
  MaxFiles,       \* the files that are made
  MaxTrouble      \* and the times the disk fails or is cleaned

ASSUME DailyAssumption == Daily \subseteq BOOLEAN
ASSUME MaxLinesAssumption == MaxLines \in Nat
ASSUME LengthAssumption == LogBufferLength \in Nat \ {0} /\ TryReOpen \in Nat \ {0}
ASSUME NameAssumption == NameContained \in BOOLEAN
ASSUME BoundsAssumption == {MaxRecords, MaxDays, MaxFiles, MaxTrouble} \subseteq Nat

VARIABLES
  daily,
  logged,     \* how many records have entered the channel
  rec,        \* the channel
  closed,     \* it is closed
  content,    \* every file ever made: [lines, day], day of its last write
  current,    \* the file the log's name leads to, 0: none
  dated,      \* the file of each name "name.day"
  file,       \* w.file: [of, open]
  openDate,   \* dailyOpenDate
  curLines,   \* maxLinesCurLines
  errors,     \* writeErrorCount
  lastWrite,  \* lastWriteLogTime
  at,         \* the writer's goroutine and the check: where they are
  lastCheck,  \* lastCheckTime; 0: none, else a time + 1
  lastLength, \* lastCheckFileLength
  today,
  writable,   \* the disk takes writes and opens files
  trouble,    \* how often it did not, or was cleaned
  lostInRow,  \* history: records lost one after another while the disk was writable
  idleChecks, \* history: checks with records between them, while the file is gone
  cleaned,    \* history: files the cleaner has removed
  met         \* history: the check has rotated while the writer's goroutine wrote or rotated

disk == <<content, current, dated>>
writerFields == <<file, openDate, curLines>>
stats == <<errors, lastWrite>>
checks == <<lastCheck, lastLength>>
world == <<today, writable, trouble>>
history == <<lostInRow, idleChecks, cleaned, met>>
logVars == <<daily, logged, rec, closed, disk, writerFields, stats, at, checks, world, history>>

Day == 0 .. MaxDays
Actor == {"writer", "check"}
Away == [pc |-> "away", now |-> FALSE, day |-> 0, fd |-> 0]

\* NewFileLogWriter has opened the file.
LogInit ==
  /\ daily \in Daily
  /\ logged = 0 /\ rec = <<>> /\ closed = FALSE
  /\ content = <<[lines |-> <<>>, day |-> 0]>>
  /\ current = 1
  /\ dated = [d \in Day |-> 0]
  /\ file = [of |-> 1, open |-> TRUE]
  /\ openDate = 0 /\ curLines = 0
  /\ errors = 0 /\ lastWrite = 0
  /\ at = [x \in Actor |-> Away]
  /\ lastCheck = 0 /\ lastLength = 0
  /\ today = 0 /\ writable = TRUE /\ trouble = 0
  /\ lostInRow = 0 /\ idleChecks = 0 /\ cleaned = {} /\ met = FALSE

Linked == ({current} \union {dated[d] : d \in Day}) \ {0}

Goto(x, pc) == at' = [at EXCEPT ![x].pc = pc]

-----------------------------------------------------------------------------
(* Whoever logs, the days, the disk.                                       *)

\* LogWrite waits while the channel is full; after Close it would panic.
LogWrite ==
  /\ ~closed
  /\ logged < MaxRecords
  /\ Len(rec) < LogBufferLength
  /\ logged' = logged + 1
  /\ rec' = Append(rec, logged + 1)
  /\ UNCHANGED <<daily, closed, disk, writerFields, stats, at, checks, world, history>>

\* It does not wait for the writer's goroutine.
Close ==
  /\ ~closed
  /\ closed' = TRUE
  /\ UNCHANGED <<daily, logged, rec, disk, writerFields, stats, at, checks, world, history>>

Midnight ==
  /\ today < MaxDays
  /\ today' = today + 1
  /\ UNCHANGED <<daily, logged, rec, closed, disk, writerFields, stats, at, checks, writable, trouble, history>>

DiskFails ==
  /\ writable /\ trouble < MaxTrouble
  /\ writable' = FALSE /\ trouble' = trouble + 1
  /\ lostInRow' = 0 /\ idleChecks' = 0
  /\ UNCHANGED <<daily, logged, rec, closed, disk, writerFields, stats, at, checks, today, cleaned, met>>

DiskWorks ==
  /\ ~writable
  /\ writable' = TRUE
  /\ UNCHANGED <<daily, logged, rec, closed, disk, writerFields, stats, at, checks, today, trouble, history>>

\* _monitor removes the oldest files whose name contains the name of a log, until it
\* has freed enough: old files of this log, and its current one where that has the
\* name of another log in it.
Clean ==
  /\ trouble < MaxTrouble
  /\ trouble' = trouble + 1
  /\ LET old == IF NameContained THEN Linked ELSE Linked \ {current}
     IN \E S \in SUBSET old :
          /\ S # {}
          /\ \A i \in S, j \in old \ S : content[i].day <= content[j].day
          /\ current' = IF current \in S THEN 0 ELSE current
          /\ dated' = [d \in Day |-> IF dated[d] \in S THEN 0 ELSE dated[d]]
          /\ cleaned' = cleaned \union S
  /\ UNCHANGED <<daily, logged, rec, closed, content, writerFields, stats, at, checks, today, writable, lostInRow, idleChecks, met>>

-----------------------------------------------------------------------------
(* intRotate, by the writer's goroutine or by the check; `now` of the      *)
(* caller is rotateNow.                                                    *)

Rotating(x) == at[x].pc \in {"stat", "rename", "open", "assign"}

\* The writer's goroutine writes, with the check in intRotate or not.
Beside == met' = (met \/ Rotating("check"))

\* Its begin: the file is closed.
Enter(x, now) ==
  /\ file' = [file EXCEPT !.open = FALSE]
  /\ at' = [at EXCEPT ![x] = [Away EXCEPT !.pc = "stat", !.now = now]]
  /\ met' = (met \/ \E y \in Actor \ {x} : Rotating(y) \/ at[y].pc = "write")

\* Mutated form: the file is renamed whatever its day.
StatAnyDay(x) ==
  /\ at[x].pc = "stat"
  /\ IF current = 0 THEN Goto(x, "open") /\ UNCHANGED openDate
     ELSE /\ openDate' = content[current].day
          /\ at' = [at EXCEPT ![x].pc = IF daily THEN "rename" ELSE "open",
                              ![x].day = content[current].day]
  /\ UNCHANGED <<daily, logged, rec, closed, disk, file, curLines, stats, checks, world, history>>

\* The day of the last write decides. The numbered files of a writer that is not daily
\* are shifted, and the current one stays where it is.
Stat(x) ==
  /\ at[x].pc = "stat"
  /\ IF current = 0 THEN Goto(x, "open") /\ UNCHANGED openDate
     ELSE /\ openDate' = content[current].day
          /\ at' = [at EXCEPT ![x].pc = IF daily /\ today # openDate' THEN "rename" ELSE "open",
                              ![x].day = content[current].day]
  /\ UNCHANGED <<daily, logged, rec, closed, disk, file, curLines, stats, checks, world, history>>

\* The file under the log's name gets the name of its day; a file of that name is gone.
Rename(x) ==
  /\ at[x].pc = "rename"
  /\ file' = [file EXCEPT !.open = FALSE]
  /\ IF current = 0 THEN UNCHANGED <<current, dated>>
     ELSE dated' = [dated EXCEPT ![at[x].day] = current] /\ current' = 0
  /\ Goto(x, "open")
  /\ UNCHANGED <<daily, logged, rec, closed, content, openDate, curLines, stats, checks, world, history>>

\* Where intRotate returns to: the writer writes its record, or has failed to.
Back(x) == IF x = "check" THEN "away" ELSE IF at[x].now THEN "write" ELSE "note"

OpenFile(x) ==
  /\ at[x].pc = "open"
  /\ IF ~writable THEN Goto(x, Back(x)) /\ UNCHANGED <<content, current>>
     ELSE IF current # 0
     THEN at' = [at EXCEPT ![x].pc = "assign", ![x].fd = current] /\ UNCHANGED <<content, current>>
     ELSE /\ Len(content) < MaxFiles
          /\ content' = Append(content, [lines |-> <<>>, day |-> today])
          /\ current' = Len(content) + 1
          /\ at' = [at EXCEPT ![x].pc = "assign", ![x].fd = Len(content) + 1]
  /\ UNCHANGED <<daily, logged, rec, closed, dated, writerFields, stats, checks, world, history>>

Assign(x) ==
  /\ at[x].pc = "assign"
  /\ file' = [of |-> at[x].fd, open |-> TRUE]
  /\ openDate' = today
  /\ curLines' = 0
  /\ Goto(x, Back(x))
  /\ idleChecks' = 0
  /\ UNCHANGED <<daily, logged, rec, closed, disk, stats, checks, world, lostInRow, cleaned, met>>

-----------------------------------------------------------------------------
(* The writer's goroutine. The record it has is the head of the channel    *)
(* until it has been dealt with.                                           *)

\* It takes a record; a full file or a new day makes it rotate first.
Take ==
  /\ at["writer"].pc = "away"
  /\ rec # <<>>
  /\ IF \/ MaxLines > 0 /\ curLines >= MaxLines
        \/ daily /\ today # openDate
     THEN Enter("writer", TRUE)
     ELSE Goto("writer", "write") /\ UNCHANGED <<file, met>>
  /\ UNCHANGED <<daily, logged, rec, closed, disk, openDate, curLines, stats, checks, world, lostInRow, idleChecks, cleaned>>

\* Mutated form: errors are counted, and nothing comes of it.
WriteNoReopen ==
  /\ at["writer"].pc = "write"
  /\ IF writable /\ file.open
     THEN /\ content' = [content EXCEPT ![file.of] = [lines |-> Append(@.lines, Head(rec)), day |-> today]]
          /\ curLines' = curLines + 1
          /\ errors' = 0
          /\ lostInRow' = 0
     ELSE /\ errors' = (errors + 1) % TryReOpen
          /\ lostInRow' = IF writable THEN lostInRow + 1 ELSE 0
          /\ UNCHANGED <<content, curLines>>
  /\ Goto("writer", "note")
  /\ Beside
  /\ UNCHANGED <<daily, logged, rec, closed, current, dated, file, openDate, lastWrite, checks, world, idleChecks, cleaned>>

\* The record is written or lost; every TryReOpen errors the file is opened again.
Write ==
  /\ at["writer"].pc = "write"
  /\ IF writable /\ file.open
     THEN /\ content' = [content EXCEPT ![file.of] = [lines |-> Append(@.lines, Head(rec)), day |-> today]]
          /\ curLines' = curLines + 1
          /\ errors' = 0
          /\ lostInRow' = 0
          /\ Goto("writer", "note") /\ Beside /\ UNCHANGED file
     ELSE /\ errors' = (errors + 1) % TryReOpen
          /\ lostInRow' = IF writable THEN lostInRow + 1 ELSE 0
          /\ IF errors' = 0 THEN Enter("writer", FALSE)
                            ELSE Goto("writer", "note") /\ Beside /\ UNCHANGED file
          /\ UNCHANGED <<content, curLines>>
  /\ UNCHANGED <<daily, logged, rec, closed, current, dated, openDate, lastWrite, checks, world, idleChecks, cleaned>>

Note ==
  /\ at["writer"].pc = "note"
  /\ lastWrite' = Head(rec)
  /\ rec' = Tail(rec)
  /\ at' = [at EXCEPT !["writer"] = Away]
  /\ UNCHANGED <<daily, logged, closed, disk, writerFields, errors, checks, world, history>>

\* The channel is closed and empty: the goroutine ends and closes the file.
Finish ==
  /\ at["writer"].pc = "away"
  /\ closed /\ rec = <<>>
  /\ file' = [file EXCEPT !.open = FALSE]
  /\ Goto("writer", "ended")
  /\ UNCHANGED <<daily, logged, rec, closed, disk, openDate, curLines, stats, checks, world, history>>

\* checkFileLogPersistStatus, for this writer, closed or not. A length that differs
\* from the one of the first check is not remembered.
CheckPersistStatus ==
  /\ at["check"].pc = "away"
  /\ LET gone == current = 0
         length == IF gone THEN 0 ELSE Len(content[current].lines)
     IN IF lastCheck = 0
        THEN /\ lastCheck' = logged + 1 /\ lastLength' = length
             /\ UNCHANGED <<file, at, met>>
        ELSE IF ~gone /\ length # lastLength
        THEN UNCHANGED <<checks, file, at, met>>
        ELSE IF lastWrite >= lastCheck
        THEN lastCheck' = 0 /\ lastLength' = 0 /\ Enter("check", FALSE)
        ELSE lastCheck' = logged + 1 /\ UNCHANGED <<lastLength, file, at, met>>
  /\ idleChecks' = IF current # 0 \/ ~writable THEN 0
                   ELSE IF lastWrite >= lastCheck THEN idleChecks + 1 ELSE idleChecks
  /\ UNCHANGED <<daily, logged, rec, closed, disk, openDate, curLines, stats, world, lostInRow, cleaned>>

RotateStep(x) == Stat(x) \/ Rename(x) \/ OpenFile(x) \/ Assign(x)
Writer == Take \/ Write \/ Note \/ Finish \/ RotateStep("writer")

LogNext ==
  \/ LogWrite \/ Close \/ Midnight \/ DiskFails \/ DiskWorks \/ Clean
  \/ Writer \/ CheckPersistStatus \/ RotateStep("check")

LogSpec == LogInit /\ [][LogNext]_logVars

-----------------------------------------------------------------------------
Written == UNION {{content[i].lines[j] : j \in DOMAIN content[i].lines} : i \in DOMAIN content}

\* What has been written stays on the disk until the cleaner comes, once and in order,
\* file by file: unless the check rotates beside the writer's goroutine, when one may
\* rename the file that the other has just made over that of the day before.
WrittenStays ==
  ~met =>
    /\ \A i \in DOMAIN content : content[i].lines = <<>> \/ i \in Linked \union cleaned
    /\ \A i, j \in DOMAIN content : \A k \in DOMAIN content[i].lines, l \in DOMAIN content[j].lines :
         (i < j \/ (i = j /\ k < l)) => content[i].lines[k] < content[j].lines[l]

\* A disk that works again is written again, after TryReOpen lost records at most, and
\* a file that was removed under the writer is made again by the second check that
\* has seen records: with the same exception, since the check closes the file first.
KeepsWriting == ~met => lostInRow <= TryReOpen /\ idleChecks <= 2

\* A file is full with maxLines lines.
LinesBounded ==
  MaxLines > 0 => \A i \in DOMAIN content : Len(content[i].lines) <= MaxLines
=============================================================================
