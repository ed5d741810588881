--------------------------- MODULE FileLogProofs ----------------------------
(***************************************************************************)
(* What FileLog guarantees for any limits, and any number of records, days *)
(* and troubles: as long as the check does not rotate beside the writer's  *)
(* goroutine, nothing written is lost and writing goes on.                 *)
(***************************************************************************)
EXTENDS FileLog, TLAPS

Pc == {"away", "stat", "rename", "open", "assign", "write", "note", "ended"}

FileStates == [lines : Seq(Nat), day : Day]
AtStates == [pc : Pc, now : BOOLEAN, day : Day, fd : Nat]

LogTypes ==
  /\ daily \in BOOLEAN
  /\ logged \in Nat /\ rec \in Seq(Nat)
  /\ content \in Seq(FileStates) /\ Len(content) >= 1
  /\ current \in {0, Len(content)}
  /\ dated \in [Day -> Nat]
  /\ file \in [of : Nat \ {0}, open : BOOLEAN] /\ file.of \in 1 .. Len(content)
  /\ at \in [Actor -> AtStates]
  /\ \A x \in Actor : at[x].pc = "assign" => at[x].fd \in 1 .. Len(content)
  /\ today \in Day /\ writable \in BOOLEAN /\ met \in BOOLEAN
  /\ errors \in 0 .. TryReOpen - 1 /\ lostInRow \in Nat /\ idleChecks \in Nat /\ lastCheck \in Nat

\* Records leave the channel in their order, and what has been written came before the
\* record at hand, or is that record.
InOrder ==
  /\ \A k \in 1 .. Len(rec) : rec[k] = logged - Len(rec) + k
  /\ at["writer"].pc \notin {"away", "ended"} => rec # <<>>
  /\ at["check"].pc \notin {"write", "note", "ended"}
  /\ \A i \in DOMAIN content : \A k \in DOMAIN content[i].lines :
       content[i].lines[k] <= logged - Len(rec) + (IF at["writer"].pc = "note" THEN 1 ELSE 0)

\* As long as the two have not met, one of them at most rotates; the writer's file is the
\* newest one, which the log's name leads to unless the cleaner has removed it; and the
\* files with dates are of days before the current one's.
Apart ==
  /\ ~(Rotating("writer") /\ Rotating("check"))
  /\ (\A x \in Actor : at[x].pc # "assign") => file.of = Len(content)
  /\ \A x \in Actor : at[x].pc = "assign" =>
       at[x].fd = Len(content) /\ (at[x].fd = current \/ at[x].fd \in cleaned)
  /\ file.open => file.of = current \/ file.of \in cleaned
  /\ \A x \in Actor : (at[x].pc = "rename" /\ current # 0) =>
       at[x].day = content[current].day /\ at[x].day < today
  /\ \A d \in Day : dated[d] # 0 => d < today /\ (current # 0 => content[current].day > d)
  /\ \A i \in DOMAIN content : content[i].day <= today

\* A lost record is an error, and the errors that open the file again leave it open, or
\* a rotation under way.
Reopens ==
  \/ lostInRow <= errors
  \/ /\ lostInRow <= TryReOpen
     /\ file.open \/ Rotating("writer") \/ Rotating("check") \/ at["writer"].pc = "ended"

\* Two checks with records between them see that the file is gone, and the second one
\* rotates.
ChecksCounted ==
  /\ ~writable => lostInRow = 0 /\ idleChecks = 0
  /\ at["check"].pc = "away" => idleChecks <= IF lastCheck = 0 THEN 0 ELSE 1
  /\ idleChecks <= 2

Kept == \A i \in DOMAIN content : content[i].lines = <<>> \/ i \in Linked \union cleaned

Sorted ==
  \A i, j \in DOMAIN content : \A k \in DOMAIN content[i].lines, l \in DOMAIN content[j].lines :
    (i < j \/ (i = j /\ k < l)) => content[i].lines[k] < content[j].lines[l]

FileInv ==
  /\ LogTypes /\ InOrder /\ ChecksCounted
  /\ ~met => Apart /\ Reopens /\ Kept /\ Sorted

LEMMA Constants ==
  /\ TryReOpen \in Nat \ {0} /\ LogBufferLength \in Nat \ {0} /\ MaxDays \in Nat /\ MaxFiles \in Nat
  /\ MaxLines \in Nat /\ 0 \in Day
BY LengthAssumption, BoundsAssumption, MaxLinesAssumption DEF Day

\* The types of parts.
LEMMA PartTypes ==
  ASSUME LogTypes
  PROVE  /\ Len(content) \in Nat \ {0} /\ DOMAIN content = 1 .. Len(content)
         /\ \A i \in 1 .. Len(content) :
              /\ content[i] \in FileStates
              /\ content[i].lines \in Seq(Nat) /\ content[i].day \in Day /\ content[i].day \in Int
         /\ current # 0 => current \in 1 .. Len(content)
         /\ today \in Int /\ \A d \in Day : d \in Int
         /\ \A x \in Actor : at[x].day \in Day /\ at[x].day \in Int /\ at[x].fd \in Nat
<1>1. \A d \in Day : d \in Int
  BY Constants DEF Day
<1>2. Len(content) \in Nat \ {0} /\ DOMAIN content = 1 .. Len(content)
  BY DEF LogTypes
<1>3. \A i \in 1 .. Len(content) : content[i] \in FileStates
  BY DEF LogTypes
<1>4. \A x \in Actor : at[x] \in AtStates
  BY DEF LogTypes
<1>5. \A i \in 1 .. Len(content) : content[i].lines \in Seq(Nat) /\ content[i].day \in Day
  BY <1>3 DEF FileStates
<1>6. \A x \in Actor : at[x].day \in Day /\ at[x].fd \in Nat
  BY <1>4 DEF AtStates
<1>7. current # 0 => current \in 1 .. Len(content)
  <2>1. current \in {0, Len(content)}
    BY DEF LogTypes
  <2>2. Len(content) \in 1 .. Len(content)
    BY <1>2
  <2> QED
    BY <2>1, <2>2
<1>8. today \in Day
  BY DEF LogTypes
<1> QED
  BY <1>1, <1>2, <1>3, <1>5, <1>6, <1>7, <1>8

LEMMA InitFile == LogInit => FileInv
<1> SUFFICES ASSUME LogInit PROVE FileInv
  OBVIOUS
<1>0. daily \in BOOLEAN
  BY DailyAssumption DEF LogInit
<1>1. LogTypes
  <2>1. Away \in AtStates /\ Away.pc = "away"
    BY Constants DEF Away, Pc, AtStates
  <2>2. at \in [Actor -> AtStates] /\ \A x \in Actor : at[x].pc = "away"
    BY <2>1 DEF LogInit
  <2>3. content \in Seq(FileStates) /\ Len(content) = 1
    <3> DEFINE first == [lines |-> <<>>, day |-> 0]
    <3>1. first \in FileStates /\ content = <<first>>
      BY Constants DEF FileStates, LogInit
    <3> HIDE DEF first
    <3> QED
      BY <3>1
  <2>4. dated \in [Day -> Nat] /\ file \in [of : Nat \ {0}, open : BOOLEAN] /\ rec \in Seq(Nat)
        /\ file.of = 1
    BY DEF LogInit
  <2>5. current \in {0, Len(content)}
    BY <2>3 DEF LogInit
  <2>6. daily \in BOOLEAN /\ logged \in Nat
        /\ today \in Day /\ writable \in BOOLEAN /\ met \in BOOLEAN
        /\ errors \in 0 .. TryReOpen - 1 /\ lostInRow \in Nat /\ idleChecks \in Nat /\ lastCheck \in Nat
    BY <1>0, Constants DEF LogInit
  <2> QED
    BY <2>2, <2>3, <2>4, <2>5, <2>6 DEF LogTypes
<1>2. /\ Len(content) = 1 /\ DOMAIN content = {1} /\ content[1].lines = <<>> /\ content[1].day = 0
      /\ current = 1 /\ file.of = 1 /\ rec = <<>> /\ today = 0
      /\ \A x \in Actor : at[x].pc = "away"
      /\ \A d \in Day : dated[d] = 0
  BY DEF LogInit, Away
<1>3. InOrder /\ ChecksCounted
  BY <1>2 DEF LogInit, InOrder, ChecksCounted, Actor
<1>4. Apart /\ Reopens /\ Kept /\ Sorted
  BY <1>2 DEF LogInit, Apart, Reopens, Kept, Sorted, Actor, Rotating
<1> QED
  BY <1>1, <1>3, <1>4 DEF FileInv

-----------------------------------------------------------------------------
(* Types.                                                                  *)

LEMMA GotoTypes ==
  ASSUME LogTypes, NEW x \in Actor, NEW pc \in Pc \ {"assign"}, Goto(x, pc)
  PROVE  /\ at' \in [Actor -> AtStates]
         /\ at'[x].pc = pc /\ at'[x].now = at[x].now /\ at'[x].day = at[x].day /\ at'[x].fd = at[x].fd
         /\ \A y \in Actor \ {x} : at'[y] = at[y]
         /\ \A y \in Actor : at'[y].pc = "assign" => at'[y].fd \in 1 .. Len(content)
BY DEF LogTypes, Goto, AtStates

LEMMA EnterTypes ==
  ASSUME LogTypes, NEW x \in Actor, NEW now \in BOOLEAN, Enter(x, now)
  PROVE  /\ file' \in [of : Nat \ {0}, open : BOOLEAN] /\ file'.of = file.of /\ ~file'.open
         /\ met' \in BOOLEAN
         /\ at' \in [Actor -> AtStates] /\ at'[x].pc = "stat" /\ at'[x].now = now
         /\ \A y \in Actor \ {x} : at'[y] = at[y]
         /\ \A y \in Actor : at'[y].pc = "assign" => at'[y].fd \in 1 .. Len(content)
         /\ ~met' => ~met /\ \A y \in Actor \ {x} : ~Rotating(y) /\ at[y].pc # "write"
<1>1. [Away EXCEPT !.pc = "stat", !.now = now] \in AtStates
  BY Constants DEF Away, AtStates, Pc
<1>2. [Away EXCEPT !.pc = "stat", !.now = now].pc = "stat" /\ [Away EXCEPT !.pc = "stat", !.now = now].now = now
  BY DEF Away
<1> QED
  BY <1>1, <1>2 DEF LogTypes, Enter, AtStates, Rotating

-----------------------------------------------------------------------------
(* Whoever logs, the days, the disk.                                       *)

LEMMA LogWriteStep == FileInv /\ LogWrite => FileInv'
<1> SUFFICES ASSUME FileInv, LogWrite PROVE FileInv'
  OBVIOUS
<1>1. /\ logged' = logged + 1 /\ rec' = Append(rec, logged + 1)
      /\ UNCHANGED <<daily, content, current, dated, file, errors, at, lastCheck, today, writable,
                     lostInRow, idleChecks, cleaned, met>>
  BY DEF LogWrite, disk, writerFields, stats, checks, world, history
<1>2. /\ logged \in Nat /\ rec \in Seq(Nat) /\ rec' \in Seq(Nat) /\ Len(rec') = Len(rec) + 1
      /\ rec'[Len(rec) + 1] = logged + 1 /\ \A k \in 1 .. Len(rec) : rec'[k] = rec[k]
  BY <1>1 DEF FileInv, LogTypes
<1>3. LogTypes'
  BY <1>1, <1>2 DEF FileInv, LogTypes
<1>4. logged' - Len(rec') = logged - Len(rec) /\ rec' # <<>>
  BY <1>1, <1>2
<1>5. \A k \in 1 .. Len(rec') : rec'[k] = logged' - Len(rec') + k
  BY <1>1, <1>2, <1>4 DEF FileInv, InOrder
<1>6. InOrder'
  BY <1>1, <1>4, <1>5 DEF FileInv, InOrder
<1>7. ChecksCounted' /\ (~met => Apart' /\ Reopens' /\ Kept' /\ Sorted')
  BY <1>1 DEF FileInv, ChecksCounted, Apart, Reopens, Kept, Sorted, Rotating, Linked
<1> QED
  BY <1>1, <1>3, <1>6, <1>7 DEF FileInv

LEMMA WorldStep == FileInv /\ (Close \/ DiskFails \/ DiskWorks) => FileInv'
<1> SUFFICES ASSUME FileInv, Close \/ DiskFails \/ DiskWorks PROVE FileInv'
  OBVIOUS
<1>1. /\ UNCHANGED <<daily, logged, rec, content, current, dated, file, errors, at, lastCheck, today,
                     cleaned, met>>
      /\ writable' \in BOOLEAN
      /\ \/ writable' /\ UNCHANGED <<lostInRow, idleChecks>>
         \/ lostInRow' = 0 /\ idleChecks' = 0
         \/ UNCHANGED <<writable, lostInRow, idleChecks>>
  BY DEF FileInv, LogTypes, Close, DiskFails, DiskWorks, disk, writerFields, stats, checks, world, history
<1>2. LogTypes' /\ InOrder' /\ ChecksCounted'
  BY <1>1 DEF FileInv, LogTypes, InOrder, ChecksCounted
<1>3. ~met => Apart' /\ Kept' /\ Sorted'
  BY <1>1 DEF FileInv, Apart, Kept, Sorted, Rotating, Linked
<1>4. ~met => Reopens'
  BY <1>1 DEF FileInv, LogTypes, Reopens, Rotating
<1> QED
  BY <1>1, <1>2, <1>3, <1>4 DEF FileInv

LEMMA MidnightStep == FileInv /\ Midnight => FileInv'
<1> SUFFICES ASSUME FileInv, Midnight PROVE FileInv'
  OBVIOUS
<1>1. /\ UNCHANGED <<daily, logged, rec, content, current, dated, file, errors, at, lastCheck, writable,
                     lostInRow, idleChecks, cleaned, met>>
      /\ today' = today + 1 /\ today < MaxDays
  BY DEF Midnight, disk, writerFields, stats, checks, world, history
<1>2. LogTypes' /\ InOrder' /\ ChecksCounted'
  BY <1>1, Constants DEF FileInv, LogTypes, InOrder, ChecksCounted, Day
<1>3. ~met => Reopens' /\ Kept' /\ Sorted'
  BY <1>1 DEF FileInv, Reopens, Kept, Sorted, Rotating, Linked
<1>4. ASSUME ~met PROVE Apart'
  BY <1>1, <1>4, PartTypes DEF FileInv, Apart, Rotating
<1> QED
  BY <1>1, <1>2, <1>3, <1>4 DEF FileInv

\* The cleaner takes away what it lists among the cleaned.
LEMMA CleanStep == FileInv /\ Clean => FileInv'
<1> SUFFICES ASSUME FileInv, Clean PROVE FileInv'
  OBVIOUS
<1>1. PICK S : /\ current' = IF current \in S THEN 0 ELSE current
               /\ dated' = [d \in Day |-> IF dated[d] \in S THEN 0 ELSE dated[d]]
               /\ cleaned' = cleaned \union S
  BY DEF Clean
<1>2. UNCHANGED <<daily, logged, rec, content, file, errors, at, lastCheck, today, writable,
                  lostInRow, idleChecks, met>>
  BY DEF Clean, writerFields, stats, checks
<1>3. LogTypes'
  BY <1>1, <1>2 DEF FileInv, LogTypes
<1>4. InOrder' /\ ChecksCounted'
  BY <1>2 DEF FileInv, InOrder, ChecksCounted
<1>5. ~met => Reopens' /\ Sorted'
  BY <1>2 DEF FileInv, Reopens, Sorted, Rotating
<1>6. ~met => Kept'
  <2>1. \A i \in Linked : i \in Linked' \union cleaned'
    BY <1>1 DEF Linked
  <2> QED
    BY <1>1, <1>2, <2>1 DEF FileInv, Kept
<1>7. ~met => Apart'
  BY <1>1, <1>2 DEF FileInv, LogTypes, Apart, Rotating
<1> QED
  BY <1>2, <1>3, <1>4, <1>5, <1>6, <1>7 DEF FileInv

-----------------------------------------------------------------------------
(* intRotate.                                                              *)

\* The same for the step that has opened a file.
LEMMA OpenedTypes ==
  ASSUME LogTypes, NEW x \in Actor, NEW i \in Nat \ {0},
         at' = [at EXCEPT ![x].pc = "assign", ![x].fd = i]
  PROVE  /\ at' \in [Actor -> AtStates] /\ at'[x].pc = "assign" /\ at'[x].fd = i
         /\ \A y \in Actor \ {x} : at'[y] = at[y]
<1>1. at \in [Actor -> AtStates]
  BY DEF LogTypes
<1>2. at' = [at EXCEPT ![x] = [at[x] EXCEPT !.pc = "assign", !.fd = i]]
  BY <1>1
<1>3. /\ [at[x] EXCEPT !.pc = "assign", !.fd = i] \in AtStates
      /\ [at[x] EXCEPT !.pc = "assign", !.fd = i].pc = "assign"
      /\ [at[x] EXCEPT !.pc = "assign", !.fd = i].fd = i
  BY <1>1 DEF AtStates, Pc
<1> QED
  BY <1>1, <1>2, <1>3

\* What has been written came before the record at hand.
LEMMA LinesBefore ==
  ASSUME LogTypes, InOrder
  PROVE  /\ Len(rec) \in Nat /\ logged \in Nat
         /\ \A i \in DOMAIN content : \A k \in DOMAIN content[i].lines :
              /\ content[i].lines[k] \in Nat
              /\ content[i].lines[k] <= logged - Len(rec) + 1
              /\ at["writer"].pc # "note" => content[i].lines[k] <= logged - Len(rec)
<1>1. Len(rec) \in Nat /\ logged \in Nat
  BY DEF LogTypes
<1>2. ASSUME NEW i \in DOMAIN content, NEW k \in DOMAIN content[i].lines
      PROVE  content[i].lines[k] \in Nat
  <2>1. content[i].lines \in Seq(Nat)
    BY PartTypes
  <2> QED
    BY <2>1
<1> QED
  BY <1>1, <1>2 DEF InOrder

\* Where intRotate returns to.
LEMMA BackPc ==
  ASSUME NEW x \in Actor
  PROVE  /\ Back(x) \in Pc \ {"stat", "rename", "open", "assign"}
         /\ x = "check" => Back(x) = "away"
         /\ x = "writer" => Back(x) \notin {"away", "ended"}
         /\ Back("writer") \in {"write", "note"}
BY DEF Back, Pc, Actor

\* A step of intRotate that touches neither the files nor the writer's, and stays within.
LEMMA StatStep == ASSUME FileInv, NEW x \in Actor, Stat(x) PROVE FileInv'
<1>0. LogTypes
  BY DEF FileInv
<1>1. /\ at[x].pc = "stat"
      /\ UNCHANGED <<daily, logged, rec, content, current, dated, file, errors, lastCheck, today, writable,
                     lostInRow, idleChecks, cleaned, met>>
  BY DEF Stat, disk, stats, checks, world, history
<1>2. \E pc \in {"rename", "open"} :
        /\ at' = [at EXCEPT ![x].pc = pc] \/ (current # 0 /\ at' = [at EXCEPT ![x].pc = pc, ![x].day = content[current].day])
        /\ pc = "rename" => /\ current # 0 => today # content[current].day
                           /\ current # 0 /\ at' = [at EXCEPT ![x].pc = pc, ![x].day = content[current].day]
  BY DEF Stat, Goto
<1>3. PICK pc \in {"rename", "open"} :
        /\ at' = [at EXCEPT ![x].pc = pc] \/ (current # 0 /\ at' = [at EXCEPT ![x].pc = pc, ![x].day = content[current].day])
        /\ pc = "rename" => /\ current # 0 => today # content[current].day
                           /\ current # 0 /\ at' = [at EXCEPT ![x].pc = pc, ![x].day = content[current].day]
  BY <1>2
<1>4. current # 0 => content[current].day \in Day
  BY <1>0, PartTypes
<1>5. /\ at' \in [Actor -> AtStates] /\ at'[x].pc = pc
      /\ \A y \in Actor \ {x} : at'[y] = at[y]
      /\ pc = "rename" => current # 0 /\ at'[x].day = content[current].day /\ today # content[current].day
  <2>1. at \in [Actor -> AtStates] /\ pc \in Pc
    BY <1>0 DEF LogTypes, Pc
  <2>2. CASE at' = [at EXCEPT ![x].pc = pc]
    <3>1. [at[x] EXCEPT !.pc = pc] \in AtStates /\ [at[x] EXCEPT !.pc = pc].pc = pc
      BY <2>1 DEF AtStates
    <3>2. at' \in [Actor -> AtStates] /\ at'[x].pc = pc /\ \A y \in Actor \ {x} : at'[y] = at[y]
      BY <2>1, <2>2, <3>1
    <3>3. pc = "rename" => current # 0 /\ at'[x].day = content[current].day /\ today # content[current].day
      <4> SUFFICES ASSUME pc = "rename"
                   PROVE  current # 0 /\ at'[x].day = content[current].day /\ today # content[current].day
        OBVIOUS
      <4>1. /\ current # 0 /\ today # content[current].day
            /\ at' = [at EXCEPT ![x].pc = pc, ![x].day = content[current].day]
        BY <1>3
      <4> QED
        BY <2>1, <4>1 DEF AtStates
    <3> QED
      BY <3>2, <3>3
  <2>3. CASE current # 0 /\ at' = [at EXCEPT ![x].pc = pc, ![x].day = content[current].day]
    <3> DEFINE d == content[current].day
    <3>1. d \in Day
      BY <1>4, <2>3
    <3>2. at' = [at EXCEPT ![x] = [at[x] EXCEPT !.pc = pc, !.day = d]]
      BY <2>1, <2>3
    <3> HIDE DEF d
    <3>3. [at[x] EXCEPT !.pc = pc, !.day = d] \in AtStates
      BY <2>1, <3>1 DEF AtStates
    <3>4. [at[x] EXCEPT !.pc = pc, !.day = d].pc = pc /\ [at[x] EXCEPT !.pc = pc, !.day = d].day = d
      BY <2>1 DEF AtStates
    <3> QED
      BY <1>3, <2>1, <2>3, <3>2, <3>3, <3>4 DEF d
  <2> QED
    BY <1>3, <2>2, <2>3
<1>6. LogTypes'
  BY <1>0, <1>1, <1>5 DEF LogTypes, AtStates
<1>7. InOrder' /\ ChecksCounted'
  BY <1>1, <1>5 DEF FileInv, InOrder, ChecksCounted, Actor
<1>8. \A y \in Actor : Rotating(y)' <=> Rotating(y)
  BY <1>1, <1>5 DEF Rotating
<1>9. ~met => Apart'
  <2> SUFFICES ASSUME Apart PROVE Apart'
    BY DEF FileInv
  <2>1. pc = "rename" => at'[x].day < today
    BY <1>0, <1>4, <1>5, PartTypes DEF Apart
  <2> QED
    BY <1>1, <1>5, <1>8, <2>1 DEF Apart, Actor
<1>10. ~met => Reopens' /\ Kept' /\ Sorted'
  BY <1>1, <1>5, <1>8 DEF FileInv, Reopens, Kept, Sorted, Linked, Actor
<1> QED
  BY <1>1, <1>6, <1>7, <1>9, <1>10 DEF FileInv

LEMMA RenameStep == ASSUME FileInv, NEW x \in Actor, Rename(x) PROVE FileInv'
<1>0. LogTypes
  BY DEF FileInv
<1>1. /\ at[x].pc = "rename" /\ file' = [file EXCEPT !.open = FALSE] /\ Goto(x, "open")
      /\ IF current = 0 THEN UNCHANGED <<current, dated>>
         ELSE dated' = [dated EXCEPT ![at[x].day] = current] /\ current' = 0
      /\ UNCHANGED <<daily, logged, rec, content, errors, lastCheck, today, writable,
                     lostInRow, idleChecks, cleaned, met>>
  BY DEF Rename, stats, checks, world, history
<1>2. file' \in [of : Nat \ {0}, open : BOOLEAN] /\ file'.of = file.of /\ ~file'.open
  BY <1>0, <1>1 DEF LogTypes
<1>3. /\ at' \in [Actor -> AtStates] /\ at'[x].pc = "open" /\ \A y \in Actor \ {x} : at'[y] = at[y]
      /\ \A y \in Actor : at'[y].pc = "assign" => at'[y].fd \in 1 .. Len(content)
  BY <1>0, <1>1, GotoTypes DEF Pc
<1>4. current' \in {0, Len(content)} /\ dated' \in [Day -> Nat]
  BY <1>0, <1>1 DEF LogTypes
<1>5. LogTypes'
  BY <1>0, <1>1, <1>2, <1>3, <1>4 DEF LogTypes, AtStates
<1>6. InOrder' /\ ChecksCounted'
  BY <1>1, <1>3 DEF FileInv, InOrder, ChecksCounted, Actor
<1>7. \A y \in Actor : Rotating(y)' <=> Rotating(y)
  BY <1>1, <1>3 DEF Rotating
<1>8. ASSUME ~met PROVE Apart' /\ Kept'
  <2>1. Apart /\ Kept
    BY <1>8 DEF FileInv
  <2>2. at[x].day \in Day
    BY <1>0, PartTypes
  <2>3. current # 0 => dated[at[x].day] = 0
    BY <1>0, <1>1, <2>1, <2>2, PartTypes DEF Apart
  <2>4. Linked \subseteq Linked'
    BY <1>0, <1>1, <2>2, <2>3 DEF Linked, LogTypes
  <2>5. Kept'
    BY <1>1, <2>1, <2>4 DEF Kept
  <2>6. \A y \in Actor \ {x} : at[y].pc \notin {"rename", "assign"}
    BY <1>1, <2>1 DEF Apart, Rotating, Actor
  <2>7. \A d \in Day : dated'[d] # 0 => d < today
    BY <1>0, <1>1, <2>1, <2>2 DEF Apart, LogTypes
  <2>8. current' = 0
    BY <1>1
  <2>9. Apart'
    <3>1. \A y \in Actor : at[y].pc # "assign" /\ at'[y].pc \notin {"rename", "assign"}
      BY <1>1, <1>3, <2>6
    <3>2. file'.of = Len(content')
      BY <1>1, <1>2, <2>1, <3>1 DEF Apart
    <3>3. ~(Rotating("writer")' /\ Rotating("check")')
      BY <1>7, <2>1 DEF Apart, Actor
    <3> QED
      BY <1>1, <1>2, <2>1, <2>7, <2>8, <3>1, <3>2, <3>3 DEF Apart
  <2> QED
    BY <2>5, <2>9
<1>9. ~met => Reopens' /\ Sorted'
  BY <1>1, <1>3, <1>7 DEF FileInv, Reopens, Sorted, Rotating, Actor
<1> QED
  BY <1>1, <1>5, <1>6, <1>8, <1>9 DEF FileInv

LEMMA OpenFileStep == ASSUME FileInv, NEW x \in Actor, OpenFile(x) PROVE FileInv'
<1>0. LogTypes
  BY DEF FileInv
<1>1. /\ at[x].pc = "open"
      /\ UNCHANGED <<daily, logged, rec, dated, file, errors, lastCheck, today, writable,
                     lostInRow, idleChecks, cleaned, met>>
  BY DEF OpenFile, writerFields, stats, checks, world, history
<1>2. CASE ~writable /\ Goto(x, Back(x)) /\ UNCHANGED <<content, current>>
  <2>1. Back(x) \in Pc \ {"stat", "rename", "open", "assign"}
    BY BackPc
  <2>2. /\ at' \in [Actor -> AtStates] /\ at'[x].pc = Back(x) /\ \A y \in Actor \ {x} : at'[y] = at[y]
        /\ \A y \in Actor : at'[y].pc = "assign" => at'[y].fd \in 1 .. Len(content)
    BY <1>0, <1>2, <2>1, GotoTypes
  <2>3. LogTypes'
    BY <1>0, <1>1, <1>2, <2>2 DEF LogTypes
  <2>4. lostInRow = 0 /\ idleChecks = 0
    BY <1>2 DEF FileInv, ChecksCounted
  <2>5. InOrder'
    BY <1>0, <1>1, <1>2, <2>1, <2>2, BackPc, LinesBefore DEF FileInv, InOrder, Actor
  <2>6. ChecksCounted'
    BY <1>1, <1>2, <2>4 DEF ChecksCounted
  <2>7. \A y \in Actor : Rotating(y)' => Rotating(y)
    BY <1>1, <2>2 DEF Rotating
  <2>8. \A y \in Actor : at'[y].pc \in {"assign", "rename"} => at'[y] = at[y]
    BY <2>1, <2>2
  <2>9. ~met => Apart'
    BY <1>1, <1>2, <2>2, <2>7, <2>8 DEF FileInv, Apart, Actor
  <2>10. ~met => Reopens' /\ Kept' /\ Sorted'
    BY <1>0, <1>1, <1>2, <2>4 DEF FileInv, LogTypes, Reopens, Kept, Sorted, Linked
  <2> QED
    BY <1>1, <2>3, <2>5, <2>6, <2>9, <2>10 DEF FileInv
<1>3. CASE /\ writable /\ current # 0
           /\ at' = [at EXCEPT ![x].pc = "assign", ![x].fd = current] /\ UNCHANGED <<content, current>>
  <2>1. current = Len(content) /\ current \in Nat \ {0}
    BY <1>0, <1>3, PartTypes DEF LogTypes
  <2>2. /\ at' \in [Actor -> AtStates] /\ at'[x].pc = "assign" /\ at'[x].fd = current
        /\ \A y \in Actor \ {x} : at'[y] = at[y]
    BY <1>0, <1>3, <2>1, OpenedTypes
  <2>3. LogTypes'
    BY <1>0, <1>1, <1>3, <2>1, <2>2 DEF LogTypes
  <2>4. InOrder' /\ ChecksCounted'
    BY <1>1, <1>3, <2>2 DEF FileInv, InOrder, ChecksCounted, Actor
  <2>5. \A y \in Actor : Rotating(y)' <=> Rotating(y)
    BY <1>1, <2>2 DEF Rotating
  <2>6. ~met => Apart'
    BY <1>1, <1>3, <2>1, <2>2, <2>5 DEF FileInv, Apart, Actor
  <2>7. ~met => Reopens' /\ Kept' /\ Sorted'
    BY <1>1, <1>3, <2>2, <2>5 DEF FileInv, Reopens, Kept, Sorted, Linked, Actor
  <2> QED
    BY <1>1, <2>3, <2>4, <2>6, <2>7 DEF FileInv
<1>4. CASE /\ writable /\ current = 0
           /\ content' = Append(content, [lines |-> <<>>, day |-> today])
           /\ current' = Len(content) + 1
           /\ at' = [at EXCEPT ![x].pc = "assign", ![x].fd = Len(content) + 1]
  <2> DEFINE n == Len(content)
             new == [lines |-> <<>>, day |-> today]
  <2>1. n \in Nat \ {0} /\ DOMAIN content = 1 .. n /\ new \in FileStates /\ new.lines = <<>> /\ new.day = today
    BY <1>0, PartTypes DEF LogTypes, FileStates
  <2> HIDE DEF new
  <2>2. /\ content' \in Seq(FileStates) /\ Len(content') = n + 1 /\ DOMAIN content' = 1 .. n + 1
        /\ content'[n + 1] = new /\ \A i \in 1 .. n : content'[i] = content[i]
    BY <1>0, <1>4, <2>1 DEF LogTypes, new
  <2> HIDE DEF n
  <2>3. /\ at' \in [Actor -> AtStates] /\ at'[x].pc = "assign" /\ at'[x].fd = n + 1
        /\ \A y \in Actor \ {x} : at'[y] = at[y]
    <3>1. n + 1 \in Nat \ {0}
      BY <2>1
    <3>2. at' = [at EXCEPT ![x].pc = "assign", ![x].fd = n + 1]
      BY <1>4 DEF n
    <3> QED
      BY <1>0, <3>1, <3>2, OpenedTypes
  <2>4. current' = n + 1
    BY <1>4 DEF n
  <2>5. LogTypes'
    <3>1. current' \in {0, Len(content')} /\ Len(content') >= 1
      BY <2>1, <2>2, <2>4
    <3>2. \A y \in Actor : at'[y].pc = "assign" => at'[y].fd \in 1 .. Len(content')
      <4>1. n + 1 \in 1 .. Len(content') /\ \A i \in 1 .. n : i \in 1 .. Len(content')
        BY <2>1, <2>2
      <4>2. \A y \in Actor : at[y].pc = "assign" => at[y].fd \in 1 .. n
        BY <1>0 DEF LogTypes, n
      <4> QED
        BY <2>3, <4>1, <4>2
    <3>3. file'.of \in 1 .. Len(content')
      <4>1. file.of \in 1 .. n
        BY <1>0 DEF LogTypes, n
      <4> QED
        BY <1>1, <2>1, <2>2, <4>1
    <3> QED
      BY <1>0, <1>1, <2>2, <2>3, <3>1, <3>2, <3>3 DEF LogTypes
  <2>6. InOrder'
    <3>1. \A i \in DOMAIN content' : content'[i].lines = <<>> \/ (i \in DOMAIN content /\ content'[i] = content[i])
      BY <2>1, <2>2
    <3>2. (at'["writer"].pc = "note") <=> (at["writer"].pc = "note")
      BY <1>1, <2>3 DEF Actor
    <3> QED
      BY <1>1, <2>3, <3>1, <3>2 DEF FileInv, InOrder, Actor
  <2>7. ChecksCounted'
    BY <1>1, <2>3 DEF FileInv, ChecksCounted, Actor
  <2>8. \A y \in Actor : Rotating(y)' <=> Rotating(y)
    BY <1>1, <2>3 DEF Rotating
  <2>9. ASSUME ~met PROVE Apart'
    <3>1. Apart
      BY <2>9 DEF FileInv
    <3>2. \A y \in Actor \ {x} : at'[y].pc \notin {"rename", "assign"}
      BY <1>1, <2>3, <3>1 DEF Apart, Rotating, Actor
    <3>3. file.open => file.of \in cleaned
      BY <1>0, <1>4, <3>1 DEF Apart, LogTypes
    <3>4. \A d \in Day : dated'[d] # 0 => d < today' /\ content'[current'].day > d
      <4>1. \A d \in Day : dated[d] # 0 => d < today /\ today > d
        BY <1>0, <3>1, PartTypes DEF Apart
      <4> QED
        BY <1>1, <2>1, <2>2, <2>4, <4>1
    <3>5. \A i \in DOMAIN content' : content'[i].day <= today'
      BY <1>0, <1>1, <2>1, <2>2, <3>1, PartTypes DEF Apart
    <3>6. ~(Rotating("writer")' /\ Rotating("check")')
      BY <2>8, <3>1 DEF Apart, Actor
    <3> QED
      BY <1>1, <2>2, <2>3, <2>4, <3>2, <3>3, <3>4, <3>5, <3>6 DEF Apart
  <2>10. ASSUME ~met PROVE Kept' /\ Reopens'
    <3>1. Linked \subseteq Linked'
      BY <1>1, <1>4 DEF Linked
    <3>2. Kept'
      BY <1>1, <2>1, <2>2, <2>10, <3>1 DEF FileInv, Kept
    <3>3. Reopens'
      BY <1>1, <2>3, <2>8, <2>10 DEF FileInv, Reopens, Actor
    <3> QED
      BY <3>2, <3>3
  <2>11. ASSUME ~met PROVE Sorted'
    <3>1. \A i \in DOMAIN content' : content'[i].lines = <<>> \/ (i \in DOMAIN content /\ content'[i] = content[i])
      BY <2>1, <2>2
    <3>2. DOMAIN (<<>>) = {}
      OBVIOUS
    <3>3. Sorted
      BY <2>11 DEF FileInv
    <3> QED
      BY <3>1, <3>2, <3>3, Zenon DEF Sorted
  <2> QED
    BY <1>1, <2>5, <2>6, <2>7, <2>9, <2>10, <2>11 DEF FileInv
<1> QED
  BY <1>2, <1>3, <1>4 DEF OpenFile

LEMMA AssignStep == ASSUME FileInv, NEW x \in Actor, Assign(x) PROVE FileInv'
<1>0. LogTypes
  BY DEF FileInv
<1>1. /\ at[x].pc = "assign" /\ file' = [of |-> at[x].fd, open |-> TRUE] /\ Goto(x, Back(x))
      /\ idleChecks' = 0
      /\ UNCHANGED <<daily, logged, rec, content, current, dated, errors, lastCheck, today, writable,
                     lostInRow, cleaned, met>>
  BY DEF Assign, disk, stats, checks, world
<1>2. Back(x) \in Pc \ {"stat", "rename", "open", "assign"}
  BY BackPc
<1>3. /\ at' \in [Actor -> AtStates] /\ at'[x].pc = Back(x) /\ \A y \in Actor \ {x} : at'[y] = at[y]
      /\ \A y \in Actor : at'[y].pc = "assign" => at'[y].fd \in 1 .. Len(content)
  BY <1>0, <1>1, <1>2, GotoTypes
<1>4. at[x].fd \in 1 .. Len(content) /\ at[x].fd \in Nat \ {0}
  BY <1>0, <1>1, PartTypes DEF LogTypes
<1>5. file' \in [of : Nat \ {0}, open : BOOLEAN] /\ file'.of = at[x].fd /\ file'.open
  BY <1>1, <1>4
<1>6. LogTypes'
  BY <1>0, <1>1, <1>3, <1>4, <1>5 DEF LogTypes
<1>7. InOrder'
  BY <1>0, <1>1, <1>2, <1>3, BackPc, LinesBefore DEF FileInv, InOrder, Actor
<1>8. ChecksCounted'
  BY <1>1 DEF FileInv, ChecksCounted
<1>9. \A y \in Actor : Rotating(y)' => Rotating(y)
  BY <1>1, <1>3 DEF Rotating
<1>10. ASSUME ~met PROVE Apart'
  <2>1. Apart
    BY <1>10 DEF FileInv
  <2>2. \A y \in Actor : at'[y].pc \notin {"rename", "assign"}
    BY <1>1, <1>2, <1>3, <2>1 DEF Apart, Rotating, Actor
  <2>3. at[x].fd = Len(content) /\ (at[x].fd = current \/ at[x].fd \in cleaned)
    BY <1>1, <2>1 DEF Apart
  <2>4. ~(Rotating("writer")' /\ Rotating("check")')
    BY <1>9, <2>1 DEF Apart, Actor
  <2> QED
    BY <1>1, <1>5, <2>1, <2>2, <2>3, <2>4 DEF Apart
<1>11. ~met => Reopens' /\ Kept' /\ Sorted'
  BY <1>1, <1>5 DEF FileInv, Reopens, Kept, Sorted, Linked
<1> QED
  BY <1>1, <1>6, <1>7, <1>8, <1>10, <1>11 DEF FileInv

-----------------------------------------------------------------------------
(* The writer's goroutine and the check.                                   *)

\* Whoever begins to rotate is the only one to, or the two have met.
LEMMA EnterApart ==
  ASSUME LogTypes, Apart, NEW x \in Actor, ~Rotating(x), NEW now \in BOOLEAN, Enter(x, now), ~met',
         UNCHANGED <<content, current, dated, today, cleaned>>
  PROVE  Apart' /\ Rotating(x)'
<1>1. /\ file'.of = file.of /\ ~file'.open
      /\ at'[x].pc = "stat"
      /\ \A y \in Actor \ {x} : at'[y] = at[y] /\ ~Rotating(y) /\ at[y].pc # "write"
  BY EnterTypes
<1>2. \A y \in Actor : at[y].pc \notin {"assign", "rename"} /\ at'[y].pc \notin {"assign", "rename"}
  BY <1>1 DEF Rotating
<1>3. ~(Rotating("writer")' /\ Rotating("check")') /\ Rotating(x)'
  BY <1>1 DEF Rotating, Actor
<1> QED
  BY <1>1, <1>2, <1>3 DEF Apart

\* Or it takes no part in a rotation, and does not touch the file.
LEMMA GotoApart ==
  ASSUME Apart, NEW x \in Actor, ~Rotating(x),
         at'[x].pc \in {"away", "write", "note", "ended"}, \A y \in Actor \ {x} : at'[y] = at[y],
         file' = file \/ (file'.of = file.of /\ ~file'.open),
         UNCHANGED <<content, current, dated, today, cleaned>>
  PROVE  Apart' /\ \A y \in Actor : Rotating(y)' <=> Rotating(y)
<1>1. \A y \in Actor : Rotating(y)' <=> Rotating(y)
  BY DEF Rotating
<1>2. /\ at[x].pc \notin {"assign", "rename"} /\ at'[x].pc \notin {"assign", "rename"}
  BY DEF Rotating
<1>3. \A y \in Actor : at'[y].pc \in {"assign", "rename"} => at'[y] = at[y]
  BY <1>2
<1>4. (\A y \in Actor : at'[y].pc # "assign") => \A y \in Actor : at[y].pc # "assign"
  BY <1>2
<1>5. ~(Rotating("writer")' /\ Rotating("check")')
  BY <1>1 DEF Apart, Actor
<1> QED
  BY <1>1, <1>3, <1>4, <1>5 DEF Apart

LEMMA TakeStep == FileInv /\ Take => FileInv'
<1> SUFFICES ASSUME FileInv, Take PROVE FileInv'
  OBVIOUS
<1>0. LogTypes /\ "writer" \in Actor /\ InOrder
  BY DEF FileInv, Actor
<1>1. /\ at["writer"].pc = "away" /\ rec # <<>> /\ ~Rotating("writer")
      /\ UNCHANGED <<daily, logged, rec, content, current, dated, errors, lastCheck, today, writable,
                     lostInRow, idleChecks, cleaned>>
      /\ Enter("writer", TRUE) \/ (Goto("writer", "write") /\ UNCHANGED <<file, met>>)
  BY DEF Take, disk, stats, checks, world, Rotating
<1>2. CASE Enter("writer", TRUE)
  <2>1. /\ file' \in [of : Nat \ {0}, open : BOOLEAN] /\ file'.of = file.of /\ ~file'.open
        /\ met' \in BOOLEAN
        /\ at' \in [Actor -> AtStates] /\ at'["writer"].pc = "stat"
        /\ \A y \in Actor \ {"writer"} : at'[y] = at[y]
        /\ \A y \in Actor : at'[y].pc = "assign" => at'[y].fd \in 1 .. Len(content)
        /\ ~met' => ~met
    BY <1>0, <1>2, EnterTypes
  <2>2. LogTypes'
    BY <1>0, <1>1, <2>1 DEF LogTypes
  <2>3. InOrder'
    BY <1>0, <1>1, <2>1 DEF InOrder, Actor
  <2>4. ChecksCounted'
    BY <1>1, <2>1 DEF FileInv, ChecksCounted, Actor
  <2>5. ~met' => Apart' /\ Rotating("writer")'
    BY <1>0, <1>1, <1>2, <2>1, EnterApart DEF FileInv
  <2>6. ~met' => Reopens' /\ Kept' /\ Sorted'
    BY <1>0, <1>1, <2>1, <2>5, Constants DEF FileInv, LogTypes, Reopens, Kept, Sorted, Linked
  <2> QED
    BY <2>1, <2>2, <2>3, <2>4, <2>5, <2>6 DEF FileInv
<1>3. CASE Goto("writer", "write") /\ UNCHANGED <<file, met>>
  <2>1. /\ at' \in [Actor -> AtStates] /\ at'["writer"].pc = "write"
        /\ \A y \in Actor \ {"writer"} : at'[y] = at[y]
        /\ \A y \in Actor : at'[y].pc = "assign" => at'[y].fd \in 1 .. Len(content)
    BY <1>0, <1>3, GotoTypes DEF Pc
  <2>2. LogTypes'
    BY <1>0, <1>1, <1>3, <2>1 DEF LogTypes
  <2>3. InOrder'
    BY <1>0, <1>1, <2>1 DEF InOrder, Actor
  <2>4. ChecksCounted'
    BY <1>1, <2>1 DEF FileInv, ChecksCounted, Actor
  <2>5. ~met => Apart' /\ \A y \in Actor : Rotating(y)' <=> Rotating(y)
    BY <1>0, <1>1, <1>3, <2>1, GotoApart DEF FileInv
  <2>6. ~met => Reopens' /\ Kept' /\ Sorted'
    BY <1>1, <1>3, <2>1, <2>5 DEF FileInv, Reopens, Kept, Sorted, Linked, Actor
  <2> QED
    BY <1>3, <2>2, <2>3, <2>4, <2>5, <2>6 DEF FileInv
<1> QED
  BY <1>1, <1>2, <1>3

LEMMA FinishStep == FileInv /\ Finish => FileInv'
<1> SUFFICES ASSUME FileInv, Finish PROVE FileInv'
  OBVIOUS
<1>0. LogTypes /\ "writer" \in Actor /\ InOrder
  BY DEF FileInv, Actor
<1>1. /\ at["writer"].pc = "away" /\ rec = <<>> /\ ~Rotating("writer")
      /\ UNCHANGED <<daily, logged, rec, content, current, dated, errors, lastCheck, today, writable,
                     lostInRow, idleChecks, cleaned, met>>
      /\ Goto("writer", "ended") /\ file' = [file EXCEPT !.open = FALSE]
  BY DEF Finish, disk, stats, checks, world, history, Rotating
<1>2. file' \in [of : Nat \ {0}, open : BOOLEAN] /\ file'.of = file.of /\ ~file'.open
  BY <1>0, <1>1 DEF LogTypes
<1>3. /\ at' \in [Actor -> AtStates] /\ at'["writer"].pc = "ended"
      /\ \A y \in Actor \ {"writer"} : at'[y] = at[y]
      /\ \A y \in Actor : at'[y].pc = "assign" => at'[y].fd \in 1 .. Len(content)
  BY <1>0, <1>1, GotoTypes DEF Pc
<1>4. LogTypes'
  BY <1>0, <1>1, <1>2, <1>3 DEF LogTypes
<1>5. InOrder'
  BY <1>0, <1>1, <1>3 DEF InOrder, Actor
<1>6. ChecksCounted'
  BY <1>1, <1>3 DEF FileInv, ChecksCounted, Actor
<1>7. ~met => Apart'
  BY <1>0, <1>1, <1>2, <1>3, GotoApart DEF FileInv
<1>8. ~met => Reopens' /\ Kept' /\ Sorted'
  <2>1. lostInRow <= errors => lostInRow <= TryReOpen
    BY <1>0, Constants DEF LogTypes
  <2> QED
    BY <1>1, <1>3, <2>1 DEF FileInv, Reopens, Kept, Sorted, Linked
<1> QED
  BY <1>1, <1>4, <1>5, <1>6, <1>7, <1>8 DEF FileInv

LEMMA NoteStep == FileInv /\ Note => FileInv'
<1> SUFFICES ASSUME FileInv, Note PROVE FileInv'
  OBVIOUS
<1>0. LogTypes /\ "writer" \in Actor /\ InOrder
  BY DEF FileInv, Actor
<1>1. /\ at["writer"].pc = "note" /\ ~Rotating("writer") /\ rec # <<>>
      /\ rec' = Tail(rec) /\ at' = [at EXCEPT !["writer"] = Away]
      /\ UNCHANGED <<daily, logged, content, current, dated, file, errors, lastCheck, today, writable,
                     lostInRow, idleChecks, cleaned, met>>
  BY <1>0 DEF Note, disk, writerFields, checks, world, history, Rotating, InOrder
<1>2. Away \in AtStates /\ Away.pc = "away"
  BY Constants DEF Away, AtStates, Pc
<1>3. /\ at' \in [Actor -> AtStates] /\ at'["writer"].pc = "away"
      /\ \A y \in Actor \ {"writer"} : at'[y] = at[y]
  BY <1>0, <1>1, <1>2 DEF LogTypes
<1>4. /\ rec \in Seq(Nat) /\ rec' \in Seq(Nat) /\ Len(rec) \in Nat /\ Len(rec') = Len(rec) - 1
      /\ \A k \in 1 .. Len(rec') : rec'[k] = rec[k + 1] /\ k + 1 \in 1 .. Len(rec)
  BY <1>0, <1>1 DEF LogTypes
<1>5. LogTypes'
  BY <1>0, <1>1, <1>3, <1>4 DEF LogTypes
<1>6. InOrder'
  <2>1. \A k \in 1 .. Len(rec') : rec'[k] = logged' - Len(rec') + k
    BY <1>0, <1>1, <1>4, LinesBefore DEF InOrder
  <2>2. \A i \in DOMAIN content : \A k \in DOMAIN content[i].lines :
          content[i].lines[k] <= logged' - Len(rec') + 0
    BY <1>0, <1>1, <1>4, LinesBefore
  <2> QED
    BY <1>0, <1>1, <1>3, <2>1, <2>2 DEF InOrder, Actor
<1>7. ChecksCounted'
  BY <1>1, <1>3 DEF FileInv, ChecksCounted, Actor
<1>8. ~met => Apart' /\ \A y \in Actor : Rotating(y)' <=> Rotating(y)
  BY <1>0, <1>1, <1>3, GotoApart DEF FileInv
<1>9. ~met => Reopens' /\ Kept' /\ Sorted'
  BY <1>1, <1>3, <1>8 DEF FileInv, Reopens, Kept, Sorted, Linked, Actor
<1> QED
  BY <1>1, <1>5, <1>6, <1>7, <1>8, <1>9 DEF FileInv

LEMMA CheckStep == FileInv /\ CheckPersistStatus => FileInv'
<1> SUFFICES ASSUME FileInv, CheckPersistStatus PROVE FileInv'
  OBVIOUS
<1>0. LogTypes /\ "check" \in Actor /\ InOrder /\ logged \in Nat
  BY DEF FileInv, Actor, LogTypes
<1>1. /\ at["check"].pc = "away" /\ ~Rotating("check")
      /\ UNCHANGED <<daily, logged, rec, content, current, dated, errors, today, writable, lostInRow, cleaned>>
  BY DEF CheckPersistStatus, disk, stats, world, Rotating
<1>2. \/ lastCheck' = 0 /\ Enter("check", FALSE) /\ lastCheck # 0
      \/ /\ lastCheck' \in {lastCheck, logged + 1} /\ UNCHANGED <<file, at, met>>
         /\ lastCheck = 0 => lastCheck' = logged + 1
  BY DEF CheckPersistStatus, checks
<1>3. idleChecks' = IF current # 0 \/ ~writable THEN 0
                    ELSE IF lastWrite >= lastCheck THEN idleChecks + 1 ELSE idleChecks
  BY DEF CheckPersistStatus
<1>4. /\ current = 0 /\ lastCheck # 0 /\ lastWrite >= lastCheck => lastCheck' = 0
      /\ (lastCheck # 0 /\ lastCheck' # 0) => ~(current = 0 /\ lastWrite >= lastCheck)
  BY <1>0 DEF CheckPersistStatus, checks
<1>5. idleChecks' \in Nat /\ lastCheck' \in Nat
  <2>1. idleChecks \in Nat /\ lastCheck \in Nat
    BY <1>0 DEF LogTypes
  <2>2. idleChecks' \in Nat
    BY <1>3, <2>1
  <2>3. lastCheck' \in Nat
    <3>1. lastCheck' = 0 \/ lastCheck' \in {lastCheck, logged + 1}
      BY <1>2
    <3> QED
      BY <1>0, <2>1, <3>1
  <2> QED
    BY <2>2, <2>3
<1>6. CASE lastCheck' = 0 /\ Enter("check", FALSE) /\ lastCheck # 0
  <2>1. /\ file' \in [of : Nat \ {0}, open : BOOLEAN] /\ file'.of = file.of /\ ~file'.open
        /\ met' \in BOOLEAN
        /\ at' \in [Actor -> AtStates] /\ at'["check"].pc = "stat"
        /\ \A y \in Actor \ {"check"} : at'[y] = at[y]
        /\ \A y \in Actor : at'[y].pc = "assign" => at'[y].fd \in 1 .. Len(content)
        /\ ~met' => ~met
    BY <1>0, <1>6, EnterTypes
  <2>2. LogTypes'
    BY <1>0, <1>1, <1>5, <2>1 DEF LogTypes
  <2>3. InOrder'
    BY <1>0, <1>1, <2>1 DEF InOrder, Actor
  <2>4. ChecksCounted'
    BY <1>0, <1>1, <1>3, <1>6, <2>1 DEF FileInv, LogTypes, ChecksCounted
  <2>5. ~met' => Apart' /\ Rotating("check")'
    BY <1>0, <1>1, <1>6, <2>1, EnterApart DEF FileInv
  <2>6. ~met' => Reopens' /\ Kept' /\ Sorted'
    BY <1>0, <1>1, <2>1, <2>5, Constants DEF FileInv, LogTypes, Reopens, Kept, Sorted, Linked
  <2> QED
    BY <2>1, <2>2, <2>3, <2>4, <2>5, <2>6 DEF FileInv
<1>7. CASE /\ lastCheck' \in {lastCheck, logged + 1} /\ UNCHANGED <<file, at, met>>
           /\ lastCheck = 0 => lastCheck' = logged + 1
  <2>1. LogTypes' /\ InOrder'
    BY <1>0, <1>1, <1>5, <1>7 DEF LogTypes, InOrder
  <2>2. ChecksCounted'
    BY <1>0, <1>1, <1>3, <1>4, <1>7 DEF FileInv, LogTypes, ChecksCounted
  <2>3. ~met => Apart' /\ Reopens' /\ Kept' /\ Sorted'
    BY <1>1, <1>7 DEF FileInv, Apart, Reopens, Kept, Sorted, Linked, Rotating
  <2> QED
    BY <1>7, <2>1, <2>2, <2>3 DEF FileInv
<1> QED
  BY <1>2, <1>6, <1>7

\* The next error, and the one that opens the file again.
LEMMA NextError ==
  ASSUME LogTypes, errors' = (errors + 1) % TryReOpen
  PROVE  /\ errors \in Nat /\ errors' \in 0 .. TryReOpen - 1
         /\ errors' = IF errors + 1 = TryReOpen THEN 0 ELSE errors + 1
<1>1. TryReOpen \in Nat \ {0} /\ errors \in 0 .. TryReOpen - 1
  BY Constants DEF LogTypes
<1>2. CASE errors + 1 = TryReOpen
  <2>1. TryReOpen % TryReOpen = 0
    BY <1>1
  <2> QED
    BY <1>1, <1>2, <2>1
<1>3. CASE errors + 1 # TryReOpen
  <2>1. errors + 1 \in 0 .. TryReOpen - 1
    BY <1>1, <1>3
  <2>2. (errors + 1) % TryReOpen = errors + 1
    BY <1>1, <2>1
  <2> QED
    BY <1>1, <1>3, <2>1, <2>2
<1> QED
  BY <1>2, <1>3

\* The record goes to the end of the newest file.
LEMMA WrittenStep ==
  ASSUME FileInv, Write, writable /\ file.open
  PROVE  FileInv'
<1> DEFINE n == Len(content)
           f == file.of
           new == [lines |-> Append(content[f].lines, Head(rec)), day |-> today]
<1>0. LogTypes /\ "writer" \in Actor /\ InOrder /\ logged \in Nat
  BY DEF FileInv, Actor, LogTypes
<1>1. /\ at["writer"].pc = "write" /\ ~Rotating("writer") /\ rec # <<>>
      /\ content' = [content EXCEPT ![f] = new]
      /\ errors' = 0 /\ lostInRow' = 0 /\ Goto("writer", "note") /\ file' = file
      /\ met' = (met \/ Rotating("check"))
      /\ UNCHANGED <<daily, logged, rec, current, dated, lastCheck, today, writable, idleChecks, cleaned>>
  BY <1>0 DEF Write, checks, world, Rotating, InOrder, Beside
<1>2. f \in 1 .. n /\ n \in Nat \ {0} /\ content \in Seq(FileStates)
  BY <1>0, PartTypes DEF LogTypes
<1>3. /\ rec \in Seq(Nat) /\ Len(rec) \in Nat \ {0} /\ Head(rec) \in Nat
      /\ Head(rec) = logged - Len(rec) + 1
  <2>1. rec \in Seq(Nat) /\ Len(rec) \in Nat \ {0}
    BY <1>0, <1>1 DEF LogTypes
  <2>2. rec[1] = logged - Len(rec) + 1 /\ Head(rec) = rec[1] /\ Head(rec) \in Nat
    BY <1>0, <2>1 DEF InOrder
  <2> QED
    BY <2>1, <2>2
<1>4. /\ content[f].lines \in Seq(Nat) /\ new.lines \in Seq(Nat) /\ new \in FileStates
      /\ new.day = today /\ new.lines = Append(content[f].lines, Head(rec))
  <2>1. content[f].lines \in Seq(Nat)
    BY <1>0, <1>2, PartTypes
  <2>2. today \in Day
    BY <1>0 DEF LogTypes
  <2> QED
    BY <1>3, <2>1, <2>2 DEF FileStates
<1>5. DEFINE m == Len(content[f].lines)
<1>6. /\ m \in Nat /\ DOMAIN content[f].lines = 1 .. m
      /\ DOMAIN new.lines = 1 .. (m + 1) /\ new.lines[m + 1] = Head(rec)
      /\ \A k \in 1 .. m : new.lines[k] = content[f].lines[k]
  BY <1>3, <1>4
<1>7. new.lines # <<>>
  <2>1. m + 1 \in DOMAIN new.lines /\ DOMAIN (<<>>) = {}
    BY <1>6
  <2> QED
    BY <2>1
<1> HIDE DEF new, m
<1>8. /\ content' \in Seq(FileStates) /\ Len(content') = n /\ DOMAIN content' = 1 .. n /\ DOMAIN content = 1 .. n
      /\ content'[f] = new /\ \A i \in 1 .. n : i # f => content'[i] = content[i]
  BY <1>1, <1>2, <1>4
<1>9. /\ at' \in [Actor -> AtStates] /\ at'["writer"].pc = "note"
      /\ \A y \in Actor \ {"writer"} : at'[y] = at[y]
      /\ \A y \in Actor : at'[y].pc = "assign" => at'[y].fd \in 1 .. n
  BY <1>0, <1>1, GotoTypes DEF Pc
<1>10. LogTypes'
  <2>1. Len(content') >= 1 /\ current' \in {0, Len(content')} /\ file'.of \in 1 .. Len(content')
    BY <1>0, <1>1, <1>2, <1>8 DEF LogTypes
  <2>2. \A x \in Actor : at'[x].pc = "assign" => at'[x].fd \in 1 .. Len(content')
    BY <1>8, <1>9
  <2>3. met' \in BOOLEAN
    BY <1>1
  <2>4. errors' \in 0 .. TryReOpen - 1 /\ lostInRow' \in Nat
    BY <1>1, Constants
  <2> QED
    BY <1>0, <1>1, <1>8, <1>9, <2>1, <2>2, <2>3, <2>4 DEF LogTypes
<1>11. InOrder'
  <2>1. \A i \in DOMAIN content' : \A k \in DOMAIN content'[i].lines :
          content'[i].lines[k] <= logged - Len(rec) + 1
    <3> SUFFICES ASSUME NEW i \in 1 .. n, NEW k \in DOMAIN content'[i].lines
                 PROVE  content'[i].lines[k] <= logged - Len(rec) + 1
      BY <1>8
    <3>1. CASE i # f
      BY <1>0, <1>8, <3>1, LinesBefore
    <3>2. CASE i = f /\ k = m + 1
      BY <1>0, <1>3, <1>6, <1>8, <3>2
    <3>3. CASE i = f /\ k \in 1 .. m
      BY <1>0, <1>2, <1>6, <1>8, <3>3, LinesBefore
    <3> QED
      BY <1>6, <1>8, <3>1, <3>2, <3>3
  <2> QED
    BY <1>0, <1>1, <1>9, <2>1 DEF InOrder, Actor
<1>12. ChecksCounted'
  BY <1>1, <1>9 DEF FileInv, ChecksCounted, Actor
<1>13. ASSUME ~met'
       PROVE  Apart /\ Kept /\ Sorted /\ f = n /\ (f = current \/ f \in cleaned) /\ ~Rotating("check")
  <2>1. Apart /\ Kept /\ Sorted /\ ~Rotating("check")
    BY <1>1, <1>13 DEF FileInv
  <2>2. \A x \in Actor : at[x].pc # "assign"
    BY <1>1, <2>1 DEF Rotating, Actor
  <2> QED
    BY <2>1, <2>2 DEF Apart
<1>14. ASSUME ~met' PROVE Apart'
  <2>1. \A y \in Actor : at'[y].pc \notin {"rename", "assign"} /\ ~Rotating(y)'
    BY <1>9, <1>13, <1>14 DEF Rotating, Actor
  <2>2. current \in 1 .. n => content'[current].day = today \/ content'[current] = content[current]
    BY <1>4, <1>8
  <2>3. \A d \in Day : dated'[d] # 0 => d < today' /\ (current' # 0 => content'[current'].day > d)
    BY <1>0, <1>1, <1>13, <1>14, <2>2, PartTypes DEF Apart
  <2>4. \A i \in DOMAIN content' : content'[i].day <= today'
    BY <1>0, <1>1, <1>4, <1>8, <1>13, <1>14, PartTypes DEF Apart
  <2>5. "writer" \in Actor
    BY <1>0
  <2> QED
    BY <1>1, <1>8, <1>13, <1>14, <2>1, <2>3, <2>4, <2>5 DEF Apart
<1>15. Reopens'
  BY <1>1 DEF Reopens
<1>16. ASSUME ~met' PROVE Kept'
  <2>1. Linked' = Linked /\ f \in Linked \union cleaned
    BY <1>1, <1>2, <1>13, <1>16 DEF Linked
  <2> QED
    BY <1>1, <1>8, <1>13, <1>16, <2>1 DEF Kept
<1>17. ASSUME ~met' PROVE Sorted'
  <2> SUFFICES ASSUME NEW i \in 1 .. n, NEW j \in 1 .. n,
                      NEW k \in DOMAIN content'[i].lines, NEW l \in DOMAIN content'[j].lines,
                      i < j \/ (i = j /\ k < l)
               PROVE  content'[i].lines[k] < content'[j].lines[l]
    BY <1>8 DEF Sorted
  <2>1. f = n /\ Sorted
    BY <1>13, <1>17
  <2>2. i # f \/ (i = f /\ k \in 1 .. m /\ j = f)
    <3> SUFFICES ASSUME i = f PROVE k \in 1 .. m /\ j = f
      OBVIOUS
    <3>1. j = f /\ k < l
      BY <1>2, <2>1
    <3>2. k \in 1 .. (m + 1) /\ l \in 1 .. (m + 1)
      BY <1>6, <1>8, <3>1
    <3> QED
      BY <1>6, <3>1, <3>2
  <2>3. k \in DOMAIN content[i].lines /\ content'[i].lines[k] = content[i].lines[k]
    BY <1>6, <1>8, <2>2
  <2>4. CASE j = f /\ l = m + 1
    <3>1. content[i].lines[k] \in Nat /\ content[i].lines[k] <= logged - Len(rec)
      BY <1>0, <1>1, <1>8, <2>3, LinesBefore
    <3> QED
      <4>1. content'[i].lines[k] <= logged - Len(rec) /\ content'[i].lines[k] \in Nat
        BY <2>3, <3>1
      <4>2. content'[j].lines[l] = logged - Len(rec) + 1
        BY <1>3, <1>6, <1>8, <2>4
      <4> QED
        BY <1>0, <1>3, <4>1, <4>2
  <2>5. CASE ~(j = f /\ l = m + 1)
    <3>1. l \in DOMAIN content[j].lines /\ content'[j].lines[l] = content[j].lines[l]
      BY <1>6, <1>8, <2>5
    <3> QED
      BY <1>8, <2>1, <2>3, <3>1 DEF Sorted
  <2> QED
    BY <2>4, <2>5
<1> QED
  BY <1>10, <1>11, <1>12, <1>14, <1>15, <1>16, <1>17 DEF FileInv

\* The record is lost.
LEMMA LostStep ==
  ASSUME FileInv, Write, ~(writable /\ file.open)
  PROVE  FileInv'
<1>0. LogTypes /\ "writer" \in Actor /\ InOrder /\ lostInRow \in Nat
  BY DEF FileInv, Actor, LogTypes
<1>1. /\ at["writer"].pc = "write" /\ ~Rotating("writer") /\ rec # <<>>
      /\ errors' = (errors + 1) % TryReOpen
      /\ lostInRow' = IF writable THEN lostInRow + 1 ELSE 0
      /\ \/ errors' = 0 /\ Enter("writer", FALSE)
         \/ /\ errors' # 0 /\ Goto("writer", "note") /\ file' = file
            /\ met' = (met \/ Rotating("check"))
      /\ UNCHANGED <<daily, logged, rec, content, current, dated, lastCheck, today, writable, idleChecks, cleaned>>
  BY <1>0 DEF Write, checks, world, Rotating, InOrder, Beside
<1>2. /\ errors \in Nat /\ errors' \in 0 .. TryReOpen - 1
      /\ errors' = IF errors + 1 = TryReOpen THEN 0 ELSE errors + 1
  BY <1>0, <1>1, NextError
<1>3. lostInRow' \in Nat
  BY <1>0, <1>1
<1>4. ASSUME ~met, ~Rotating("check") PROVE lostInRow' <= errors + 1
  <2>1. writable => lostInRow <= errors
    BY <1>0, <1>1, <1>4 DEF FileInv, Reopens
  <2> QED
    BY <1>0, <1>1, <1>2, <2>1
<1>5. CASE errors' = 0 /\ Enter("writer", FALSE)
  <2>1. /\ file' \in [of : Nat \ {0}, open : BOOLEAN] /\ file'.of = file.of /\ ~file'.open
        /\ met' \in BOOLEAN
        /\ at' \in [Actor -> AtStates] /\ at'["writer"].pc = "stat"
        /\ \A y \in Actor \ {"writer"} : at'[y] = at[y]
        /\ \A y \in Actor : at'[y].pc = "assign" => at'[y].fd \in 1 .. Len(content)
        /\ ~met' => ~met /\ ~Rotating("check")
    <3>1. "check" \in Actor \ {"writer"}
      BY DEF Actor
    <3> QED
      BY <1>0, <1>5, <3>1, EnterTypes
  <2>2. LogTypes'
    BY <1>0, <1>1, <1>2, <1>3, <2>1 DEF LogTypes
  <2>3. InOrder'
    BY <1>0, <1>1, <2>1 DEF InOrder, Actor
  <2>4. ChecksCounted'
    BY <1>1, <2>1 DEF FileInv, ChecksCounted, Actor
  <2>5. ~met' => Apart' /\ Rotating("writer")'
    BY <1>0, <1>1, <1>5, <2>1, EnterApart DEF FileInv
  <2>6. ASSUME ~met' PROVE Reopens'
    <3>1. errors + 1 = TryReOpen /\ lostInRow' <= errors + 1
      BY <1>2, <1>4, <1>5, <2>1, <2>6
    <3> QED
      BY <2>5, <2>6, <3>1 DEF Reopens
  <2>7. ~met' => Kept' /\ Sorted'
    BY <1>1, <2>1 DEF FileInv, Kept, Sorted, Linked
  <2> QED
    BY <2>1, <2>2, <2>3, <2>4, <2>5, <2>6, <2>7 DEF FileInv
<1>6. CASE /\ errors' # 0 /\ Goto("writer", "note") /\ file' = file
           /\ met' = (met \/ Rotating("check"))
  <2>1. /\ at' \in [Actor -> AtStates] /\ at'["writer"].pc = "note"
        /\ \A y \in Actor \ {"writer"} : at'[y] = at[y]
        /\ \A y \in Actor : at'[y].pc = "assign" => at'[y].fd \in 1 .. Len(content)
    BY <1>0, <1>6, GotoTypes DEF Pc
  <2>2. met' \in BOOLEAN
    BY <1>6
  <2>3. LogTypes'
    BY <1>0, <1>1, <1>2, <1>3, <1>6, <2>1, <2>2 DEF LogTypes
  <2>4. InOrder'
    BY <1>0, <1>1, <2>1, LinesBefore DEF InOrder, Actor
  <2>5. ChecksCounted'
    BY <1>1, <1>0, <2>1 DEF FileInv, ChecksCounted, Actor
  <2>6. ~met' => Apart'
    BY <1>0, <1>1, <1>6, <2>1, GotoApart DEF FileInv
  <2>7. ~met' => Reopens'
    BY <1>2, <1>4, <1>6 DEF Reopens
  <2>8. ~met' => Kept' /\ Sorted'
    <3>1. ~met' => ~met
      BY <1>6
    <3> QED
      BY <1>1, <3>1 DEF FileInv, Kept, Sorted, Linked
  <2> QED
    BY <2>3, <2>4, <2>5, <2>6, <2>7, <2>8 DEF FileInv
<1> QED
  BY <1>1, <1>5, <1>6

LEMMA StepFile == FileInv /\ [LogNext]_logVars => FileInv'
<1> SUFFICES ASSUME FileInv, [LogNext]_logVars PROVE FileInv'
  OBVIOUS
<1>1. CASE LogWrite \/ Close \/ Midnight \/ DiskFails \/ DiskWorks \/ Clean
  BY <1>1, LogWriteStep, WorldStep, MidnightStep, CleanStep
<1>2. CASE Take \/ Write \/ Note \/ Finish
  BY <1>2, TakeStep, WrittenStep, LostStep, NoteStep, FinishStep
<1>3. CASE \E x \in Actor : RotateStep(x)
  BY <1>3, StatStep, RenameStep, OpenFileStep, AssignStep DEF RotateStep
<1>4. CASE CheckPersistStatus
  BY <1>4, CheckStep
<1>5. CASE UNCHANGED logVars
  <2>1. UNCHANGED <<daily, logged, rec, content, current, dated, file, errors, at, lastCheck, today,
                    writable, lostInRow, idleChecks, cleaned, met>>
    BY <1>5 DEF logVars, disk, writerFields, stats, checks, world, history
  <2> QED
    <3>1. LogTypes' /\ InOrder' /\ ChecksCounted'
      BY <2>1 DEF FileInv, LogTypes, InOrder, ChecksCounted
    <3>2. ~met => Apart' /\ Reopens'
      BY <2>1 DEF FileInv, Apart, Reopens, Rotating
    <3>3. ~met => Kept' /\ Sorted'
      BY <2>1 DEF FileInv, Kept, Sorted, Linked
    <3> QED
      BY <2>1, <3>1, <3>2, <3>3 DEF FileInv
<1> QED
  BY <1>1, <1>2, <1>3, <1>4, <1>5 DEF LogNext, Writer, Actor

\* The writer's fields, the channel and the files stay as they are declared, and while
\* the two keep apart the writer's file is the newest one, linked or cleaned away, the
\* files of past days are of past days, and every lost record is counted.
THEOREM FileInvHolds == LogSpec => []FileInv
BY InitFile, StepFile, PTL DEF LogSpec

\* What has been written stays on the disk until the cleaner comes, once and in order,
\* unless the check has rotated beside the writer's goroutine: for any limits, days and
\* any number of files (intRotate, LogWrite and _monitor).
THEOREM WrittenStaysHolds == LogSpec => []WrittenStays
<1>1. FileInv => WrittenStays
  BY DEF FileInv, WrittenStays, Kept, Sorted
<1> QED
  BY <1>1, FileInvHolds, PTL

\* A disk that works again is written again after tryReOpenErrorsCount lost records at
\* most, and a file that was removed is made again by the second check that has seen
\* records: with the same exception.
THEOREM KeepsWritingHolds == LogSpec => []KeepsWriting
<1>1. FileInv => KeepsWriting
  BY Constants DEF FileInv, KeepsWriting, LogTypes, Reopens, ChecksCounted
<1> QED
  BY <1>1, FileInvHolds, PTL
=============================================================================
